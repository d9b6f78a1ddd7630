----------------------------- MODULE MovieProofs -----------------------------
(***************************************************************************)
(* Proofs about MovieSort, for every list of movies, every set of requests *)
(* and any forks that fail: the ranges of a level are a partition, main    *)
(* never overtakes its workers, no movie is lost, and the lists come out   *)
(* in order wherever the scores are kept.  They rest on what the functions *)
(* of lib.c and the cut into ranges do for lists of every length, which    *)
(* comes first.                                                            *)
(***************************************************************************)
EXTENDS MovieSort, DataLemmas, SequenceTheorems

-----------------------------------------------------------------------------
(* Powers of two: the numbers of ranges. *)

PowersOfTwo == {b \in Nat : \A S \in SUBSET Nat : 1 \in S /\ (\A k \in S : 2 * k \in S) => b \in S}

LEMMA PowerOfTwo ==
  /\ 1 \in PowersOfTwo
  /\ \A b \in PowersOfTwo : 2 * b \in PowersOfTwo
  /\ \A b \in PowersOfTwo : b \in Nat \ {0} /\ (b = 1 \/ \E c \in PowersOfTwo : b = 2 * c)
<1>1. 1 \in PowersOfTwo
  BY DEF PowersOfTwo
<1>2. \A b \in PowersOfTwo : 2 * b \in PowersOfTwo
  BY DEF PowersOfTwo
<1>3. ASSUME NEW b \in PowersOfTwo
      PROVE  b \in Nat \ {0} /\ (b = 1 \/ \E c \in PowersOfTwo : b = 2 * c)
  <2>1. b \in Nat /\ \A S \in SUBSET Nat : 1 \in S /\ (\A k \in S : 2 * k \in S) => b \in S
    BY DEF PowersOfTwo
  <2>2. b \in Nat \ {0}
    <3>1. Nat \ {0} \in SUBSET Nat /\ 1 \in Nat \ {0} /\ \A k \in Nat \ {0} : 2 * k \in Nat \ {0}
      OBVIOUS
    <3> QED BY <2>1, <3>1
  <2> DEFINE S == {1} \cup {2 * c : c \in PowersOfTwo}
  <2>3. S \in SUBSET Nat
    BY DEF PowersOfTwo
  <2>4. S \subseteq PowersOfTwo
    BY <1>1, <1>2
  <2>5. \A k \in S : 2 * k \in S
    BY <2>4
  <2>6. b \in S
    <3>1. 1 \in S
      OBVIOUS
    <3> HIDE DEF S
    <3> QED BY <2>1, <2>3, <2>5, <3>1
  <2> QED BY <2>2, <2>6
<1> QED BY <1>1, <1>2, <1>3

\* Products grow with their factors.
LEMMA Products ==
  ASSUME NEW s \in Nat, NEW a \in Nat, NEW b \in Nat, a <= b
  PROVE  s * a \in Nat /\ s * b \in Nat /\ s * a <= s * b /\ s * (a + 1) = s * a + s
<1> DEFINE d == b - a
<1>1. d \in Nat /\ b = a + d
  OBVIOUS
<1>2. s * d \in Nat /\ s * a \in Nat
  OBVIOUS
<1> HIDE DEF d
<1>3. s * b = s * a + s * d
  BY <1>1
<1> QED BY <1>2, <1>3

\* The number of ranges of a list is a power of two.
LEMMA BaseIsPower ==
  ASSUME NEW count \in Nat
  PROVE  Base(count) \in PowersOfTwo
<1> DEFINE passed == Cardinality({t \in Threshold : count > t})
           h == [p \in (1 .. passed) \X PowersOfTwo |-> 2 * p[2]]
<1>1. passed \in Nat
  <2>1. IsFiniteSet({t \in Threshold : count > t})
    BY MoviesAssumption, FS_Subset
  <2> QED BY <2>1, FS_CardinalityType
<1>2. h \in Steps(passed, PowersOfTwo)
  BY PowerOfTwo DEF Steps
<1>3. PICK f \in [0 .. passed -> PowersOfTwo] : Iterates(f, passed, 1, h)
  <2> HIDE DEF passed, h
  <2> QED BY <1>1, <1>2, PowerOfTwo, StepByStep
<1>4. f = [k \in 0 .. passed |-> IF k = 0 THEN 1 ELSE 2 * f[k - 1]]
  <2> SUFFICES ASSUME NEW k \in 0 .. passed, k # 0 PROVE f[k] = 2 * f[k - 1]
    BY <1>3 DEF Iterates
  <2>1. k \in 1 .. passed /\ k - 1 \in 0 .. passed
    BY <1>1
  <2>2. f[k - 1] \in PowersOfTwo
    BY <1>3, <2>1
  <2> HIDE DEF passed
  <2> QED BY <1>3, <2>1, <2>2 DEF Iterates
<1> HIDE DEF h
<1>5. \E g : g = [k \in 0 .. passed |-> IF k = 0 THEN 1 ELSE 2 * g[k - 1]] /\ Base(count) = g[passed]
  BY <1>4 DEF Base
<1>6. PICK g : g = [k \in 0 .. passed |-> IF k = 0 THEN 1 ELSE 2 * g[k - 1]] /\ Base(count) = g[passed]
  BY <1>5
<1> DEFINE G == {k \in Nat : k <= passed => g[k] \in PowersOfTwo}
<1> HIDE DEF passed
<1>7. 0 \in G
  BY <1>1, <1>6, PowerOfTwo
<1>8. ASSUME NEW k \in Nat, k \in G PROVE k + 1 \in G
  <2> SUFFICES ASSUME k + 1 <= passed PROVE g[k + 1] \in PowersOfTwo
    OBVIOUS
  <2>1. k + 1 \in 0 .. passed /\ k + 1 # 0 /\ (k + 1) - 1 = k
    BY <1>1
  <2>2. g[k + 1] = 2 * g[k]
    BY <1>6, <2>1
  <2> QED BY <1>1, <1>8, <2>2, PowerOfTwo
<1>9. passed \in G
  <2> HIDE DEF G
  <2> QED BY <1>1, <1>7, <1>8, SetInduction
<1> QED BY <1>1, <1>6, <1>9

-----------------------------------------------------------------------------
(* The order of the movies, and the best of some. *)

LEMMA TitlesAreNumbers == Title \subseteq Nat
BY MoviesAssumption DEF Title, Slots

\* Before is a strict order on the entries, and total but for entries that are equal.
LEMMA BeforeOrders ==
  /\ \A x \in Entry : ~ Before(x, x)
  /\ \A x, y \in Entry : Before(x, y) => ~ Before(y, x)
  /\ \A x, y, z \in Entry : ~ Before(y, x) /\ ~ Before(z, y) => ~ Before(z, x)
<1> SUFFICES ASSUME NEW x \in Entry, NEW y \in Entry, NEW z \in Entry
             PROVE  /\ ~ Before(x, x)
                    /\ Before(x, y) => ~ Before(y, x)
                    /\ ~ Before(y, x) /\ ~ Before(z, y) => ~ Before(z, x)
  OBVIOUS
<1>1. \A e \in Entry : e.score \in Nat /\ e.title \in Nat
  BY TitlesAreNumbers DEF Entry
<1> QED BY <1>1 DEF Before

\* argmax finds the best of what is left.
LEMMA ArgmaxIsBest ==
  ASSUME NEW s \in Seq(Entry), NEW first \in 1 .. Len(s)
  PROVE  /\ argmax(s, first) \in first .. Len(s)
         /\ \A k \in first .. Len(s) : ~ Before(s[k], s[argmax(s, first)])
<1> DEFINE n == Len(s) - first
           D == first .. Len(s)
           h == [p \in (1 .. n) \X D |-> IF Before(s[first + p[1]], s[p[2]]) THEN first + p[1] ELSE p[2]]
<1>1. n \in Nat /\ first \in D /\ first \in Nat /\ Len(s) \in Nat
  OBVIOUS
<1>2. h \in Steps(n, D)
  BY <1>1 DEF Steps
<1>3. PICK f \in [0 .. n -> D] : Iterates(f, n, first, h)
  <2> HIDE DEF n, D, h
  <2> QED BY <1>1, <1>2, StepByStep
<1> DEFINE ret == [k \in D |-> f[k - first]]
<1>4. ret \in [D -> D] /\ ret[first] = first
  BY <1>1, <1>3 DEF Iterates
<1>5. \A k \in D : k # first => ret[k] = IF Before(s[k], s[ret[k - 1]]) THEN k ELSE ret[k - 1]
  <2> SUFFICES ASSUME NEW k \in D, k # first
               PROVE  ret[k] = IF Before(s[k], s[ret[k - 1]]) THEN k ELSE ret[k - 1]
    OBVIOUS
  <2> DEFINE i == k - first
  <2>1. i \in 1 .. n /\ first + i = k /\ k - 1 \in D /\ i - 1 = (k - 1) - first /\ i - 1 \in 0 .. n
    BY <1>1
  <2>2. ret[k] = f[i] /\ ret[k - 1] = f[i - 1] /\ f[i - 1] \in D
    BY <2>1
  <2> HIDE DEF i, ret, D, n
  <2>3. f[i] = h[<<i, f[i - 1]>>]
    BY <1>3, <2>1 DEF Iterates
  <2>4. <<i, f[i - 1]>> \in (1 .. n) \X D
    BY <2>1, <2>2
  <2>5. h[<<i, f[i - 1]>>] = IF Before(s[first + i], s[f[i - 1]]) THEN first + i ELSE f[i - 1]
    BY <2>4
  <2> QED BY <2>1, <2>2, <2>3, <2>5
<1>6. ret = [k \in D |-> IF k = first THEN k ELSE IF Before(s[k], s[ret[k - 1]]) THEN k ELSE ret[k - 1]]
  <2> HIDE DEF ret
  <2>1. \A k \in D : ret[k] = IF k = first THEN k ELSE IF Before(s[k], s[ret[k - 1]]) THEN k ELSE ret[k - 1]
    BY <1>4, <1>5
  <2>2. ret = [k \in D |-> ret[k]]
    BY <1>4
  <2> HIDE DEF D
  <2> QED BY <2>1, <2>2
<1> HIDE DEF ret, h, n
<1>7. \E g : /\ g = [k \in first .. Len(s) |-> IF k = first THEN k ELSE IF Before(s[k], s[g[k - 1]]) THEN k ELSE g[k - 1]]
             /\ argmax(s, first) = g[Len(s)]
  BY <1>6 DEF argmax
<1>8. PICK g : /\ g = [k \in first .. Len(s) |-> IF k = first THEN k ELSE IF Before(s[k], s[g[k - 1]]) THEN k ELSE g[k - 1]]
               /\ argmax(s, first) = g[Len(s)]
  BY <1>7
<1> DEFINE Good(m) == g[m] \in first .. m /\ \A k \in first .. m : ~ Before(s[k], s[g[m]])
           G == {i \in Nat : i <= n => Good(first + i)}
<1>9. 0 \in G
  <2>1. g[first] = first /\ s[first] \in Entry /\ ~ Before(s[first], s[first])
    BY <1>1, <1>8, BeforeOrders
  <2> QED BY <1>1, <2>1
<1>10. ASSUME NEW i \in Nat, i \in G PROVE i + 1 \in G
  <2> SUFFICES ASSUME i + 1 <= n PROVE Good(first + (i + 1))
    OBVIOUS
  <2> DEFINE m == first + i
  <2>1. Good(m)
    BY <1>1, <1>10
  <2>2. m + 1 = first + (i + 1) /\ m + 1 \in D /\ m + 1 # first /\ (m + 1) - 1 = m /\ m \in first .. Len(s)
    BY <1>1 DEF n
  <2> HIDE DEF m
  <2>3. g[m + 1] = IF Before(s[m + 1], s[g[m]]) THEN m + 1 ELSE g[m]
    BY <1>8, <2>2
  <2>4. \A k \in first .. m + 1 : s[k] \in Entry /\ (k \in first .. m \/ k = m + 1)
    BY <1>1, <2>2
  <2>5. g[m] \in first .. m /\ s[g[m]] \in Entry
    <3>1. g[m] \in first .. m
      BY <2>1
    <3>2. \A k \in first .. m : k \in first .. m + 1
      BY <1>1, <2>2
    <3> QED BY <2>4, <3>1, <3>2
  <2>6. CASE Before(s[m + 1], s[g[m]])
    <3> SUFFICES ASSUME NEW k \in first .. m + 1 PROVE ~ Before(s[k], s[m + 1])
      BY <1>1, <2>2, <2>3, <2>6
    <3>1. ~ Before(s[g[m]], s[m + 1])
      BY <2>2, <2>4, <2>5, <2>6, BeforeOrders
    <3>2. k \in first .. m => ~ Before(s[k], s[g[m]])
      BY <2>1
    <3> QED BY <2>2, <2>4, <2>5, <3>1, <3>2, BeforeOrders
  <2>7. CASE ~ Before(s[m + 1], s[g[m]])
    <3>1. g[m + 1] = g[m]
      BY <2>3, <2>7
    <3>2. g[m + 1] \in first .. m + 1
      BY <1>1, <2>2, <2>5, <3>1
    <3>3. \A k \in first .. m + 1 : ~ Before(s[k], s[g[m]])
      BY <2>1, <2>4, <2>7
    <3> QED BY <2>2, <3>1, <3>2, <3>3
  <2> QED BY <2>2, <2>6, <2>7
<1>11. n \in G
  <2> HIDE DEF G
  <2> QED BY <1>1, <1>9, <1>10, SetInduction
<1>12. Good(Len(s))
  <2>1. first + n = Len(s)
    BY DEF n
  <2> QED BY <1>1, <1>11, <2>1
<1> QED BY <1>8, <1>12

-----------------------------------------------------------------------------
(* Sorting. *)

Titles(q) == {q[k].title : k \in DOMAIN q}

\* No title is in q twice.
OneEach(q) == \A j, k \in DOMAIN q : q[j].title = q[k].title => j = k

\* r has the entries of q, in another order.
Shuffled(q, r) ==
  r \in Seq(Entry) /\ Len(r) = Len(q) /\ Slots(r) = Slots(q) /\ (OneEach(q) => OneEach(r))

LEMMA TitlesOfSlots ==
  ASSUME NEW q
  PROVE  Titles(q) = {e.title : e \in Slots(q)}
<1>1. \A k \in DOMAIN q : q[k] \in Slots(q)
  BY DEF Slots
<1>2. \A e \in Slots(q) : \E k \in DOMAIN q : e = q[k]
  BY DEF Slots
<1> QED BY <1>1, <1>2 DEF Titles

LEMMA SwappedShuffles ==
  ASSUME NEW s \in Seq(Entry), NEW j \in 1 .. Len(s), NEW k \in 1 .. Len(s)
  PROVE  /\ Shuffled(s, Swapped(s, j, k))
         /\ Swapped(s, j, k)[j] = s[k]
         /\ \A m \in 1 .. Len(s) : m # j /\ m # k => Swapped(s, j, k)[m] = s[m]
<1> DEFINE r == Swapped(s, j, k)
           to == [m \in 1 .. Len(s) |-> IF m = j THEN k ELSE IF m = k THEN j ELSE m]
<1>1. Len(s) \in Nat /\ DOMAIN s = 1 .. Len(s)
  OBVIOUS
<1>2. DOMAIN r = 1 .. Len(s) /\ \A m \in 1 .. Len(s) : r[m] = s[to[m]]
  BY <1>1 DEF Swapped
<1>3. r \in Seq(Entry) /\ Len(r) = Len(s)
  <2>1. r \in [1 .. Len(s) -> Entry]
    BY <1>1 DEF Swapped
  <2> HIDE DEF r
  <2> QED BY <1>1, <2>1
<1>4. /\ \A m \in 1 .. Len(s) : to[m] \in 1 .. Len(s) /\ to[to[m]] = m
      /\ to[j] = k /\ \A m \in 1 .. Len(s) : m # j /\ m # k => to[m] = m
  OBVIOUS
<1> HIDE DEF r, to
<1>5. Slots(r) = Slots(s)
  <2>1. \A m \in 1 .. Len(s) : r[m] \in Slots(s) /\ s[m] = r[to[m]]
    BY <1>1, <1>2, <1>4 DEF Slots
  <2>2. \A m \in 1 .. Len(s) : s[m] \in Slots(r)
    BY <1>2, <1>4, <2>1 DEF Slots
  <2>3. Slots(r) = {r[m] : m \in 1 .. Len(s)} /\ Slots(s) = {s[m] : m \in 1 .. Len(s)}
    BY <1>1, <1>2 DEF Slots
  <2>4. Slots(r) \subseteq Slots(s)
    BY <2>1, <2>3
  <2>5. Slots(s) \subseteq Slots(r)
    BY <2>2, <2>3
  <2> QED BY <2>4, <2>5
<1>6. OneEach(s) => OneEach(r)
  <2> SUFFICES ASSUME OneEach(s), NEW a \in 1 .. Len(s), NEW b \in 1 .. Len(s), r[a].title = r[b].title
               PROVE  a = b
    BY <1>1, <1>2 DEF OneEach
  <2>1. to[a] = to[b]
    BY <1>1, <1>2, <1>4 DEF OneEach
  <2> QED BY <1>4, <2>1
<1> QED BY <1>2, <1>3, <1>4, <1>5, <1>6 DEF Shuffled, r

\* sort() puts the entries in order, and loses none.
LEMMA SortSorts ==
  ASSUME NEW s \in Seq(Entry), s # <<>>
  PROVE  Shuffled(s, Sort(s)) /\ Ordered(Sort(s))
<1> DEFINE n == Len(s) - 1
           Same == {q \in Seq(Entry) : Len(q) = Len(s)}
           h == [p \in (1 .. n) \X Same |-> Swapped(p[2], p[1], argmax(p[2], p[1]))]
<1>1. n \in Nat /\ s \in Same /\ n + 1 = Len(s) /\ Len(s) \in Nat
  OBVIOUS
<1>2. h \in Steps(n, Same)
  <2> SUFFICES ASSUME NEW i \in 1 .. n, NEW q \in Same PROVE Swapped(q, i, argmax(q, i)) \in Same
    BY DEF Steps
  <2>1. i \in 1 .. Len(q) /\ q \in Seq(Entry) /\ Len(q) = Len(s)
    BY <1>1
  <2>2. argmax(q, i) \in 1 .. Len(q)
    BY <1>1, <2>1, ArgmaxIsBest
  <2> QED BY <2>1, <2>2, SwappedShuffles DEF Shuffled
<1>3. PICK f \in [0 .. n -> Same] : Iterates(f, n, s, h)
  <2> HIDE DEF n, Same, h
  <2> QED BY <1>1, <1>2, StepByStep
<1>4. f = [i \in 0 .. Len(s) - 1 |-> IF i = 0 THEN s ELSE Swapped(f[i - 1], i, argmax(f[i - 1], i))]
  <2> SUFFICES ASSUME NEW i \in 1 .. n PROVE f[i] = Swapped(f[i - 1], i, argmax(f[i - 1], i))
    <3>1. f[0] = s /\ \A i \in 0 .. n : i # 0 => i \in 1 .. n
      BY <1>3 DEF Iterates
    <3> HIDE DEF Same
    <3> QED BY <1>3, <3>1
  <2>1. f[i] = h[<<i, f[i - 1]>>]
    BY <1>3 DEF Iterates
  <2>2. f[i - 1] \in Same
    <3>1. i - 1 \in 0 .. n
      BY <1>1
    <3> HIDE DEF Same
    <3> QED BY <1>3, <3>1
  <2> HIDE DEF n, Same
  <2> QED BY <2>1, <2>2
<1> HIDE DEF h
<1>5. \E g : /\ g = [i \in 0 .. Len(s) - 1 |-> IF i = 0 THEN s ELSE Swapped(g[i - 1], i, argmax(g[i - 1], i))]
             /\ Sort(s) = g[Len(s) - 1]
  BY <1>4 DEF Sort
<1>6. PICK g : /\ g = [i \in 0 .. Len(s) - 1 |-> IF i = 0 THEN s ELSE Swapped(g[i - 1], i, argmax(g[i - 1], i))]
               /\ Sort(s) = g[Len(s) - 1]
  BY <1>5
<1> DEFINE Good(i) == /\ Shuffled(s, g[i])
                      /\ \A j, k \in 1 .. Len(s) : j <= i /\ j < k => ~ Before(g[i][k], g[i][j])
           G == {i \in Nat : i <= n => Good(i)}
<1>7. 0 \in G
  <2>1. g[0] = s
    BY <1>1, <1>6
  <2>2. Good(0)
    BY <1>1, <2>1 DEF Shuffled
  <2> QED BY <2>2
<1>8. ASSUME NEW i \in Nat, i \in G PROVE i + 1 \in G
  <2> SUFFICES ASSUME i + 1 <= n PROVE Good(i + 1)
    OBVIOUS
  <2> DEFINE q == g[i]
             m == i + 1
             b == argmax(q, m)
             r == Swapped(q, m, b)
  <2>1. Good(i)
    BY <1>1, <1>8
  <2>2. /\ q \in Seq(Entry) /\ Len(q) = Len(s) /\ Slots(q) = Slots(s) /\ (OneEach(s) => OneEach(q))
        /\ \A j, k \in 1 .. Len(s) : j <= i /\ j < k => ~ Before(q[k], q[j])
    BY <2>1 DEF Shuffled
  <2>3. m \in 1 .. Len(s) /\ m \in 0 .. Len(s) - 1 /\ m # 0 /\ m - 1 = i /\ i < m /\ i \in Nat
    BY <1>1
  <2>4. g[m] = r
    BY <1>6, <2>3
  <2> HIDE DEF q, m
  <2>5. b \in m .. Len(s) /\ \A k \in m .. Len(s) : ~ Before(q[k], q[b])
    BY <2>2, <2>3, ArgmaxIsBest
  <2> HIDE DEF b
  <2>6. b \in 1 .. Len(s)
    BY <1>1, <2>3, <2>5
  <2>7. Shuffled(q, r) /\ r[m] = q[b] /\ \A k \in 1 .. Len(s) : k # m /\ k # b => r[k] = q[k]
    BY <2>2, <2>3, <2>6, SwappedShuffles
  <2>8. \A k \in m .. Len(s) : \E a \in m .. Len(s) : r[k] = q[a]
    <3> SUFFICES ASSUME NEW k \in m .. Len(s) PROVE \E a \in m .. Len(s) : r[k] = q[a]
      OBVIOUS
    <3>1. k = b /\ k # m => r[k] = q[m]
      BY <1>1, <2>2, <2>3, <2>6 DEF Swapped
    <3>2. k # m /\ k # b => r[k] = q[k]
      BY <1>1, <2>3, <2>7
    <3>3. m \in m .. Len(s)
      BY <1>1, <2>3
    <3> QED BY <2>5, <2>7, <3>1, <3>2, <3>3
  <2> HIDE DEF r
  <2>9. ASSUME NEW j \in 1 .. Len(s), NEW k \in 1 .. Len(s), j <= m, j < k
        PROVE  ~ Before(r[k], r[j])
    <3>1. CASE j = m
      BY <1>1, <2>3, <2>5, <2>7, <2>8, <2>9, <3>1
    <3>2. CASE j # m
      <4>1. j <= i /\ r[j] = q[j] /\ j < m
        BY <1>1, <2>3, <2>5, <2>7, <2>9, <3>2 DEF m
      <4>2. k < m => r[k] = q[k]
        BY <1>1, <2>3, <2>5, <2>7
      <4>3. k >= m => \E a \in m .. Len(s) : r[k] = q[a]
        BY <1>1, <2>3, <2>8
      <4>4. \A a \in m .. Len(s) : a \in 1 .. Len(s) /\ j < a
        BY <1>1, <2>3, <4>1
      <4> QED BY <1>1, <2>2, <2>3, <2>9, <4>1, <4>2, <4>3, <4>4
    <3> QED BY <3>1, <3>2
  <2>10. Shuffled(s, r)
    BY <2>2, <2>7 DEF Shuffled
  <2> QED BY <2>4, <2>9, <2>10 DEF m
<1>9. n \in G
  <2> HIDE DEF G
  <2> QED BY <1>1, <1>7, <1>8, SetInduction
<1>10. Good(n) /\ Sort(s) = g[n]
  BY <1>1, <1>6, <1>9
<1> HIDE DEF n
<1>11. ASSUME NEW j \in 1 .. Len(s), NEW k \in 1 .. Len(s), j < k
       PROVE  ~ Before(g[n][k], g[n][j])
  <2>1. j <= n
    BY <1>1, <1>11
  <2> QED BY <1>10, <1>11, <2>1
<1>12. Shuffled(s, g[n]) /\ DOMAIN g[n] = 1 .. Len(s)
  BY <1>1, <1>10 DEF Shuffled
<1> QED BY <1>10, <1>11, <1>12 DEF Ordered

-----------------------------------------------------------------------------
(* Merging. *)

LEMMA Piece ==
  ASSUME NEW A, NEW s \in Seq(A), NEW a \in 1 .. Len(s) + 1, NEW b \in a - 1 .. Len(s)
  PROVE  /\ SubSeq(s, a, b) \in Seq(A) /\ Len(SubSeq(s, a, b)) = b - a + 1
         /\ DOMAIN SubSeq(s, a, b) = 1 .. b - a + 1
         /\ \A i \in 1 .. b - a + 1 : SubSeq(s, a, b)[i] = s[a + i - 1]
         /\ Slots(SubSeq(s, a, b)) = {s[k] : k \in a .. b}
<1> DEFINE q == SubSeq(s, a, b)
<1>1. a \in Nat /\ b \in Int /\ b + 1 \in Nat /\ Len(s) \in Nat /\ \A i \in a .. b : i \in 1 .. Len(s) /\ s[i] \in A
  OBVIOUS
<1>2. /\ q \in Seq(A) /\ Len(q) = (IF a <= b THEN b - a + 1 ELSE 0)
      /\ \A i \in 1 .. b - a + 1 : q[i] = s[a + i - 1]
  BY <1>1, SubSeqProperties
<1>3. Len(q) = b - a + 1 /\ DOMAIN q = 1 .. b - a + 1
  <2> HIDE DEF q
  <2> QED BY <1>1, <1>2
<1> HIDE DEF q
<1>4. Slots(q) = {s[k] : k \in a .. b}
  <2>1. \A i \in 1 .. b - a + 1 : a + i - 1 \in a .. b
    BY <1>1
  <2>2. ASSUME NEW k \in a .. b PROVE s[k] \in Slots(q)
    <3> DEFINE i == k - a + 1
    <3>1. i \in 1 .. b - a + 1 /\ a + i - 1 = k
      BY <1>1
    <3> HIDE DEF i
    <3>2. q[i] = s[k]
      BY <1>2, <3>1
    <3> QED BY <1>3, <3>1, <3>2 DEF Slots
  <2>3. \A i \in 1 .. b - a + 1 : q[i] \in {s[k] : k \in a .. b}
    BY <1>2, <2>1
  <2> QED BY <1>3, <2>2, <2>3 DEF Slots
<1> QED BY <1>2, <1>3, <1>4 DEF q

LEMMA PieceKeepsOrder ==
  ASSUME NEW s \in Seq(Entry), NEW a \in 1 .. Len(s) + 1, NEW b \in a - 1 .. Len(s)
  PROVE  /\ Ordered(s) => Ordered(SubSeq(s, a, b))
         /\ OneEach(s) => OneEach(SubSeq(s, a, b))
<1> DEFINE q == SubSeq(s, a, b)
<1>1. DOMAIN q = 1 .. b - a + 1 /\ \A i \in 1 .. b - a + 1 : q[i] = s[a + i - 1]
  BY Piece
<1>2. \A i \in 1 .. b - a + 1 : a + i - 1 \in DOMAIN s /\ i \in Int
  OBVIOUS
<1> HIDE DEF q
<1>3. a \in Int /\ b \in Int
  OBVIOUS
<1>4. \A i, j \in 1 .. b - a + 1 : (i < j <=> a + i - 1 < a + j - 1) /\ (i = j <=> a + i - 1 = a + j - 1)
  BY <1>3
<1>5. Ordered(s) => Ordered(q)
  BY <1>1, <1>2, <1>4 DEF Ordered
<1>6. OneEach(s) => OneEach(q)
  <2> SUFFICES ASSUME OneEach(s), NEW i \in 1 .. b - a + 1, NEW j \in 1 .. b - a + 1, q[i].title = q[j].title
               PROVE  i = j
    BY <1>1 DEF OneEach
  <2>1. a + i - 1 = a + j - 1
    BY <1>1, <1>2 DEF OneEach
  <2> QED BY <1>4, <2>1
<1> QED BY <1>5, <1>6 DEF q

LEMMA PieceTitles ==
  ASSUME NEW s \in Seq(Entry), NEW a \in 1 .. Len(s) + 1, NEW b \in a - 1 .. Len(s)
  PROVE  Titles(SubSeq(s, a, b)) = {s[k].title : k \in a .. b}
<1> DEFINE q == SubSeq(s, a, b)
<1>1. Slots(q) = {s[k] : k \in a .. b}
  BY Piece
<1> HIDE DEF q
<1>2. Titles(q) = {e.title : e \in {s[k] : k \in a .. b}}
  BY <1>1, TitlesOfSlots
<1> QED BY <1>2 DEF q

LEMMA Prepended ==
  ASSUME NEW x \in Entry, NEW q \in Seq(Entry)
  PROVE  /\ <<x>> \o q \in Seq(Entry) /\ Len(<<x>> \o q) = Len(q) + 1
         /\ (<<x>> \o q)[1] = x /\ \A k \in 1 .. Len(q) : (<<x>> \o q)[k + 1] = q[k]
         /\ Slots(<<x>> \o q) = {x} \cup Slots(q)
         /\ OneEach(q) /\ (\A y \in Slots(q) : y.title # x.title) => OneEach(<<x>> \o q)
         /\ Ordered(q) /\ (\A y \in Slots(q) : ~ Before(y, x)) => Ordered(<<x>> \o q)
<1> DEFINE s == <<x>> \o q
<1>1. /\ s \in Seq(Entry) /\ Len(s) = Len(q) + 1 /\ Len(q) \in Nat
      /\ s[1] = x /\ \A k \in 1 .. Len(q) : s[k + 1] = q[k]
      /\ DOMAIN s = 1 .. Len(q) + 1 /\ DOMAIN q = 1 .. Len(q)
  OBVIOUS
<1> HIDE DEF s
<1>2. \A k \in DOMAIN s : k # 1 => k - 1 \in DOMAIN q /\ s[k] = q[k - 1] /\ q[k - 1] \in Slots(q)
  <2> SUFFICES ASSUME NEW k \in DOMAIN s, k # 1
               PROVE  k - 1 \in DOMAIN q /\ s[k] = q[k - 1] /\ q[k - 1] \in Slots(q)
    OBVIOUS
  <2> DEFINE i == k - 1
  <2>1. i \in 1 .. Len(q) /\ i + 1 = k
    BY <1>1
  <2> HIDE DEF i
  <2> QED BY <1>1, <2>1 DEF Slots, i
<1>3. Slots(s) = {x} \cup Slots(q)
  <2>1. \A k \in DOMAIN q : q[k] \in Slots(s)
    <3>1. \A k \in DOMAIN q : k + 1 \in DOMAIN s /\ s[k + 1] = q[k]
      BY <1>1
    <3> QED BY <3>1 DEF Slots
  <2>2. 1 \in DOMAIN s /\ x \in Slots(s)
    BY <1>1 DEF Slots
  <2> QED BY <1>1, <1>2, <2>1, <2>2 DEF Slots
<1>4. ASSUME OneEach(q), \A y \in Slots(q) : y.title # x.title PROVE OneEach(s)
  <2> SUFFICES ASSUME NEW j \in DOMAIN s, NEW k \in DOMAIN s, s[j].title = s[k].title PROVE j = k
    BY DEF OneEach
  <2>1. j \in Nat /\ k \in Nat
    BY <1>1
  <2>2. CASE j = 1 \/ k = 1
    BY <1>1, <1>2, <1>4, <2>2
  <2>3. CASE j # 1 /\ k # 1
    <3>1. j - 1 = k - 1
      BY <1>2, <1>4, <2>3 DEF OneEach
    <3> QED BY <2>1, <3>1
  <2> QED BY <2>2, <2>3
<1>5. ASSUME Ordered(q), \A y \in Slots(q) : ~ Before(y, x) PROVE Ordered(s)
  <2> SUFFICES ASSUME NEW j \in DOMAIN s, NEW k \in DOMAIN s, j < k PROVE ~ Before(s[k], s[j])
    BY DEF Ordered
  <2>1. k # 1 /\ j \in Nat /\ k \in Nat
    BY <1>1
  <2>2. CASE j = 1
    BY <1>1, <1>2, <1>5, <2>1, <2>2
  <2>3. CASE j # 1
    <3>1. j - 1 < k - 1
      BY <2>1
    <3> QED BY <1>2, <1>5, <2>1, <2>3, <3>1 DEF Ordered
  <2> QED BY <2>2, <2>3
<1> QED BY <1>1, <1>3, <1>4, <1>5 DEF s

\* The left run, when it is left over, keeps its titles.
LEMMA Spilled ==
  ASSUME NEW s \in Seq(Entry), s # <<>>
  PROVE  /\ Spill(s) \in Seq(Entry) /\ Len(Spill(s)) = Len(s)
         /\ \A k \in DOMAIN s : Spill(s)[k].title = s[k].title
         /\ Build = "THREAD" => Spill(s) = s
<1> DEFINE r == [k \in DOMAIN s |-> [s[k] EXCEPT !.score = s[1].score]]
<1>1. s[1].score \in Nat /\ \A k \in DOMAIN s : s[k].title \in Title /\ s[k] = [title |-> s[k].title, score |-> s[k].score]
  <2>1. \A e \in Entry : e.score \in Nat /\ e.title \in Title /\ e = [title |-> e.title, score |-> e.score]
    BY DEF Entry
  <2>2. s[1] \in Entry /\ \A k \in DOMAIN s : s[k] \in Entry
    OBVIOUS
  <2> QED BY <2>1, <2>2
<1>2. \A k \in DOMAIN s : r[k] = [title |-> s[k].title, score |-> s[1].score]
  BY <1>1
<1>3. r \in [DOMAIN s -> Entry]
  BY <1>1, <1>2 DEF Entry
<1>4. DOMAIN s = 1 .. Len(s) /\ Len(s) \in Nat
  OBVIOUS
<1> HIDE DEF r
<1>5. r \in Seq(Entry) /\ Len(r) = Len(s)
  BY <1>3, <1>4
<1> QED BY <1>2, <1>5 DEF Spill, r

\* The two heads of a merge, what is left before the end, and what is written from
\* there on when g tells what is from the next heads on.
Heads(l, r) == (1 .. Len(l) + 1) \X (1 .. Len(r) + 1)
Left(l, r, p) == (Len(l) + 1 - p[1]) + (Len(r) + 1 - p[2])
From(l, r, g, p) ==
  LET j == p[1]  k == p[2] IN
  IF j > Len(l) THEN SubSeq(r, k, Len(r))
  ELSE IF k > Len(r) THEN Spill(SubSeq(l, j, Len(l)))
  ELSE IF Before(l[j], r[k]) THEN <<l[j]>> \o g[<<j + 1, k>>]
                             ELSE <<r[k]>> \o g[<<j, k + 1>>]

LEMMA HeadsMove ==
  ASSUME NEW l \in Seq(Entry), NEW r \in Seq(Entry), NEW p \in Heads(l, r)
  PROVE  /\ p[1] \in 1 .. Len(l) + 1 /\ p[2] \in 1 .. Len(r) + 1 /\ Left(l, r, p) \in Nat
         /\ p[1] <= Len(l) => /\ <<p[1] + 1, p[2]>> \in Heads(l, r)
                              /\ Left(l, r, <<p[1] + 1, p[2]>>) = Left(l, r, p) - 1
         /\ p[2] <= Len(r) => /\ <<p[1], p[2] + 1>> \in Heads(l, r)
                              /\ Left(l, r, <<p[1], p[2] + 1>>) = Left(l, r, p) - 1
<1> DEFINE j == p[1]  k == p[2]
<1>1. j \in 1 .. Len(l) + 1 /\ k \in 1 .. Len(r) + 1
  BY DEF Heads
<1>2. Len(l) \in Nat /\ Len(r) \in Nat
  OBVIOUS
<1> HIDE DEF j, k
<1>3. j <= Len(l) => /\ <<j + 1, k>> \in Heads(l, r)
                     /\ (Len(l) + 1 - (j + 1)) + (Len(r) + 1 - k) = (Len(l) + 1 - j) + (Len(r) + 1 - k) - 1
  BY <1>1, <1>2 DEF Heads
<1>4. k <= Len(r) => /\ <<j, k + 1>> \in Heads(l, r)
                     /\ (Len(l) + 1 - j) + (Len(r) + 1 - (k + 1)) = (Len(l) + 1 - j) + (Len(r) + 1 - k) - 1
  BY <1>1, <1>2 DEF Heads
<1>5. (Len(l) + 1 - j) + (Len(r) + 1 - k) \in Nat
  BY <1>1, <1>2
<1>6. /\ Left(l, r, p) = (Len(l) + 1 - j) + (Len(r) + 1 - k)
      /\ Left(l, r, <<j + 1, k>>) = (Len(l) + 1 - (j + 1)) + (Len(r) + 1 - k)
      /\ Left(l, r, <<j, k + 1>>) = (Len(l) + 1 - j) + (Len(r) + 1 - (k + 1))
  BY DEF Left, j, k
<1>7. /\ j \in 1 .. Len(l) + 1 /\ k \in 1 .. Len(r) + 1 /\ Left(l, r, p) \in Nat
      /\ j <= Len(l) => <<j + 1, k>> \in Heads(l, r) /\ Left(l, r, <<j + 1, k>>) = Left(l, r, p) - 1
      /\ k <= Len(r) => <<j, k + 1>> \in Heads(l, r) /\ Left(l, r, <<j, k + 1>>) = Left(l, r, p) - 1
  BY <1>1, <1>3, <1>4, <1>5, <1>6
<1> QED BY <1>7 DEF j, k

LEMMA FromIsList ==
  ASSUME NEW l \in Seq(Entry), NEW r \in Seq(Entry), NEW p \in Heads(l, r),
         NEW g \in [Heads(l, r) -> Seq(Entry)]
  PROVE  From(l, r, g, p) \in Seq(Entry)
<1> DEFINE j == p[1]  k == p[2]
<1>1. /\ j \in 1 .. Len(l) + 1 /\ k \in 1 .. Len(r) + 1
      /\ j <= Len(l) => <<j + 1, k>> \in Heads(l, r)
      /\ k <= Len(r) => <<j, k + 1>> \in Heads(l, r)
  BY HeadsMove
<1> HIDE DEF j, k
<1>2. CASE j > Len(l)
  BY <1>1, <1>2, Piece DEF From, j, k
<1>3. CASE ~ j > Len(l) /\ k > Len(r)
  <2>1. SubSeq(l, j, Len(l)) \in Seq(Entry) /\ Len(SubSeq(l, j, Len(l))) = Len(l) - j + 1
    BY <1>1, <1>3, Piece
  <2>2. SubSeq(l, j, Len(l)) # <<>>
    <3> DEFINE q == SubSeq(l, j, Len(l))
    <3>1. Len(l) - j + 1 > 0
      BY <1>1, <1>3
    <3>2. Len(q) > 0
      BY <2>1, <3>1
    <3> HIDE DEF q
    <3>3. q # <<>>
      BY <3>2
    <3> QED BY <3>3 DEF q
  <2> QED BY <1>1, <1>3, <2>1, <2>2, Spilled DEF From, j, k
<1>4. CASE ~ j > Len(l) /\ ~ k > Len(r)
  <2>1. l[j] \in Entry /\ r[k] \in Entry /\ g[<<j + 1, k>>] \in Seq(Entry) /\ g[<<j, k + 1>>] \in Seq(Entry)
    BY <1>1, <1>4
  <2>2. <<l[j]>> \o g[<<j + 1, k>>] \in Seq(Entry) /\ <<r[k]>> \o g[<<j, k + 1>>] \in Seq(Entry)
    BY <2>1, Prepended
  <2> QED BY <1>1, <1>4, <2>2 DEF From, j, k
<1> QED BY <1>2, <1>3, <1>4

LEMMA MergedBuilds ==
  ASSUME NEW l \in Seq(Entry), NEW r \in Seq(Entry)
  PROVE  \E g : g = [p \in Heads(l, r) |-> From(l, r, g, p)] /\ Merged(l, r) = g[<<1, 1>>]
<1> DEFINE H == Heads(l, r)
           Upto(g, m) == \A p \in H : Left(l, r, p) <= m => g[p] = From(l, r, g, p)
           G == {m \in Nat : \E g \in [H -> Seq(Entry)] : Upto(g, m)}
<1>1. ASSUME NEW m \in Nat, NEW f \in [H -> Seq(Entry)], \A p \in H : Left(l, r, p) < m => f[p] = From(l, r, f, p)
      PROVE  m \in G
  <2> DEFINE g == [p \in H |-> IF Left(l, r, p) = m THEN From(l, r, f, p) ELSE f[p]]
  <2>1. g \in [H -> Seq(Entry)]
    BY FromIsList
  <2>2. \A p \in H : g[p] = IF Left(l, r, p) = m THEN From(l, r, f, p) ELSE f[p]
    OBVIOUS
  <2> HIDE DEF g
  <2>3. ASSUME NEW p \in H, Left(l, r, p) <= m PROVE g[p] = From(l, r, g, p)
    <3> DEFINE j == p[1]  k == p[2]
    <3>1. /\ j \in 1 .. Len(l) + 1 /\ k \in 1 .. Len(r) + 1 /\ Left(l, r, p) \in Nat
          /\ j <= Len(l) => <<j + 1, k>> \in H /\ Left(l, r, <<j + 1, k>>) = Left(l, r, p) - 1
          /\ k <= Len(r) => <<j, k + 1>> \in H /\ Left(l, r, <<j, k + 1>>) = Left(l, r, p) - 1
      BY HeadsMove
    <3> HIDE DEF j, k, H
    <3>2. /\ j <= Len(l) => g[<<j + 1, k>>] = f[<<j + 1, k>>]
          /\ k <= Len(r) => g[<<j, k + 1>>] = f[<<j, k + 1>>]
      BY <2>2, <2>3, <3>1
    <3>3. From(l, r, g, p) = From(l, r, f, p)
      BY <3>1, <3>2 DEF From, j, k
    <3>4. g[p] = IF Left(l, r, p) = m THEN From(l, r, f, p) ELSE f[p]
      BY <2>2
    <3>5. Left(l, r, p) = m \/ Left(l, r, p) < m
      BY <2>3, <3>1
    <3>6. Left(l, r, p) < m => f[p] = From(l, r, f, p)
      BY <1>1
    <3> QED BY <3>3, <3>4, <3>5, <3>6
  <2> QED BY <2>1, <2>3
<1>2. \A p \in H : Left(l, r, p) \in Nat
  BY HeadsMove
<1>3. 0 \in G
  <2> DEFINE f == [p \in H |-> <<>>]
  <2>1. <<>> \in Seq(Entry)
    OBVIOUS
  <2>2. f \in [H -> Seq(Entry)]
    BY <2>1
  <2>3. \A p \in H : ~ Left(l, r, p) < 0
    <3> HIDE DEF H
    <3> QED BY <1>2
  <2> HIDE DEF G, H, f
  <2> QED BY <1>1, <2>2, <2>3
<1>4. ASSUME NEW m \in Nat, m \in G PROVE m + 1 \in G
  <2>1. PICK f \in [H -> Seq(Entry)] : Upto(f, m)
    BY <1>4
  <2>2. \A p \in H : Left(l, r, p) < m + 1 => Left(l, r, p) <= m
    <3> HIDE DEF H
    <3> QED BY <1>2
  <2>3. \A p \in H : Left(l, r, p) < m + 1 => f[p] = From(l, r, f, p)
    BY <2>1, <2>2
  <2> HIDE DEF G, H
  <2> QED BY <1>1, <2>3
<1>5. \A m \in Nat : m \in G
  <2> HIDE DEF G
  <2> QED BY <1>3, <1>4, SetInduction
<1>6. PICK g \in [H -> Seq(Entry)] : Upto(g, Len(l) + Len(r))
  <2>1. Len(l) + Len(r) \in Nat
    OBVIOUS
  <2> QED BY <1>5, <2>1
<1>7. \A p \in H : Left(l, r, p) <= Len(l) + Len(r)
  <2> SUFFICES ASSUME NEW p \in H PROVE Left(l, r, p) <= Len(l) + Len(r)
    OBVIOUS
  <2>1. p[1] \in 1 .. Len(l) + 1 /\ p[2] \in 1 .. Len(r) + 1
    BY HeadsMove
  <2> QED BY <2>1 DEF Left
<1>8. \A p \in H : g[p] = From(l, r, g, p)
  BY <1>6, <1>7
<1>9. g = [p \in H |-> From(l, r, g, p)]
  <2> HIDE DEF H
  <2> QED BY <1>8
<1>10. \E f : /\ f = [p \in (1 .. Len(l) + 1) \X (1 .. Len(r) + 1) |-> From(l, r, f, p)]
             /\ Merged(l, r) = f[<<1, 1>>]
  BY <1>9 DEF Merged, From, Heads
<1> QED BY <1>10 DEF Heads

\* m is written where two runs are merged from the heads p on: q, but for the scores
\* of what the left run has left over.
Merge(l, r, p, m, q) ==
  /\ q \in Seq(Entry) /\ m \in Seq(Entry) /\ Len(q) = Left(l, r, p) /\ Len(m) = Len(q)
  /\ \A k \in DOMAIN q : m[k].title = q[k].title
  /\ Build = "THREAD" => m = q
  /\ Slots(q) = {l[i] : i \in p[1] .. Len(l)} \cup {r[i] : i \in p[2] .. Len(r)}
  /\ OneEach(l) /\ OneEach(r) /\ Titles(l) \cap Titles(r) = {} => OneEach(q)
  /\ Ordered(l) /\ Ordered(r) => Ordered(q)

LEMMA MergeTakes ==
  ASSUME NEW l \in Seq(Entry), NEW r \in Seq(Entry), NEW p \in Heads(l, r), NEW p1 \in Heads(l, r),
         NEW x \in Entry, NEW m, NEW q, Merge(l, r, p1, m, q), Left(l, r, p1) = Left(l, r, p) - 1,
         {l[i] : i \in p[1] .. Len(l)} \cup {r[i] : i \in p[2] .. Len(r)} =
           {x} \cup {l[i] : i \in p1[1] .. Len(l)} \cup {r[i] : i \in p1[2] .. Len(r)},
         OneEach(l) /\ OneEach(r) /\ Titles(l) \cap Titles(r) = {} => \A y \in Slots(q) : y.title # x.title,
         Ordered(l) /\ Ordered(r) => \A y \in Slots(q) : ~ Before(y, x)
  PROVE  Merge(l, r, p, <<x>> \o m, <<x>> \o q)
<1> DEFINE mm == <<x>> \o m
           qq == <<x>> \o q
<1>1. /\ q \in Seq(Entry) /\ m \in Seq(Entry) /\ Len(q) = Left(l, r, p1) /\ Len(m) = Len(q)
      /\ \A k \in DOMAIN q : m[k].title = q[k].title
      /\ Build = "THREAD" => m = q
      /\ Slots(q) = {l[i] : i \in p1[1] .. Len(l)} \cup {r[i] : i \in p1[2] .. Len(r)}
      /\ OneEach(l) /\ OneEach(r) /\ Titles(l) \cap Titles(r) = {} => OneEach(q)
      /\ Ordered(l) /\ Ordered(r) => Ordered(q)
  BY DEF Merge
<1>2. /\ qq \in Seq(Entry) /\ Len(qq) = Len(q) + 1
      /\ qq[1] = x /\ \A k \in 1 .. Len(q) : qq[k + 1] = q[k]
      /\ Slots(qq) = {x} \cup Slots(q)
      /\ OneEach(q) /\ (\A y \in Slots(q) : y.title # x.title) => OneEach(qq)
      /\ Ordered(q) /\ (\A y \in Slots(q) : ~ Before(y, x)) => Ordered(qq)
  BY <1>1, Prepended
<1>3. /\ mm \in Seq(Entry) /\ Len(mm) = Len(m) + 1
      /\ mm[1] = x /\ \A k \in 1 .. Len(m) : mm[k + 1] = m[k]
  BY <1>1, Prepended
<1>4. Build = "THREAD" => mm = qq
  BY <1>1
<1>5. DOMAIN q = 1 .. Len(q) /\ DOMAIN qq = 1 .. Len(qq) /\ Len(q) \in Nat /\ Left(l, r, p) \in Nat
  <2>1. Left(l, r, p) \in Nat
    BY HeadsMove
  <2> HIDE DEF qq
  <2> QED BY <1>1, <1>2, <2>1
<1> HIDE DEF mm, qq
<1>6. ASSUME NEW k \in DOMAIN qq PROVE mm[k].title = qq[k].title
  <2>1. CASE k = 1
    BY <1>2, <1>3, <2>1
  <2>2. CASE k # 1
    <3> DEFINE i == k - 1
    <3>1. i \in 1 .. Len(q) /\ i + 1 = k
      BY <1>2, <1>5, <2>2
    <3> HIDE DEF i
    <3> QED BY <1>1, <1>2, <1>3, <1>5, <3>1
  <2> QED BY <2>1, <2>2
<1>7. Len(qq) = Left(l, r, p) /\ Len(mm) = Len(qq)
  BY <1>1, <1>2, <1>3, <1>5
<1>8. Slots(qq) = {l[i] : i \in p[1] .. Len(l)} \cup {r[i] : i \in p[2] .. Len(r)}
  BY <1>1, <1>2
<1>9. OneEach(l) /\ OneEach(r) /\ Titles(l) \cap Titles(r) = {} => OneEach(qq)
  BY <1>1, <1>2
<1>10. Ordered(l) /\ Ordered(r) => Ordered(qq)
  BY <1>1, <1>2
<1> QED BY <1>2, <1>3, <1>4, <1>6, <1>7, <1>8, <1>9, <1>10 DEF Merge, mm, qq

\* When one run is used up the rest of the other follows.
LEMMA MergeEnds ==
  ASSUME NEW l \in Seq(Entry), NEW r \in Seq(Entry), NEW p \in Heads(l, r), NEW g,
         p[1] > Len(l) \/ p[2] > Len(r)
  PROVE  \E q : Merge(l, r, p, From(l, r, g, p), q)
<1> DEFINE j == p[1]  k == p[2]
<1>1. j \in 1 .. Len(l) + 1 /\ k \in 1 .. Len(r) + 1 /\ Len(l) \in Nat /\ Len(r) \in Nat
  <2>1. j \in 1 .. Len(l) + 1 /\ k \in 1 .. Len(r) + 1
    BY HeadsMove
  <2> QED BY <2>1
<1>2. Left(l, r, p) = (Len(l) + 1 - j) + (Len(r) + 1 - k)
  BY DEF Left
<1>3. CASE j > Len(l)
  <2> DEFINE q == SubSeq(r, k, Len(r))
  <2>1. From(l, r, g, p) = q
    BY <1>3 DEF From
  <2> HIDE DEF j, k
  <2>2. k \in 1 .. Len(r) + 1 /\ Len(r) \in k - 1 .. Len(r)
    BY <1>1
  <2>3. q \in Seq(Entry) /\ Len(q) = Len(r) - k + 1 /\ Slots(q) = {r[i] : i \in k .. Len(r)}
    BY <2>2, Piece
  <2>4. (OneEach(r) => OneEach(q)) /\ (Ordered(r) => Ordered(q))
    BY <2>2, PieceKeepsOrder
  <2> HIDE DEF q
  <2>5. {l[i] : i \in j .. Len(l)} = {}
    BY <1>1, <1>3
  <2>6. Len(q) = Left(l, r, p)
    BY <1>1, <1>2, <1>3, <2>3
  <2>7. Slots(q) = {l[i] : i \in j .. Len(l)} \cup {r[i] : i \in k .. Len(r)}
    BY <2>3, <2>5
  <2>8. Merge(l, r, p, q, q)
    BY <2>3, <2>4, <2>6, <2>7 DEF Merge, j, k
  <2> QED BY <2>1, <2>8
<1>4. CASE ~ j > Len(l) /\ k > Len(r)
  <2> DEFINE q == SubSeq(l, j, Len(l))
  <2>1. From(l, r, g, p) = Spill(q)
    BY <1>4 DEF From
  <2> HIDE DEF j, k
  <2>2. j \in 1 .. Len(l) + 1 /\ Len(l) \in j - 1 .. Len(l)
    BY <1>1
  <2>3. q \in Seq(Entry) /\ Len(q) = Len(l) - j + 1 /\ Slots(q) = {l[i] : i \in j .. Len(l)}
    BY <2>2, Piece
  <2>4. (OneEach(l) => OneEach(q)) /\ (Ordered(l) => Ordered(q))
    BY <2>2, PieceKeepsOrder
  <2> HIDE DEF q
  <2>5. {r[i] : i \in k .. Len(r)} = {}
    BY <1>1, <1>4
  <2>6. Len(q) = Left(l, r, p) /\ Len(q) > 0
    BY <1>1, <1>2, <1>4, <2>3
  <2>7. Slots(q) = {l[i] : i \in j .. Len(l)} \cup {r[i] : i \in k .. Len(r)}
    BY <2>3, <2>5
  <2>8. q # <<>>
    BY <2>6
  <2>9. /\ Spill(q) \in Seq(Entry) /\ Len(Spill(q)) = Len(q)
        /\ \A i \in DOMAIN q : Spill(q)[i].title = q[i].title
        /\ Build = "THREAD" => Spill(q) = q
    BY <2>3, <2>8, Spilled
  <2>10. Merge(l, r, p, Spill(q), q)
    BY <2>3, <2>4, <2>6, <2>7, <2>9 DEF Merge, j, k
  <2> QED BY <2>1, <2>10
<1> QED BY <1>1, <1>3, <1>4

\* The two ways on, when neither run is used up.
LEMMA MergeLeftHead ==
  ASSUME NEW l \in Seq(Entry), NEW r \in Seq(Entry), NEW p \in Heads(l, r),
         p[1] <= Len(l), p[2] <= Len(r), Before(l[p[1]], r[p[2]]),
         NEW m, NEW q, Merge(l, r, <<p[1] + 1, p[2]>>, m, q)
  PROVE  Merge(l, r, p, <<l[p[1]]>> \o m, <<l[p[1]]>> \o q)
<1> DEFINE j == p[1]  k == p[2]  p1 == <<j + 1, k>>  x == l[j]
<1>1. /\ j \in 1 .. Len(l) + 1 /\ k \in 1 .. Len(r) + 1 /\ p1 \in Heads(l, r)
      /\ Left(l, r, p1) = Left(l, r, p) - 1
  BY HeadsMove
<1>2. p1[1] = j + 1 /\ p1[2] = k /\ Merge(l, r, p1, m, q)
  OBVIOUS
<1> HIDE DEF p1
<1>3. Len(l) \in Nat /\ Len(r) \in Nat /\ DOMAIN l = 1 .. Len(l) /\ DOMAIN r = 1 .. Len(r)
  OBVIOUS
<1> HIDE DEF j, k
<1>4. j \in 1 .. Len(l) /\ k \in 1 .. Len(r) /\ Before(x, r[k])
  BY <1>1, <1>3 DEF j, k
<1>5. /\ \A i \in j + 1 .. Len(l) : i \in 1 .. Len(l) /\ j < i
      /\ \A i \in k .. Len(r) : i \in 1 .. Len(r) /\ (i = k \/ k < i)
  BY <1>1, <1>3
<1>6. j .. Len(l) = {j} \cup (j + 1 .. Len(l))
  BY <1>3, <1>4
<1>7. x \in Entry /\ r[k] \in Entry /\ (\A i \in 1 .. Len(l) : l[i] \in Entry) /\ \A i \in 1 .. Len(r) : r[i] \in Entry
  BY <1>4
<1>8. Slots(q) = {l[i] : i \in j + 1 .. Len(l)} \cup {r[i] : i \in k .. Len(r)}
  BY <1>2 DEF Merge
<1>9. {l[i] : i \in j .. Len(l)} \cup {r[i] : i \in k .. Len(r)} =
        {x} \cup {l[i] : i \in j + 1 .. Len(l)} \cup {r[i] : i \in k .. Len(r)}
  BY <1>6
<1> HIDE DEF x
<1>10. ASSUME OneEach(l), OneEach(r), Titles(l) \cap Titles(r) = {}, NEW y \in Slots(q) PROVE y.title # x.title
  <2>1. CASE \E i \in j + 1 .. Len(l) : y = l[i]
    <3>1. PICK i \in j + 1 .. Len(l) : y = l[i]
      BY <2>1
    <3>2. i \in DOMAIN l /\ j \in DOMAIN l /\ i # j
      BY <1>3, <1>4, <1>5
    <3> QED BY <1>10, <3>1, <3>2 DEF OneEach, x
  <2>2. CASE \E i \in k .. Len(r) : y = r[i]
    <3>1. y.title \in Titles(r) /\ x.title \in Titles(l)
      BY <1>3, <1>4, <1>5, <2>2 DEF Titles, x
    <3> QED BY <1>10, <3>1
  <2> QED BY <1>8, <1>10, <2>1, <2>2
<1>11. ASSUME Ordered(l), Ordered(r), NEW y \in Slots(q) PROVE ~ Before(y, x)
  <2>1. CASE \E i \in j + 1 .. Len(l) : y = l[i]
    <3>1. PICK i \in j + 1 .. Len(l) : y = l[i]
      BY <2>1
    <3>2. i \in DOMAIN l /\ j \in DOMAIN l /\ j < i
      BY <1>3, <1>4, <1>5
    <3> QED BY <1>11, <3>1, <3>2 DEF Ordered, x
  <2>2. CASE \E i \in k .. Len(r) : y = r[i]
    <3>1. PICK i \in k .. Len(r) : y = r[i]
      BY <2>2
    <3>2. ~ Before(y, r[k])
      <4>1. i = k => ~ Before(y, r[k])
        BY <1>7, <3>1, BeforeOrders
      <4>2. k < i => ~ Before(y, r[k])
        BY <1>3, <1>4, <1>5, <1>11, <3>1 DEF Ordered
      <4> QED BY <1>5, <4>1, <4>2
    <3>3. ~ Before(r[k], x)
      BY <1>4, <1>7, BeforeOrders
    <3> QED BY <1>5, <1>7, <3>1, <3>2, <3>3, BeforeOrders
  <2> QED BY <1>8, <1>11, <2>1, <2>2
<1>12. {l[i] : i \in p[1] .. Len(l)} \cup {r[i] : i \in p[2] .. Len(r)} =
         {x} \cup {l[i] : i \in p1[1] .. Len(l)} \cup {r[i] : i \in p1[2] .. Len(r)}
  BY <1>2, <1>9 DEF j, k
<1>13. Merge(l, r, p, <<x>> \o m, <<x>> \o q)
  BY <1>1, <1>2, <1>7, <1>10, <1>11, <1>12, MergeTakes
<1> QED BY <1>13 DEF x, j

LEMMA MergeRightHead ==
  ASSUME NEW l \in Seq(Entry), NEW r \in Seq(Entry), NEW p \in Heads(l, r),
         p[1] <= Len(l), p[2] <= Len(r), ~ Before(l[p[1]], r[p[2]]),
         NEW m, NEW q, Merge(l, r, <<p[1], p[2] + 1>>, m, q)
  PROVE  Merge(l, r, p, <<r[p[2]]>> \o m, <<r[p[2]]>> \o q)
<1> DEFINE j == p[1]  k == p[2]  p1 == <<j, k + 1>>  x == r[k]
<1>1. /\ j \in 1 .. Len(l) + 1 /\ k \in 1 .. Len(r) + 1 /\ p1 \in Heads(l, r)
      /\ Left(l, r, p1) = Left(l, r, p) - 1
  BY HeadsMove
<1>2. p1[1] = j /\ p1[2] = k + 1 /\ Merge(l, r, p1, m, q)
  OBVIOUS
<1> HIDE DEF p1
<1>3. Len(l) \in Nat /\ Len(r) \in Nat /\ DOMAIN l = 1 .. Len(l) /\ DOMAIN r = 1 .. Len(r)
  OBVIOUS
<1> HIDE DEF j, k
<1>4. j \in 1 .. Len(l) /\ k \in 1 .. Len(r) /\ ~ Before(l[j], x)
  BY <1>1, <1>3 DEF j, k
<1>5. /\ \A i \in k + 1 .. Len(r) : i \in 1 .. Len(r) /\ k < i
      /\ \A i \in j .. Len(l) : i \in 1 .. Len(l) /\ (i = j \/ j < i)
  BY <1>1, <1>3
<1>6. k .. Len(r) = {k} \cup (k + 1 .. Len(r))
  BY <1>3, <1>4
<1>7. x \in Entry /\ l[j] \in Entry /\ (\A i \in 1 .. Len(l) : l[i] \in Entry) /\ \A i \in 1 .. Len(r) : r[i] \in Entry
  BY <1>4
<1>8. Slots(q) = {l[i] : i \in j .. Len(l)} \cup {r[i] : i \in k + 1 .. Len(r)}
  BY <1>2 DEF Merge
<1>9. {l[i] : i \in j .. Len(l)} \cup {r[i] : i \in k .. Len(r)} =
        {x} \cup {l[i] : i \in j .. Len(l)} \cup {r[i] : i \in k + 1 .. Len(r)}
  BY <1>6
<1> HIDE DEF x
<1>10. ASSUME OneEach(l), OneEach(r), Titles(l) \cap Titles(r) = {}, NEW y \in Slots(q) PROVE y.title # x.title
  <2>1. CASE \E i \in k + 1 .. Len(r) : y = r[i]
    <3>1. PICK i \in k + 1 .. Len(r) : y = r[i]
      BY <2>1
    <3>2. i \in DOMAIN r /\ k \in DOMAIN r /\ i # k
      BY <1>3, <1>4, <1>5
    <3> QED BY <1>10, <3>1, <3>2 DEF OneEach, x
  <2>2. CASE \E i \in j .. Len(l) : y = l[i]
    <3>1. y.title \in Titles(l) /\ x.title \in Titles(r)
      BY <1>3, <1>4, <1>5, <2>2 DEF Titles, x
    <3> QED BY <1>10, <3>1
  <2> QED BY <1>8, <1>10, <2>1, <2>2
<1>11. ASSUME Ordered(l), Ordered(r), NEW y \in Slots(q) PROVE ~ Before(y, x)
  <2>1. CASE \E i \in k + 1 .. Len(r) : y = r[i]
    <3>1. PICK i \in k + 1 .. Len(r) : y = r[i]
      BY <2>1
    <3>2. i \in DOMAIN r /\ k \in DOMAIN r /\ k < i
      BY <1>3, <1>4, <1>5
    <3> QED BY <1>11, <3>1, <3>2 DEF Ordered, x
  <2>2. CASE \E i \in j .. Len(l) : y = l[i]
    <3>1. PICK i \in j .. Len(l) : y = l[i]
      BY <2>2
    <3>2. ~ Before(y, l[j])
      <4>1. i = j => ~ Before(y, l[j])
        BY <1>7, <3>1, BeforeOrders
      <4>2. j < i => ~ Before(y, l[j])
        BY <1>3, <1>4, <1>5, <1>11, <3>1 DEF Ordered
      <4> QED BY <1>5, <4>1, <4>2
    <3> QED BY <1>4, <1>5, <1>7, <3>1, <3>2, BeforeOrders
  <2> QED BY <1>8, <1>11, <2>1, <2>2
<1>12. {l[i] : i \in p[1] .. Len(l)} \cup {r[i] : i \in p[2] .. Len(r)} =
         {x} \cup {l[i] : i \in p1[1] .. Len(l)} \cup {r[i] : i \in p1[2] .. Len(r)}
  BY <1>2, <1>9 DEF j, k
<1>13. Merge(l, r, p, <<x>> \o m, <<x>> \o q)
  BY <1>1, <1>2, <1>7, <1>10, <1>11, <1>12, MergeTakes
<1> QED BY <1>13 DEF x, k

\* Merging puts two runs in one order and loses no title; in tserver no score either.
LEMMA MergedMerges ==
  ASSUME NEW l \in Seq(Entry), NEW r \in Seq(Entry)
  PROVE  \E q : Merge(l, r, <<1, 1>>, Merged(l, r), q)
<1>1. PICK g : g = [p \in Heads(l, r) |-> From(l, r, g, p)] /\ Merged(l, r) = g[<<1, 1>>]
  BY MergedBuilds
<1>2. \A p \in Heads(l, r) : g[p] = From(l, r, g, p)
  BY <1>1
<1> DEFINE Good(p) == \E q : Merge(l, r, p, g[p], q)
           G == {n \in Nat : \A p \in Heads(l, r) : Left(l, r, p) <= n => Good(p)}
<1>3. ASSUME NEW p \in Heads(l, r),
             \A p1 \in Heads(l, r) : Left(l, r, p1) < Left(l, r, p) => Good(p1)
      PROVE  Good(p)
  <2> DEFINE j == p[1]  k == p[2]
  <2>1. CASE j > Len(l) \/ k > Len(r)
    BY <1>2, <2>1, MergeEnds
  <2>2. CASE ~ (j > Len(l) \/ k > Len(r))
    <3>1. /\ j \in 1 .. Len(l) + 1 /\ k \in 1 .. Len(r) + 1 /\ Left(l, r, p) \in Nat
          /\ j <= Len(l) => <<j + 1, k>> \in Heads(l, r) /\ Left(l, r, <<j + 1, k>>) = Left(l, r, p) - 1
          /\ k <= Len(r) => <<j, k + 1>> \in Heads(l, r) /\ Left(l, r, <<j, k + 1>>) = Left(l, r, p) - 1
      BY HeadsMove
    <3>2. Len(l) \in Nat /\ Len(r) \in Nat
      OBVIOUS
    <3> HIDE DEF j, k
    <3>3. j <= Len(l) /\ k <= Len(r)
      BY <2>2, <3>1, <3>2
    <3> HIDE DEF Good
    <3>4. Good(<<j + 1, k>>) /\ Good(<<j, k + 1>>)
      BY <1>3, <3>1, <3>3
    <3> USE DEF Good
    <3>5. CASE Before(l[j], r[k])
      <4>1. g[p] = <<l[j]>> \o g[<<j + 1, k>>]
        BY <1>2, <2>2, <3>5 DEF From, j, k
      <4>2. PICK q : Merge(l, r, <<j + 1, k>>, g[<<j + 1, k>>], q)
        BY <3>4
      <4>3. Merge(l, r, p, <<l[j]>> \o g[<<j + 1, k>>], <<l[j]>> \o q)
        BY <3>3, <3>5, <4>2, MergeLeftHead DEF j, k
      <4> QED BY <4>1, <4>3
    <3>6. CASE ~ Before(l[j], r[k])
      <4>1. g[p] = <<r[k]>> \o g[<<j, k + 1>>]
        BY <1>2, <2>2, <3>6 DEF From, j, k
      <4>2. PICK q : Merge(l, r, <<j, k + 1>>, g[<<j, k + 1>>], q)
        BY <3>4
      <4>3. Merge(l, r, p, <<r[k]>> \o g[<<j, k + 1>>], <<r[k]>> \o q)
        BY <3>3, <3>6, <4>2, MergeRightHead DEF j, k
      <4> QED BY <4>1, <4>3
    <3> QED BY <3>5, <3>6
  <2> QED BY <2>1, <2>2
<1> HIDE DEF Good
<1>4. \A p \in Heads(l, r) : Left(l, r, p) \in Nat
  BY HeadsMove
<1>5. 0 \in G
  <2> SUFFICES ASSUME NEW p \in Heads(l, r), Left(l, r, p) <= 0 PROVE Good(p)
    OBVIOUS
  <2>1. \A p1 \in Heads(l, r) : ~ Left(l, r, p1) < Left(l, r, p)
    BY <1>4
  <2> QED BY <1>3, <2>1
<1>6. ASSUME NEW n \in Nat, n \in G PROVE n + 1 \in G
  <2> SUFFICES ASSUME NEW p \in Heads(l, r), Left(l, r, p) <= n + 1 PROVE Good(p)
    OBVIOUS
  <2>1. \A p1 \in Heads(l, r) : Left(l, r, p1) < Left(l, r, p) => Left(l, r, p1) <= n
    BY <1>4
  <2>2. \A p1 \in Heads(l, r) : Left(l, r, p1) < Left(l, r, p) => Good(p1)
    BY <1>6, <2>1
  <2> QED BY <1>3, <2>2
<1>7. \A n \in Nat : n \in G
  <2> HIDE DEF G
  <2> QED BY <1>5, <1>6, SetInduction
<1>8. <<1, 1>> \in Heads(l, r)
  <2>1. Len(l) \in Nat /\ Len(r) \in Nat
    OBVIOUS
  <2> QED BY <2>1 DEF Heads
<1>9. Good(<<1, 1>>)
  BY <1>4, <1>7, <1>8
<1> QED BY <1>1, <1>9 DEF Good

\* The same, as the workers use it: what two runs are merged to has their titles.
LEMMA MergedKeepsTitles ==
  ASSUME NEW l \in Seq(Entry), NEW r \in Seq(Entry), OneEach(l), OneEach(r), Titles(l) \cap Titles(r) = {}
  PROVE  /\ Merged(l, r) \in Seq(Entry) /\ Len(Merged(l, r)) = Len(l) + Len(r)
         /\ Titles(Merged(l, r)) = Titles(l) \cup Titles(r)
         /\ OneEach(Merged(l, r))
<1> DEFINE m == Merged(l, r)
<1>1. PICK q : Merge(l, r, <<1, 1>>, m, q)
  BY MergedMerges
<1> HIDE DEF m
<1>2. /\ q \in Seq(Entry) /\ m \in Seq(Entry) /\ Len(q) = Left(l, r, <<1, 1>>) /\ Len(m) = Len(q)
      /\ \A k \in DOMAIN q : m[k].title = q[k].title
      /\ Slots(q) = {l[i] : i \in 1 .. Len(l)} \cup {r[i] : i \in 1 .. Len(r)}
      /\ OneEach(q)
  BY <1>1 DEF Merge
<1>3. /\ Len(l) \in Nat /\ DOMAIN l = 1 .. Len(l) /\ Len(r) \in Nat /\ DOMAIN r = 1 .. Len(r)
  OBVIOUS
<1>4. DOMAIN m = DOMAIN q
  BY <1>2
<1>5. Len(m) = Len(l) + Len(r)
  BY <1>2, <1>3 DEF Left
<1>6. OneEach(m)
  BY <1>2, <1>4 DEF OneEach
<1>7. Titles(m) = {e.title : e \in Slots(q)}
  <2>1. Titles(m) = Titles(q)
    BY <1>2, <1>4 DEF Titles
  <2> QED BY <2>1, TitlesOfSlots
<1>8. Titles(l) = {e.title : e \in {l[i] : i \in 1 .. Len(l)}} /\ Titles(r) = {e.title : e \in {r[i] : i \in 1 .. Len(r)}}
  BY <1>3 DEF Titles
<1>9. Titles(m) = Titles(l) \cup Titles(r)
  BY <1>2, <1>7, <1>8
<1> QED BY <1>2, <1>5, <1>6, <1>9 DEF m

-----------------------------------------------------------------------------
(* Ranges: b of them of length s, the last with the rest of len. *)

Cut(b, s, len) == b \in Nat \ {0} /\ s \in Nat /\ len \in Nat /\ b * s <= len
Upper(b, s, len, i) == IF i = b - 1 THEN len ELSE s * (i + 1)

LEMMA RangeInside ==
  ASSUME NEW b, NEW s, NEW len, Cut(b, s, len), NEW i \in 0 .. b - 1
  PROVE  /\ s * i \in Nat /\ s * i + s <= Upper(b, s, len, i)
         /\ Upper(b, s, len, i) \in Nat /\ Upper(b, s, len, i) <= len
<1>1. b \in Nat /\ b - 1 \in Nat /\ s \in Nat /\ len \in Nat /\ b * s <= len /\ i \in Nat /\ i <= b - 1
  BY DEF Cut
<1>2. s * i \in Nat /\ s * (i + 1) \in Nat /\ s * (i + 1) = s * i + s
  BY <1>1, Products
<1>3. i + 1 \in Nat /\ i + 1 <= b
  BY <1>1
<1>4. s * (i + 1) <= s * b
  BY <1>1, <1>3, Products
<1>5. s * b = b * s
  BY <1>1
<1> QED BY <1>1, <1>2, <1>4, <1>5 DEF Upper

LEMMA RangesApart ==
  ASSUME NEW b, NEW s, NEW len, Cut(b, s, len), NEW i \in 0 .. b - 1, NEW j \in 0 .. b - 1, i < j
  PROVE  Upper(b, s, len, i) <= s * j
<1>1. b \in Nat /\ s \in Nat /\ i \in Nat /\ j \in Nat /\ i + 1 \in Nat /\ i + 1 <= j /\ i # b - 1
  BY DEF Cut
<1>2. s * (i + 1) <= s * j
  BY <1>1, Products
<1> QED BY <1>1, <1>2 DEF Upper

\* Every place of the list is in a range.
LEMMA RangesCover ==
  ASSUME NEW b, NEW s, NEW len, Cut(b, s, len), NEW k \in 1 .. len
  PROVE  \E i \in 0 .. b - 1 : k \in s * i + 1 .. Upper(b, s, len, i)
<1>1. b \in Nat /\ b - 1 \in Nat /\ s \in Nat /\ len \in Nat /\ b * s <= len /\ k \in Nat
  BY DEF Cut
<1> DEFINE G == {m \in Nat : m <= b - 1 /\ k <= s * m => \E i \in 0 .. b - 1 : k \in s * i + 1 .. Upper(b, s, len, i)}
<1>2. 0 \in G
  BY <1>1
<1>3. ASSUME NEW m \in Nat, m \in G PROVE m + 1 \in G
  <2> SUFFICES ASSUME m + 1 <= b - 1, k <= s * (m + 1)
               PROVE  \E i \in 0 .. b - 1 : k \in s * i + 1 .. Upper(b, s, len, i)
    OBVIOUS
  <2>1. s * m \in Nat /\ s * (m + 1) \in Nat /\ m <= b - 1
    BY <1>1, Products
  <2>2. CASE k <= s * m
    BY <1>3, <2>1, <2>2
  <2>3. CASE ~ k <= s * m
    <3>1. m \in 0 .. b - 1 /\ m # b - 1
      BY <1>1
    <3>2. k \in s * m + 1 .. Upper(b, s, len, m)
      BY <1>1, <2>1, <2>3, <3>1 DEF Upper
    <3> QED BY <3>1, <3>2
  <2> QED BY <2>2, <2>3
<1>4. b - 1 \in G
  <2> HIDE DEF G
  <2> QED BY <1>1, <1>2, <1>3, SetInduction
<1>5. CASE k <= s * (b - 1)
  BY <1>1, <1>4, <1>5
<1>6. CASE ~ k <= s * (b - 1)
  <2>1. s * (b - 1) \in Nat /\ b - 1 \in 0 .. b - 1
    BY <1>1, Products
  <2>2. k \in s * (b - 1) + 1 .. Upper(b, s, len, b - 1)
    BY <1>1, <1>6, <2>1 DEF Upper
  <2> QED BY <2>1, <2>2
<1> QED BY <1>5, <1>6

\* Half as many ranges of twice the length: range i of the c longer ones is range
\* 2 * i of the b = 2 * c before, and then the next.
LEMMA RangesMerge ==
  ASSUME NEW c \in Nat \ {0}, NEW s, NEW len, Cut(2 * c, s, len)
  PROVE  (2 * c) \div 2 = c /\ (2 * s) \div 2 = s /\ Cut(c, 2 * s, len)
<1>1. s \in Nat /\ len \in Nat /\ (2 * c) * s <= len
  BY DEF Cut
<1>2. (2 * c) \div 2 = c /\ (2 * s) \div 2 = s
  BY <1>1
<1>3. (2 * c) * s = c * (2 * s)
  BY <1>1
<1>4. Cut(c, 2 * s, len)
  BY <1>1, <1>3 DEF Cut
<1> QED BY <1>2, <1>4

Halves(c, b, s, len, i) ==
  /\ 2 * i \in 0 .. b - 1 /\ 2 * i + 1 \in 0 .. b - 1
  /\ (2 * s) * i = s * (2 * i)
  /\ (2 * s) * i + (2 * s) \div 2 = Upper(b, s, len, 2 * i)
  /\ (2 * s) * i + (2 * s) \div 2 = s * (2 * i + 1)
  /\ Upper(c, 2 * s, len, i) = Upper(b, s, len, 2 * i + 1)

LEMMA PairsMerge ==
  ASSUME NEW c \in Nat \ {0}, NEW b, NEW s, NEW len, b = 2 * c, Cut(b, s, len), NEW i \in 0 .. c - 1
  PROVE  Halves(c, b, s, len, i)
<1>1. s \in Nat /\ i \in Nat /\ i <= c - 1
  BY DEF Cut
<1>2. (2 * s) * i = s * (2 * i) /\ s * (2 * i + 1) = s * (2 * i) + s /\ (2 * s) * (i + 1) = s * (2 * i + 2)
  BY <1>1
<1>3. Upper(b, s, len, 2 * i) = s * (2 * i + 1)
  BY <1>1 DEF Upper
<1>4. Upper(b, s, len, 2 * i + 1) = Upper(c, 2 * s, len, i)
  <2>1. 2 * i + 1 = b - 1 <=> i = c - 1
    BY <1>1
  <2>2. (2 * i + 1) + 1 = 2 * i + 2
    BY <1>1
  <2> QED BY <1>2, <2>1, <2>2 DEF Upper
<1>5. (2 * s) \div 2 = s /\ 2 * i \in 0 .. b - 1 /\ 2 * i + 1 \in 0 .. b - 1
  BY <1>1
<1> QED BY <1>2, <1>3, <1>4, <1>5 DEF Halves

\* A worker stores its range, and nothing else.
Stored(s, a, buf) == [k \in DOMAIN s |-> IF k - a \in DOMAIN buf THEN buf[k - a] ELSE s[k]]

LEMMA StoredInRange ==
  ASSUME NEW s \in Seq(Entry), NEW a \in 0 .. Len(s), NEW b \in a .. Len(s),
         NEW buf \in Seq(Entry), Len(buf) = b - a
  PROVE  /\ Stored(s, a, buf) \in Seq(Entry) /\ Len(Stored(s, a, buf)) = Len(s)
         /\ \A k \in 1 .. Len(s) : IF k \in a + 1 .. b
                                   THEN k - a \in DOMAIN buf /\ Stored(s, a, buf)[k] = buf[k - a]
                                   ELSE Stored(s, a, buf)[k] = s[k]
<1> DEFINE t == Stored(s, a, buf)
<1>1. a \in Nat /\ b \in Nat /\ DOMAIN s = 1 .. Len(s) /\ Len(s) \in Nat /\ DOMAIN buf = 1 .. b - a
  OBVIOUS
<1>2. \A k \in 1 .. Len(s) : k - a \in DOMAIN buf <=> k \in a + 1 .. b
  BY <1>1
<1>3. DOMAIN t = 1 .. Len(s) /\ \A k \in 1 .. Len(s) : t[k] = IF k - a \in DOMAIN buf THEN buf[k - a] ELSE s[k]
  BY <1>1 DEF Stored
<1>4. t = [k \in 1 .. Len(s) |-> t[k]]
  BY <1>1 DEF Stored
<1> HIDE DEF t
<1>5. \A k \in 1 .. Len(s) : t[k] \in Entry
  BY <1>1, <1>3
<1>6. t \in Seq(Entry) /\ Len(t) = Len(s)
  BY <1>1, <1>3, <1>4, <1>5
<1> QED BY <1>2, <1>3, <1>6 DEF t

LEMMA StoredKeepsTitles ==
  ASSUME NEW s \in Seq(Entry), NEW a \in 0 .. Len(s), NEW b \in a .. Len(s),
         NEW buf \in Seq(Entry), Len(buf) = b - a,
         OneEach(s), OneEach(buf), Titles(buf) = {s[k].title : k \in a + 1 .. b}
  PROVE  OneEach(Stored(s, a, buf)) /\ Titles(Stored(s, a, buf)) = Titles(s)
<1> DEFINE t == Stored(s, a, buf)
           D == 1 .. Len(s)
           I == a + 1 .. b
<1>1. /\ t \in Seq(Entry) /\ Len(t) = Len(s)
      /\ \A k \in D : IF k \in I THEN k - a \in DOMAIN buf /\ t[k] = buf[k - a] ELSE t[k] = s[k]
  BY StoredInRange
<1> HIDE DEF t
<1>2. DOMAIN t = D /\ DOMAIN s = D /\ DOMAIN buf = 1 .. b - a /\ I \subseteq D /\ a \in Nat /\ b \in Nat
  BY <1>1
<1>3. \A k \in DOMAIN buf : k + a \in I /\ (k + a) - a = k
  BY <1>2
<1>4. \A k \in D : k \in I => t[k].title \in {s[i].title : i \in I}
  <2>1. \A k \in D : k \in I => t[k].title \in Titles(buf)
    BY <1>1 DEF Titles
  <2> QED BY <2>1
<1>5. \A i \in I : \E k \in I : t[k].title = s[i].title
  <2> SUFFICES ASSUME NEW i \in I PROVE \E k \in I : t[k].title = s[i].title
    OBVIOUS
  <2>1. s[i].title \in Titles(buf)
    OBVIOUS
  <2>2. PICK m \in DOMAIN buf : s[i].title = buf[m].title
    BY <2>1 DEF Titles
  <2>3. m + a \in I /\ t[m + a] = buf[m]
    BY <1>1, <1>2, <1>3
  <2> QED BY <2>2, <2>3
<1> HIDE DEF I, D
<1>6. OneEach(t)
  <2> SUFFICES ASSUME NEW j \in D, NEW k \in D, t[j].title = t[k].title PROVE j = k
    BY <1>2 DEF OneEach
  <2>1. CASE j \in I /\ k \in I
    <3>1. j - a = k - a
      BY <1>1, <2>1 DEF OneEach
    <3>2. j \in Int /\ k \in Int
      BY DEF D
    <3> QED BY <1>2, <3>1, <3>2
  <2>2. CASE j \notin I /\ k \notin I
    BY <1>1, <1>2, <2>2 DEF OneEach
  <2>3. ASSUME NEW u \in D, NEW v \in D, u \in I, v \notin I, t[u].title = t[v].title PROVE FALSE
    <3>1. PICK i \in I : t[u].title = s[i].title
      BY <1>4, <2>3
    <3>2. i = v
      BY <1>1, <1>2, <2>3, <3>1 DEF OneEach
    <3> QED BY <2>3, <3>2
  <2> QED BY <2>1, <2>2, <2>3
<1>7. Titles(t) = Titles(s)
  <2>1. \A k \in D : t[k].title \in Titles(s)
    BY <1>1, <1>2, <1>4 DEF Titles
  <2>2. \A k \in D : s[k].title \in Titles(t)
    BY <1>1, <1>2, <1>5 DEF Titles
  <2>3. Titles(t) = {t[k].title : k \in D} /\ Titles(s) = {s[k].title : k \in D}
    BY <1>2 DEF Titles
  <2> QED BY <2>1, <2>2, <2>3
<1> QED BY <1>6, <1>7 DEF t

-----------------------------------------------------------------------------
(* The workers of a request. *)

Working(n) == stage[n] \in {"sort", "merge", "written"}
Workers(n) == IF Working(n) THEN 0 .. base[n] - 1 ELSE {}
WorkerState == [at : {"new", "computed", "done", "unborn", "reaped"}, buf : Seq(Entry)]

\* There is a worker for every range, and the ranges cut the list.  The number of
\* ranges is a power of two that a level of merging halves.
Sound(n) ==
  /\ work[n] \in [Workers(n) -> WorkerState]
  /\ Working(n) => n \in Handled
  /\ stage[n] # "cal" => Cut(base[n], size[n], Len(list[n])) /\ base[n] \in PowersOfTwo
  /\ stage[n] \in {"scored", "sort"} => base[n] = Base(Cardinality(match[n]))
  /\ stage[n] = "merge" => /\ 2 * base[n] <= Base(Cardinality(match[n]))
                           /\ size[n] = 2 * (size[n] \div 2)
Soundness ==
  /\ TypeOK
  /\ work = [n \in Request |-> work[n]]
  /\ \A n \in Request : Sound(n)

\* The list has every title once, and so has what is yet to be written to it.
Listing(n) ==
  /\ stage[n] # "cal" => OneEach(list[n]) /\ Titles(list[n]) = match[n]
  /\ \A i \in Workers(n) : work[n][i].at = "computed" =>
       /\ Len(work[n][i].buf) = End(n, i) - Start(n, i)
       /\ OneEach(work[n][i].buf)
       /\ Titles(work[n][i].buf) = {list[n][k].title : k \in Start(n, i) + 1 .. End(n, i)}
Listings == \A n \in Request : Listing(n)

\* The children main has waited for are gone, or never were.
Waits(n) ==
  \A i \in Workers(n) :
    /\ Build = "THREAD" => work[n][i].at \notin {"unborn", "reaped"}
    /\ failures = 0 => work[n][i].at # "unborn"
    /\ Build = "PROCESS" /\ i < waited[n] => work[n][i].at \in {"unborn", "reaped"}
Waiting == \A n \in Request : Waits(n)

\* The requests are sorted together.  Once there is an output file, all work is over.
Ending ==
  /\ (\E m \in Request : Working(m)) => \A n \in Handled : Working(n)
  /\ (\E m \in Request : stage[m] = "written") =>
       /\ ~ crashed
       /\ \A n \in Handled : base[n] = 1 /\ Joined(n)
  /\ \A n \in Request : stage[n] = "written" => out[n] = wr(n)

\* With its own score, title t of request n comes before u.
Better(n, t, u) ==
  Before([title |-> t, score |-> score[n][t]], [title |-> u, score |-> score[n][u]])
Ranked(n, q, D) == \A j, k \in D : j < k => ~ Better(n, q[k].title, q[j].title)
Honest(n, q) == \A k \in DOMAIN q : q[k].score = score[n][q[k].title]

\* Where the order of the output can be relied on: tserver, and pserver while its
\* forks succeed and one merge at most is to come.
Reliable(n) == Build = "THREAD" \/ (failures = 0 /\ Base(Cardinality(match[n])) <= 2)
Ranking(n, i) ==
  /\ work[n][i].at \in {"done", "reaped"} => Ranked(n, list[n], Start(n, i) + 1 .. End(n, i))
  /\ work[n][i].at = "computed" =>
       /\ Ranked(n, work[n][i].buf, DOMAIN work[n][i].buf)
       /\ Build = "THREAD" => Honest(n, work[n][i].buf)
  /\ work[n][i].at = "new" /\ stage[n] = "merge" =>
       /\ Honest(n, list[n])
       /\ Ranked(n, list[n], Start(n, i) + 1 .. Middle(n, i))
       /\ Ranked(n, list[n], Middle(n, i) + 1 .. End(n, i))
Sorting(n) ==
  /\ stage[n] \in {"scored", "sort"} => Honest(n, list[n])
  /\ stage[n] = "sort" => \A i \in Workers(n) : work[n][i].at = "computed" => Honest(n, work[n][i].buf)
  /\ Reliable(n) /\ Working(n) =>
       /\ Build = "THREAD" => Honest(n, list[n])
       /\ \A i \in Workers(n) : Ranking(n, i)
Sorted == \A n \in Request : Sorting(n)

-----------------------------------------------------------------------------
(* What the actions do to one request. *)

LEMMA Divided ==
  ASSUME NEW a \in Nat, NEW b \in Nat \ {0}
  PROVE  a \div b \in Nat /\ b * (a \div b) <= a
OBVIOUS

LEMMA InputTypes ==
  ASSUME TypeOK, NEW n \in Request
  PROVE  match[n] \subseteq Title /\ score[n] \in [match[n] -> Nat]
<1>1. match[n] \in Matches[n] /\ Matches[n] \in SUBSET SUBSET Title /\ score[n] \in [match[n] -> Scores]
  BY MoviesAssumption DEF TypeOK
<1> QED BY <1>1, MoviesAssumption

LEMMA HandledRequests == Handled \subseteq Request /\ (Build = "PROCESS" => Handled = {First})
BY MoviesAssumption DEF Handled

\* What cal makes of a request.
LEMMA CalLists ==
  ASSUME TypeOK, NEW n \in Request, Cal(n)
  PROVE  /\ list' = [list EXCEPT ![n] = list'[n]] /\ base' = [base EXCEPT ![n] = base'[n]]
         /\ size' = [size EXCEPT ![n] = size'[n]] /\ stage' = [stage EXCEPT ![n] = "scored"]
         /\ list'[n] \in Seq(Entry) /\ Len(list'[n]) = Cardinality(match[n])
         /\ OneEach(list'[n]) /\ Titles(list'[n]) = match[n] /\ Honest(n, list'[n])
         /\ base'[n] = Base(Cardinality(match[n])) /\ base'[n] \in PowersOfTwo
         /\ Cut(base'[n], size'[n], Len(list'[n]))
<1> DEFINE found == Keep(Movies, match[n])
           q == [k \in DOMAIN found |-> [title |-> found[k], score |-> score[n][found[k]]]]
<1>1. Movies \in Seq(Nat) /\ Distinct(Movies)
  BY MoviesAssumption DEF Distinct
<1>2. found \in Seq(Nat) /\ Slots(found) = match[n] /\ Distinct(found)
  <2>1. match[n] \subseteq Slots(Movies)
    BY InputTypes DEF Title
  <2> QED BY <1>1, <2>1, KeepKeeps
<1>3. /\ stage[n] = "cal"
      /\ list' = [list EXCEPT ![n] = q] /\ base' = [base EXCEPT ![n] = Base(Len(found))]
      /\ size' = [size EXCEPT ![n] = Len(found) \div base'[n]] /\ stage' = [stage EXCEPT ![n] = "scored"]
  BY DEF Cal
<1> HIDE DEF found
<1>4. Cardinality(match[n]) = Len(found)
  BY <1>2, DistinctCount DEF Distinct, Slots
<1>5. Len(found) \in Nat /\ DOMAIN found = 1 .. Len(found)
  BY <1>2
<1>6. \A k \in DOMAIN found : found[k] \in match[n] /\ found[k] \in Title /\ score[n][found[k]] \in Nat
  BY <1>2, InputTypes DEF Slots
<1>7. q \in [1 .. Len(found) -> Entry]
  BY <1>5, <1>6 DEF Entry
<1>8. \A k \in DOMAIN found : q[k].title = found[k] /\ q[k].score = score[n][found[k]]
  OBVIOUS
<1> HIDE DEF q
<1>9. q \in Seq(Entry) /\ Len(q) = Len(found) /\ DOMAIN q = DOMAIN found
  BY <1>5, <1>7
<1>10. OneEach(q) /\ Titles(q) = match[n] /\ Honest(n, q)
  BY <1>2, <1>8, <1>9 DEF OneEach, Titles, Honest, Distinct, Slots
<1>11. list'[n] = q /\ base'[n] = Base(Len(found)) /\ size'[n] = Len(found) \div base'[n]
  BY <1>3 DEF TypeOK
<1>12. base'[n] \in PowersOfTwo /\ base'[n] \in Nat \ {0}
  BY <1>5, <1>11, BaseIsPower, PowerOfTwo
<1>13. Cut(base'[n], size'[n], Len(found))
  BY <1>5, <1>11, <1>12, Divided DEF Cut
<1> QED BY <1>3, <1>4, <1>9, <1>10, <1>11, <1>12, <1>13

\* What it is to make workers: for the requests ns, and one for each range.
LEMMA Employed ==
  ASSUME TypeOK, NEW ns \in SUBSET Request, Employ(ns), base' \in [Request -> Nat]
  PROVE  /\ failures' \in 0 .. MaxForkFailures /\ failures <= failures'
         /\ waited' \in [Request -> Nat] /\ work' = [n \in Request |-> work'[n]]
         /\ \A n \in Request : n \notin ns => work'[n] = work[n] /\ waited'[n] = waited[n]
         /\ \A n \in ns :
              /\ waited'[n] = 0 /\ work'[n] \in [0 .. base'[n] - 1 -> WorkerState]
              /\ \A i \in 0 .. base'[n] - 1 :
                   /\ work'[n][i].at \in {"new", "unborn"} /\ work'[n][i].buf = <<>>
                   /\ failures' = 0 => work'[n][i].at = "new"
<1>1. PICK failed \in SUBSET (0 .. base'[First] - 1) :
        /\ Cardinality(failed) + failures <= MaxForkFailures
        /\ failures' = failures + Cardinality(failed)
        /\ work' = [n \in Request |->
             IF n \notin ns THEN work[n]
             ELSE [i \in 0 .. base'[n] - 1 |-> IF i \in failed THEN Unborn ELSE New]]
        /\ waited' = [n \in Request |-> IF n \in ns THEN 0 ELSE waited[n]]
  BY DEF Employ
<1>2. IsFiniteSet(failed)
  <2>1. base'[First] \in Nat
    BY MoviesAssumption
  <2>2. IsFiniteSet(0 .. base'[First] - 1)
    BY <2>1, FS_Interval
  <2> QED BY <2>2, FS_Subset
<1>3. Cardinality(failed) \in Nat /\ (Cardinality(failed) = 0 => failed = {})
  BY <1>2, FS_CardinalityType, FS_EmptySet
<1>4. failures \in Nat /\ MaxForkFailures \in Nat
  BY MoviesAssumption DEF TypeOK
<1>5. failures' \in 0 .. MaxForkFailures /\ failures <= failures' /\ (failures' = 0 => failed = {})
  BY <1>1, <1>3, <1>4
<1>6. waited' \in [Request -> Nat]
  BY <1>1 DEF TypeOK
<1>7. New \in WorkerState /\ Unborn \in WorkerState /\ New.at = "new" /\ Unborn.at = "unborn"
      /\ New.buf = <<>> /\ Unborn.buf = <<>>
  BY DEF New, Unborn, WorkerState
<1>8. ASSUME NEW n \in ns
      PROVE  /\ waited'[n] = 0 /\ work'[n] = [i \in 0 .. base'[n] - 1 |-> IF i \in failed THEN Unborn ELSE New]
  BY <1>1
<1>9. ASSUME NEW n \in ns
      PROVE  /\ work'[n] \in [0 .. base'[n] - 1 -> WorkerState]
             /\ \A i \in 0 .. base'[n] - 1 :
                   /\ work'[n][i].at \in {"new", "unborn"} /\ work'[n][i].buf = <<>>
                   /\ failures' = 0 => work'[n][i].at = "new"
  BY <1>5, <1>7, <1>8
<1> QED BY <1>1, <1>5, <1>6, <1>8, <1>9

-----------------------------------------------------------------------------
(* There is a worker for every range, and the ranges cut the list. *)

\* The parts of the type invariant that the actions change.
Typed ==
  /\ list \in [Request -> Seq(Entry)] /\ base \in [Request -> Nat] /\ size \in [Request -> Nat]
  /\ \A n \in Request : base[n] * size[n] <= Len(list[n])
  /\ stage \in [Request -> {"cal", "scored", "sort", "merge", "written", "dropped"}]
  /\ waited \in [Request -> Nat] /\ failures \in 0 .. MaxForkFailures
  /\ out \in [Request -> Seq(Title)] /\ crashed \in BOOLEAN
  /\ work = [n \in Request |-> work[n]]

LEMMA TypedIsEnough ==
  ASSUME Soundness, UNCHANGED input, Typed', \A n \in Request : Sound(n)'
  PROVE  Soundness'
<1>1. \A n \in Request : match'[n] \in Matches[n] /\ score'[n] \in [match'[n] -> Scores]
  BY DEF Soundness, TypeOK, input
<1>2. \A n \in Request : \A i \in DOMAIN work'[n] : work'[n][i] \in WorkerState
  <2> SUFFICES ASSUME NEW n \in Request, NEW i \in DOMAIN work'[n] PROVE work'[n][i] \in WorkerState
    OBVIOUS
  <2>1. PICK D : work'[n] \in [D -> WorkerState]
    BY DEF Sound
  <2> QED BY <2>1
<1> QED BY <1>1, <1>2 DEF Typed, Soundness, TypeOK, WorkerState

LEMMA SoundKept ==
  ASSUME NEW n \in Request, Sound(n), UNCHANGED <<input, list[n], base[n], size[n], stage[n], work[n]>>
  PROVE  Sound(n)'
BY DEF Sound, Workers, Working, Cut, input

LEMMA TypedNow ==
  ASSUME Soundness
  PROVE  Typed /\ \A n \in Request : Sound(n)
BY DEF Soundness, TypeOK, Typed

LEMMA SoundInit == Init => Soundness
<1> SUFFICES ASSUME Init PROVE Soundness
  OBVIOUS
<1>1. \A n \in Request : match[n] \in Matches[n] /\ score[n] \in [match[n] -> Scores]
  <2> SUFFICES ASSUME NEW n \in Request PROVE match[n] \in Matches[n] /\ score[n] \in [match[n] -> Scores]
    OBVIOUS
  <2>1. match[n] \in Matches[n] /\ DOMAIN score[n] = match[n]
    BY DEF Init
  <2>2. PICK M \in SUBSET Title : score[n] \in [M -> Scores]
    BY DEF Init
  <2> QED BY <2>1, <2>2
<1>2. <<>> \in Seq(Entry) /\ <<>> \in Seq(Title) /\ Len(<<>>) = 0 /\ <<>> \in [{} -> WorkerState] /\ DOMAIN <<>> = {}
  OBVIOUS
<1>3. Typed
  <2>1. \A n \in Request : base[n] * size[n] <= Len(list[n])
    <3> SUFFICES ASSUME NEW n \in Request PROVE base[n] * size[n] <= Len(list[n])
      OBVIOUS
    <3>1. base[n] = 0 /\ size[n] = 0 /\ list[n] = <<>>
      BY DEF Init
    <3> QED BY <3>1, <1>2
  <2>2. failures \in 0 .. MaxForkFailures
    BY MoviesAssumption DEF Init
  <2> QED BY <1>2, <2>1, <2>2 DEF Init, Typed
<1>4. \A n \in Request : work[n] = <<>> /\ stage[n] = "cal"
  BY DEF Init
<1>5. \A n \in Request : Sound(n)
  BY <1>2, <1>4 DEF Sound, Workers, Working
<1>6. TypeOK
  BY <1>1, <1>2, <1>3, <1>4 DEF Typed, TypeOK
<1> QED BY <1>3, <1>5, <1>6 DEF Soundness, Typed

LEMMA CalSound ==
  ASSUME Soundness, NEW n \in Request, Cal(n)
  PROVE  Soundness'
<1>1. TypeOK /\ Typed /\ \A m \in Request : Sound(m)
  BY TypedNow DEF Soundness
<1>2. /\ list' = [list EXCEPT ![n] = list'[n]] /\ base' = [base EXCEPT ![n] = base'[n]]
      /\ size' = [size EXCEPT ![n] = size'[n]] /\ stage' = [stage EXCEPT ![n] = "scored"]
      /\ list'[n] \in Seq(Entry) /\ base'[n] = Base(Cardinality(match[n])) /\ base'[n] \in PowersOfTwo
      /\ Cut(base'[n], size'[n], Len(list'[n]))
  BY <1>1, CalLists
<1>3. UNCHANGED <<input, children, out, crashed>> /\ stage[n] = "cal"
  BY DEF Cal
<1>4. base'[n] \in Nat /\ size'[n] \in Nat /\ base'[n] * size'[n] <= Len(list'[n])
  BY <1>2 DEF Cut
<1>5. \A m \in Request : m # n => UNCHANGED <<list[m], base[m], size[m], stage[m], work[m]>>
  BY <1>1, <1>2, <1>3 DEF Typed, children
<1>6. Typed'
  <2>1. list' \in [Request -> Seq(Entry)] /\ base' \in [Request -> Nat] /\ size' \in [Request -> Nat]
    BY <1>1, <1>2, <1>4 DEF Typed
  <2>2. stage' \in [Request -> {"cal", "scored", "sort", "merge", "written", "dropped"}]
    BY <1>1, <1>2 DEF Typed
  <2>3. \A m \in Request : base'[m] * size'[m] <= Len(list'[m])
    BY <1>1, <1>4, <1>5 DEF Typed
  <2> QED BY <1>1, <1>3, <2>1, <2>2, <2>3 DEF Typed, children
<1>7. \A m \in Request : m # n => Sound(m)'
  BY <1>1, <1>3, <1>5, SoundKept
<1>8. Sound(n)'
  <2>1. stage'[n] = "scored" /\ work'[n] = work[n] /\ match' = match
    BY <1>1, <1>2, <1>3 DEF Typed, children, input
  <2>2. work[n] \in [{} -> WorkerState]
    BY <1>1, <1>3 DEF Sound, Workers, Working
  <2> QED BY <1>2, <2>1, <2>2 DEF Sound, Workers, Working
<1> QED BY <1>3, <1>6, <1>7, <1>8, TypedIsEnough

LEMMA StartSortSound ==
  ASSUME Soundness, StartSort
  PROVE  Soundness'
<1>1. TypeOK /\ Typed /\ \A m \in Request : Sound(m)
  BY TypedNow DEF Soundness
<1>2. /\ \A n \in Request : stage[n] = "scored"
      /\ stage' = [n \in Request |-> IF n \in Handled THEN "sort" ELSE "dropped"]
      /\ UNCHANGED <<input, list, base, size, out, crashed>> /\ Employ(Handled)
  BY DEF StartSort
<1>3. Handled \in SUBSET Request /\ base' \in [Request -> Nat]
  BY <1>1, <1>2, HandledRequests DEF Typed
<1>4. /\ failures' \in 0 .. MaxForkFailures /\ waited' \in [Request -> Nat] /\ work' = [n \in Request |-> work'[n]]
      /\ \A n \in Request : n \notin Handled => work'[n] = work[n]
      /\ \A n \in Handled : work'[n] \in [0 .. base'[n] - 1 -> WorkerState]
  BY <1>1, <1>2, <1>3, Employed
<1>5. Typed'
  BY <1>1, <1>2, <1>4 DEF Typed
<1>6. ASSUME NEW n \in Request PROVE Sound(n)'
  <2>1. /\ work[n] \in [{} -> WorkerState] /\ base[n] = Base(Cardinality(match[n]))
        /\ Cut(base[n], size[n], Len(list[n])) /\ base[n] \in PowersOfTwo
    BY <1>1, <1>2 DEF Sound, Workers, Working
  <2>2. CASE n \in Handled
    <3>1. stage'[n] = "sort" /\ work'[n] \in [0 .. base'[n] - 1 -> WorkerState]
      BY <1>2, <1>4, <2>2
    <3> QED BY <1>2, <2>1, <2>2, <3>1 DEF Sound, Workers, Working, input
  <2>3. CASE n \notin Handled
    <3>1. stage'[n] = "dropped" /\ work'[n] = work[n]
      BY <1>2, <1>4, <2>3
    <3> QED BY <1>2, <2>1, <2>3, <3>1 DEF Sound, Workers, Working, input
  <2> QED BY <2>2, <2>3
<1> QED BY <1>2, <1>5, <1>6, TypedIsEnough

\* One worker changes.
LEMMA OneWorker ==
  ASSUME Soundness, NEW n \in Request, NEW i \in Workers(n), NEW w \in WorkerState,
         work' = [work EXCEPT ![n] = [work[n] EXCEPT ![i] = w]]
  PROVE  /\ work' = [m \in Request |-> work'[m]]
         /\ \A m \in Request : m # n => work'[m] = work[m]
         /\ work'[n] \in [Workers(n) -> WorkerState]
         /\ work'[n][i] = w /\ \A j \in Workers(n) : j # i => work'[n][j] = work[n][j]
<1>1. work = [m \in Request |-> work[m]] /\ work[n] \in [Workers(n) -> WorkerState]
  BY DEF Soundness, Sound
<1>2. work' = [m \in Request |-> IF m = n THEN [work[n] EXCEPT ![i] = w] ELSE work[m]]
  BY <1>1
<1>3. work'[n] = [work[n] EXCEPT ![i] = w]
  BY <1>2
<1> QED BY <1>1, <1>2, <1>3

\* Whoever has a worker is at work on ranges that cut the list.
LEMMA AtWork ==
  ASSUME Soundness, NEW n \in Request
  PROVE  /\ DOMAIN work[n] = Workers(n)
         /\ Working(n) => /\ Workers(n) = 0 .. base[n] - 1 /\ n \in Handled
                          /\ Cut(base[n], size[n], Len(list[n]))
                          /\ base[n] \in PowersOfTwo /\ base[n] \in Nat \ {0}
         /\ \A i \in Workers(n) : Working(n) /\ work[n][i] \in WorkerState
<1>1. Sound(n) /\ work[n] \in [Workers(n) -> WorkerState]
  BY DEF Soundness, Sound
<1>2. Working(n) => /\ Workers(n) = 0 .. base[n] - 1 /\ n \in Handled
                    /\ Cut(base[n], size[n], Len(list[n])) /\ base[n] \in PowersOfTwo
  BY <1>1 DEF Sound, Working, Workers
<1>3. Working(n) => base[n] \in Nat \ {0}
  BY <1>2 DEF Cut
<1>4. \A i \in Workers(n) : Working(n)
  BY DEF Workers
<1> QED BY <1>1, <1>2, <1>3, <1>4

LEMMA WaitSound ==
  ASSUME Soundness, NEW n \in Request, Wait(n)
  PROVE  /\ Soundness'
         /\ \A m \in Request : m # n => work'[m] = work[m] /\ waited'[m] = waited[m]
         /\ waited'[n] = waited[n] + 1
         /\ \A j \in Workers(n) :
              \/ work'[n][j] = work[n][j]
              \/ work[n][j].at = "done" /\ work'[n][j] = [at |-> "reaped", buf |-> work[n][j].buf]
         /\ waited[n] \in Workers(n) => work'[n][waited[n]].at \in {"unborn", "reaped"}
<1>1. TypeOK /\ Typed /\ \A m \in Request : Sound(m)
  BY TypedNow DEF Soundness
<1> DEFINE i == waited[n]
           asked == IF work[n][i].at = "unborn" THEN DOMAIN work[n] ELSE {i}
           some == {j \in asked : work[n][j].at \notin {"unborn", "reaped"}}
<1>2. /\ stage[n] \in {"sort", "merge"} /\ waited[n] < base[n]
      /\ \/ some = {} /\ UNCHANGED work
         \/ \E j \in some : work[n][j].at = "done" /\ work' = [work EXCEPT ![n][j].at = "reaped"]
      /\ waited' = [waited EXCEPT ![n] = @ + 1]
      /\ UNCHANGED <<input, list, base, size, stage, failures, out, crashed>>
  BY DEF Wait
<1>3. /\ Working(n) /\ DOMAIN work[n] = Workers(n) /\ Workers(n) = 0 .. base[n] - 1
      /\ \A j \in Workers(n) : work[n][j] \in WorkerState
  BY <1>2, AtWork DEF Working
<1>4. i \in Workers(n) /\ asked \subseteq Workers(n) /\ i \in asked
  <2>1. i \in Nat /\ base[n] \in Nat
    BY <1>1 DEF Typed
  <2>2. i \in Workers(n)
    BY <1>2, <1>3, <2>1
  <2> HIDE DEF i
  <2> QED BY <1>3, <2>2
<1>5. waited' \in [Request -> Nat] /\ waited'[n] = waited[n] + 1
      /\ \A m \in Request : m # n => waited'[m] = waited[m]
  BY <1>1, <1>2 DEF Typed
<1>6. /\ work' = [m \in Request |-> work'[m]]
      /\ \A m \in Request : m # n => work'[m] = work[m]
      /\ work'[n] \in [Workers(n) -> WorkerState]
      /\ \A j \in Workers(n) :
              \/ work'[n][j] = work[n][j]
              \/ work[n][j].at = "done" /\ work'[n][j] = [at |-> "reaped", buf |-> work[n][j].buf]
      /\ work'[n][i].at \in {"unborn", "reaped"}
  <2>1. CASE some = {} /\ UNCHANGED work
    <3>1. work = [m \in Request |-> work[m]] /\ work[n] \in [Workers(n) -> WorkerState]
      BY <1>1 DEF Typed, Sound
    <3>2. work[n][i].at \in {"unborn", "reaped"}
      BY <1>4, <2>1
    <3> HIDE DEF some, asked, i
    <3> QED BY <2>1, <3>1, <3>2
  <2>2. CASE \E j \in some : work[n][j].at = "done" /\ work' = [work EXCEPT ![n][j].at = "reaped"]
    <3>1. PICK j \in some : work[n][j].at = "done" /\ work' = [work EXCEPT ![n][j].at = "reaped"]
      BY <2>2
    <3> DEFINE w == [at |-> "reaped", buf |-> work[n][j].buf]
    <3>2. j \in Workers(n) /\ (j = i \/ work[n][i].at = "unborn")
      BY <1>4, <3>1
    <3>3. work[n][j] = [at |-> work[n][j].at, buf |-> work[n][j].buf] /\ w \in WorkerState
      BY <1>3, <3>2 DEF WorkerState
    <3>4. [work[n][j] EXCEPT !.at = "reaped"] = w
      BY <3>3
    <3>5. work' = [work EXCEPT ![n] = [work[n] EXCEPT ![j] = w]]
      BY <3>1, <3>4
    <3> HIDE DEF w, some, asked, i
    <3>6. /\ work' = [m \in Request |-> work'[m]]
          /\ \A m \in Request : m # n => work'[m] = work[m]
          /\ work'[n] \in [Workers(n) -> WorkerState]
          /\ work'[n][j] = w /\ \A k \in Workers(n) : k # j => work'[n][k] = work[n][k]
      BY <3>2, <3>3, <3>5, OneWorker
    <3>7. w = [at |-> "reaped", buf |-> work[n][j].buf] /\ w.at = "reaped"
      BY DEF w
    <3> QED BY <1>4, <3>1, <3>2, <3>6, <3>7
  <2> QED BY <1>2, <2>1, <2>2
<1>7. Typed'
  BY <1>1, <1>2, <1>5, <1>6 DEF Typed
<1>8. \A m \in Request : Sound(m)'
  <2> SUFFICES ASSUME NEW m \in Request PROVE Sound(m)'
    OBVIOUS
  <2>1. CASE m = n
    <3>1. Sound(n) /\ Workers(n)' = Workers(n)
      BY <1>1, <1>2 DEF Workers, Working
    <3> QED BY <1>2, <1>6, <2>1, <3>1 DEF Sound, Working, input
  <2>2. CASE m # n
    BY <1>1, <1>2, <1>6, <2>2, SoundKept
  <2> QED BY <2>1, <2>2
<1> QED BY <1>2, <1>5, <1>6, <1>7, <1>8, TypedIsEnough

LEMMA Counted ==
  ASSUME TypeOK, NEW n \in Request
  PROVE  Cardinality(match[n]) \in Nat /\ Base(Cardinality(match[n])) \in Nat
<1>1. IsFiniteSet(Title)
  <2> DEFINE D == 1 .. Len(Movies)
  <2>1. Movies \in Seq(Nat)
    BY MoviesAssumption
  <2>2. DOMAIN Movies = D /\ Len(Movies) \in Nat
    BY <2>1
  <2>3. IsFiniteSet(D)
    BY <2>2, FS_Interval
  <2>4. Title = {Movies[k] : k \in D}
    BY <2>2 DEF Title, Slots
  <2> DEFINE f == [k \in D |-> Movies[k]]
  <2>5. f \in Surjection(D, Title)
    BY <2>4 DEF Surjection
  <2> HIDE DEF f, D
  <2> QED BY <2>3, <2>5, FS_Surjection
<1>2. IsFiniteSet(match[n])
  BY <1>1, InputTypes, FS_Subset
<1>3. Cardinality(match[n]) \in Nat
  BY <1>2, FS_CardinalityType
<1> QED BY <1>3, BaseIsPower, PowerOfTwo

LEMMA NextLevelSound ==
  ASSUME Soundness, NEW n \in Request, NextLevel(n)
  PROVE  /\ Soundness'
         /\ \A m \in Request : m # n => UNCHANGED <<list[m], base[m], size[m], stage[m], work[m], waited[m]>>
         /\ stage'[n] = "merge" /\ base[n] = 2 * base'[n] /\ base'[n] \in Nat \ {0} /\ size'[n] = 2 * size[n]
         /\ \A i \in 0 .. base'[n] - 1 :
              work'[n][i].at \in {"new", "unborn"} /\ (failures' = 0 => work'[n][i].at = "new")
         /\ waited'[n] = 0 /\ failures <= failures' /\ failures' \in Nat
<1>1. TypeOK /\ Typed /\ \A m \in Request : Sound(m)
  BY TypedNow DEF Soundness
<1>2. /\ stage[n] \in {"sort", "merge"} /\ base[n] > 1
      /\ stage' = [stage EXCEPT ![n] = "merge"]
      /\ base' = [base EXCEPT ![n] = @ \div 2] /\ size' = [size EXCEPT ![n] = 2 * @]
      /\ UNCHANGED <<input, list, out, crashed>> /\ Employ({n})
  BY DEF NextLevel
<1>3. Working(n) /\ Cut(base[n], size[n], Len(list[n])) /\ base[n] \in PowersOfTwo
  BY <1>2, AtWork DEF Working
<1>4. PICK c \in PowersOfTwo : base[n] = 2 * c
  <2>1. base[n] = 1 \/ \E c \in PowersOfTwo : base[n] = 2 * c
    BY <1>3, PowerOfTwo
  <2>2. ~ 1 > 1
    OBVIOUS
  <2> QED BY <1>2, <2>1, <2>2
<1>5. c \in Nat \ {0}
  BY PowerOfTwo
<1>6. (2 * c) \div 2 = c /\ (2 * size[n]) \div 2 = size[n] /\ Cut(c, 2 * size[n], Len(list[n]))
  BY <1>3, <1>4, <1>5, RangesMerge
<1>7. base'[n] = c /\ size'[n] = 2 * size[n] /\ stage'[n] = "merge"
  BY <1>1, <1>2, <1>4, <1>6 DEF Typed
<1>8. \A m \in Request : m # n => UNCHANGED <<list[m], base[m], size[m], stage[m]>>
  BY <1>1, <1>2 DEF Typed
<1>9. base' \in [Request -> Nat] /\ size' \in [Request -> Nat]
      /\ stage' \in [Request -> {"cal", "scored", "sort", "merge", "written", "dropped"}]
  <2>1. c \in Nat /\ 2 * size[n] \in Nat
    BY <1>1, <1>5 DEF Typed
  <2>2. base[n] \div 2 = c
    BY <1>4, <1>6
  <2> QED BY <1>1, <1>2, <2>1, <2>2 DEF Typed
<1>10. /\ failures' \in 0 .. MaxForkFailures /\ failures <= failures'
       /\ waited' \in [Request -> Nat] /\ work' = [m \in Request |-> work'[m]]
       /\ \A m \in Request : m # n => work'[m] = work[m] /\ waited'[m] = waited[m]
       /\ waited'[n] = 0 /\ work'[n] \in [0 .. base'[n] - 1 -> WorkerState]
       /\ \A i \in 0 .. base'[n] - 1 :
            work'[n][i].at \in {"new", "unborn"} /\ (failures' = 0 => work'[n][i].at = "new")
  <2>1. {n} \in SUBSET Request
    OBVIOUS
  <2>2. /\ failures' \in 0 .. MaxForkFailures /\ failures <= failures'
        /\ waited' \in [Request -> Nat] /\ work' = [m \in Request |-> work'[m]]
        /\ \A m \in Request : m \notin {n} => work'[m] = work[m] /\ waited'[m] = waited[m]
        /\ \A m \in {n} :
              /\ waited'[m] = 0 /\ work'[m] \in [0 .. base'[m] - 1 -> WorkerState]
              /\ \A i \in 0 .. base'[m] - 1 :
                   /\ work'[m][i].at \in {"new", "unborn"} /\ work'[m][i].buf = <<>>
                   /\ failures' = 0 => work'[m][i].at = "new"
    BY <1>1, <1>2, <1>9, <2>1, Employed
  <2> QED BY <2>2
<1>11. \A m \in Request : base'[m] * size'[m] <= Len(list'[m])
  <2> SUFFICES ASSUME NEW m \in Request PROVE base'[m] * size'[m] <= Len(list'[m])
    OBVIOUS
  <2>1. CASE m = n
    BY <1>2, <1>6, <1>7, <2>1 DEF Cut
  <2>2. CASE m # n
    BY <1>1, <1>8, <2>2 DEF Typed
  <2> QED BY <2>1, <2>2
<1>12. Typed'
  BY <1>1, <1>2, <1>9, <1>10, <1>11 DEF Typed
<1>13. \A m \in Request : m # n => Sound(m)'
  BY <1>1, <1>2, <1>8, <1>10, SoundKept
<1>14. Sound(n)'
  <2>1. base[n] <= Base(Cardinality(match[n]))
    <3>1. base[n] \in Nat /\ Base(Cardinality(match[n])) \in Nat
      BY <1>1, Counted DEF Typed
    <3>2. stage[n] = "sort" => base[n] = Base(Cardinality(match[n]))
      BY <1>1 DEF Sound
    <3>3. stage[n] = "merge" => 2 * base[n] <= Base(Cardinality(match[n]))
      BY <1>1 DEF Sound
    <3> QED BY <1>2, <3>1, <3>2, <3>3
  <2>2. 2 * base'[n] <= Base(Cardinality(match[n])) /\ size'[n] = 2 * (size'[n] \div 2)
    BY <1>4, <1>6, <1>7, <2>1
  <2>3. n \in Handled
    BY <1>3, AtWork
  <2>4. Cut(base'[n], size'[n], Len(list'[n])) /\ base'[n] \in PowersOfTwo
    BY <1>2, <1>6, <1>7
  <2>5. Working(n)' /\ Workers(n)' = 0 .. base'[n] - 1 /\ match' = match
    BY <1>2, <1>7 DEF Working, Workers, input
  <2> QED BY <1>7, <1>10, <2>2, <2>3, <2>4, <2>5 DEF Sound
<1>15. Soundness'
  BY <1>2, <1>12, <1>13, <1>14, TypedIsEnough
<1>16. failures' \in Nat
  BY <1>10, MoviesAssumption
<1> QED BY <1>4, <1>5, <1>7, <1>8, <1>10, <1>15, <1>16

LEMMA WriteSound ==
  ASSUME Soundness, NEW n \in Request, Write(n)
  PROVE  /\ Soundness' /\ out'[n] = wr(n) /\ stage'[n] = "written"
         /\ \A m \in Request : m # n => out'[m] = out[m] /\ stage'[m] = stage[m]
<1>1. TypeOK /\ Typed /\ \A m \in Request : Sound(m)
  BY TypedNow DEF Soundness
<1>2. /\ stage[n] \in {"sort", "merge"}
      /\ out' = [out EXCEPT ![n] = wr(n)] /\ stage' = [stage EXCEPT ![n] = "written"]
      /\ UNCHANGED <<input, list, base, size, children, crashed>>
  BY DEF Write
<1>3. wr(n) \in Seq(Title)
  <2>1. list[n] \in Seq(Entry)
    BY <1>1 DEF Typed
  <2>2. \A k \in DOMAIN list[n] : list[n][k].title \in Title
    <3>1. \A e \in Entry : e.title \in Title
      BY DEF Entry
    <3> QED BY <2>1, <3>1
  <2>3. DOMAIN list[n] = 1 .. Len(list[n]) /\ Len(list[n]) \in Nat
    BY <2>1
  <2>4. wr(n) \in [1 .. Len(list[n]) -> Title]
    BY <2>2, <2>3 DEF wr
  <2> QED BY <2>3, <2>4
<1>4. out' \in [Request -> Seq(Title)] /\ out'[n] = wr(n) /\ stage'[n] = "written"
      /\ stage' \in [Request -> {"cal", "scored", "sort", "merge", "written", "dropped"}]
      /\ \A m \in Request : m # n => out'[m] = out[m] /\ stage'[m] = stage[m]
  BY <1>1, <1>2, <1>3 DEF Typed
<1>5. Typed'
  BY <1>1, <1>2, <1>4 DEF Typed, children
<1>6. \A m \in Request : m # n => Sound(m)'
  BY <1>1, <1>2, <1>4, SoundKept DEF children
<1>7. Sound(n)'
  <2>1. /\ work[n] \in [Workers(n) -> WorkerState] /\ n \in Handled
        /\ Cut(base[n], size[n], Len(list[n])) /\ base[n] \in PowersOfTwo
    BY <1>1, <1>2 DEF Sound, Working
  <2>2. Working(n) /\ Working(n)' /\ Workers(n)' = Workers(n)
    BY <1>2, <1>4 DEF Working, Workers
  <2> QED BY <1>2, <1>4, <2>1, <2>2 DEF Sound, children, input
<1> QED BY <1>2, <1>4, <1>5, <1>6, <1>7, TypedIsEnough

\* What a worker reads.
LEMMA Slices ==
  ASSUME Soundness, NEW n \in Request, NEW i \in Workers(n)
  PROVE  /\ list[n] \in Seq(Entry) /\ Len(list[n]) \in Nat
         /\ Start(n, i) \in 0 .. Len(list[n]) /\ End(n, i) \in Start(n, i) .. Len(list[n])
         /\ Start(n, i) = size[n] * i /\ End(n, i) = Upper(base[n], size[n], Len(list[n]), i)
         /\ Middle(n, i) \in Start(n, i) .. End(n, i)
<1>1. Typed /\ Sound(n) /\ Cut(base[n], size[n], Len(list[n])) /\ i \in 0 .. base[n] - 1
  BY TypedNow, AtWork
<1>2. list[n] \in Seq(Entry) /\ Len(list[n]) \in Nat /\ size[n] \in Nat
  BY <1>1 DEF Typed
<1>3. Start(n, i) = size[n] * i /\ End(n, i) = Upper(base[n], size[n], Len(list[n]), i)
  BY DEF Start, End, Upper
<1>4. /\ Start(n, i) \in Nat /\ Start(n, i) + size[n] <= End(n, i)
      /\ End(n, i) \in Nat /\ End(n, i) <= Len(list[n])
  BY <1>1, <1>3, RangeInside
<1>5. Start(n, i) \in 0 .. Len(list[n]) /\ End(n, i) \in Start(n, i) .. Len(list[n])
  BY <1>2, <1>4
<1>6. Middle(n, i) \in Start(n, i) .. End(n, i)
  <2>1. size[n] \div 2 \in Nat /\ size[n] \div 2 <= size[n]
    BY <1>2
  <2> HIDE DEF Start
  <2> QED BY <1>2, <1>4, <2>1 DEF Middle
<1> QED BY <1>2, <1>3, <1>5, <1>6

\* The ranges of two workers have no place in common.
LEMMA SlicesApart ==
  ASSUME Soundness, NEW n \in Request, NEW i \in Workers(n), NEW j \in Workers(n), i # j
  PROVE  (Start(n, i) + 1 .. End(n, i)) \cap (Start(n, j) + 1 .. End(n, j)) = {}
<1>1. Cut(base[n], size[n], Len(list[n])) /\ i \in 0 .. base[n] - 1 /\ j \in 0 .. base[n] - 1
  BY AtWork
<1>2. /\ Start(n, i) = size[n] * i /\ End(n, i) = Upper(base[n], size[n], Len(list[n]), i)
      /\ Start(n, j) = size[n] * j /\ End(n, j) = Upper(base[n], size[n], Len(list[n]), j)
      /\ Start(n, i) \in Nat /\ End(n, i) \in Nat /\ Start(n, j) \in Nat /\ End(n, j) \in Nat
  <2>1. /\ Start(n, i) = size[n] * i /\ End(n, i) = Upper(base[n], size[n], Len(list[n]), i)
        /\ Start(n, j) = size[n] * j /\ End(n, j) = Upper(base[n], size[n], Len(list[n]), j)
    BY DEF Start, End, Upper
  <2> QED BY <1>1, <2>1, RangeInside
<1>3. i < j => End(n, i) <= Start(n, j)
  BY <1>1, <1>2, RangesApart
<1>4. j < i => End(n, j) <= Start(n, i)
  BY <1>1, <1>2, RangesApart
<1>5. i < j \/ j < i
  BY <1>1
<1> QED BY <1>2, <1>3, <1>4, <1>5

\* A worker that has computed has a list to write, as long as its range.
LEMMA ComputedList ==
  ASSUME Soundness, Listings, NEW n \in Request, NEW i \in Workers(n), Compute(n, i)
  PROVE  /\ work' = [work EXCEPT ![n] = [work[n] EXCEPT ![i] = work'[n][i]]]
         /\ work'[n][i].at = "computed" /\ work'[n][i] \in WorkerState
         /\ Len(work'[n][i].buf) = End(n, i) - Start(n, i) /\ OneEach(work'[n][i].buf)
         /\ Titles(work'[n][i].buf) = {list[n][k].title : k \in Start(n, i) + 1 .. End(n, i)}
<1> DEFINE a == Start(n, i)  m == Middle(n, i)  b == End(n, i)  s == list[n]
           l == SubSeq(s, a + 1, m)
           r == SubSeq(s, m + 1, b)
           buf == IF stage[n] = "sort" THEN Sort(Slice(n, i)) ELSE Merged(l, r)
           w == [at |-> "computed", buf |-> buf]
<1>1. /\ work[n][i].at = "new" /\ (stage[n] = "sort" => Slice(n, i) # <<>>)
      /\ work' = [work EXCEPT ![n][i] = w]
  BY DEF Compute
<1>2. work = [k \in Request |-> work[k]] /\ work[n] \in [Workers(n) -> WorkerState] /\ Working(n)
  BY AtWork DEF Soundness, Sound
<1>3. work'[n][i] = w /\ work' = [work EXCEPT ![n] = [work[n] EXCEPT ![i] = work'[n][i]]]
  <2> HIDE DEF w
  <2> QED BY <1>1, <1>2
<1>4. s \in Seq(Entry) /\ a \in 0 .. Len(s) /\ b \in a .. Len(s) /\ Len(s) \in Nat /\ m \in a .. b
  BY Slices
<1>5. OneEach(s)
  BY <1>2 DEF Listings, Listing, Working
<1> HIDE DEF a, m, b, s
<1>6. /\ a + 1 \in 1 .. Len(s) + 1 /\ b \in (a + 1) - 1 .. Len(s) /\ m \in (a + 1) - 1 .. Len(s)
      /\ m + 1 \in 1 .. Len(s) + 1 /\ b \in (m + 1) - 1 .. Len(s)
  BY <1>4
<1>7. CASE stage[n] = "sort"
  <2> DEFINE q == SubSeq(s, a + 1, b)
  <2>1. q \in Seq(Entry) /\ Len(q) = b - (a + 1) + 1 /\ Titles(q) = {s[k].title : k \in a + 1 .. b} /\ OneEach(q)
    BY <1>4, <1>5, <1>6, Piece, PieceTitles, PieceKeepsOrder
  <2>2. q # <<>> /\ buf = Sort(q)
    BY <1>1, <1>7 DEF Slice, a, b, s
  <2> HIDE DEF q, buf
  <2>3. Shuffled(q, buf)
    BY <2>1, <2>2, SortSorts
  <2>4. Titles(buf) = Titles(q)
    BY <2>3, TitlesOfSlots DEF Shuffled
  <2>5. buf \in Seq(Entry) /\ Len(buf) = b - a /\ OneEach(buf)
    BY <1>4, <2>1, <2>3 DEF Shuffled
  <2>6. w \in WorkerState /\ w.at = "computed" /\ w.buf = buf
    BY <2>5 DEF WorkerState
  <2> HIDE DEF w
  <2> QED BY <1>3, <2>1, <2>4, <2>5, <2>6 DEF a, b, s
<1>8. CASE stage[n] # "sort"
  <2>1. l \in Seq(Entry) /\ Len(l) = m - (a + 1) + 1 /\ Titles(l) = {s[k].title : k \in a + 1 .. m} /\ OneEach(l)
    BY <1>4, <1>5, <1>6, Piece, PieceTitles, PieceKeepsOrder
  <2>2. r \in Seq(Entry) /\ Len(r) = b - (m + 1) + 1 /\ Titles(r) = {s[k].title : k \in m + 1 .. b} /\ OneEach(r)
    BY <1>4, <1>5, <1>6, Piece, PieceTitles, PieceKeepsOrder
  <2>3. buf = Merged(l, r)
    BY <1>8
  <2> HIDE DEF l, r, buf
  <2>4. a + 1 .. b = (a + 1 .. m) \cup (m + 1 .. b)
    BY <1>4
  <2>5. Titles(l) \cap Titles(r) = {}
    <3>1. \A j \in a + 1 .. m : \A k \in m + 1 .. b : j \in DOMAIN s /\ k \in DOMAIN s /\ j # k
      BY <1>4
    <3> QED BY <1>5, <2>1, <2>2, <3>1 DEF OneEach
  <2>6. buf \in Seq(Entry) /\ Len(buf) = Len(l) + Len(r) /\ Titles(buf) = Titles(l) \cup Titles(r) /\ OneEach(buf)
    BY <2>1, <2>2, <2>3, <2>5, MergedKeepsTitles
  <2>7. Titles(buf) = {s[k].title : k \in a + 1 .. b}
    BY <2>1, <2>2, <2>4, <2>6
  <2>8. Len(buf) = b - a
    BY <1>4, <2>1, <2>2, <2>6
  <2>9. w \in WorkerState /\ w.at = "computed" /\ w.buf = buf
    BY <2>6 DEF WorkerState
  <2> HIDE DEF w
  <2> QED BY <1>3, <2>6, <2>7, <2>8, <2>9 DEF a, b, s
<1> QED BY <1>7, <1>8

\* One worker goes on, and may write its list.
LEMMA OneSound ==
  ASSUME Soundness, NEW n \in Request, NEW i \in Workers(n), NEW w \in WorkerState,
         work' = [work EXCEPT ![n] = [work[n] EXCEPT ![i] = w]],
         list' \in [Request -> Seq(Entry)], \A m \in Request : Len(list'[m]) = Len(list[m]),
         crashed' \in BOOLEAN, UNCHANGED <<input, base, size, stage, waited, failures, out>>
  PROVE  Soundness'
<1>1. Typed /\ \A m \in Request : Sound(m)
  BY TypedNow
<1>2. /\ work' = [m \in Request |-> work'[m]]
      /\ \A m \in Request : m # n => work'[m] = work[m]
      /\ work'[n] \in [Workers(n) -> WorkerState]
  BY OneWorker
<1>3. Typed'
  BY <1>1, <1>2 DEF Typed
<1>4. \A m \in Request : Sound(m)'
  <2> SUFFICES ASSUME NEW m \in Request PROVE Sound(m)'
    OBVIOUS
  <2>1. Sound(m) /\ Workers(m)' = Workers(m) /\ Working(m)' = Working(m) /\ match' = match
    BY <1>1 DEF Workers, Working, input
  <2>2. work'[m] \in [Workers(m)' -> WorkerState]
    BY <1>2, <2>1 DEF Sound
  <2> QED BY <2>1, <2>2 DEF Sound
<1> QED BY <1>3, <1>4, TypedIsEnough

LEMMA ComputeSound ==
  ASSUME Soundness, Listings, NEW n \in Request, NEW i \in Workers(n), Compute(n, i)
  PROVE  Soundness'
<1>1. /\ work' = [work EXCEPT ![n] = [work[n] EXCEPT ![i] = work'[n][i]]]
      /\ work'[n][i] \in WorkerState
  BY ComputedList
<1>2. UNCHANGED <<input, list, base, size, stage, waited, failures, out, crashed>>
  BY DEF Compute
<1>3. list' \in [Request -> Seq(Entry)] /\ crashed' \in BOOLEAN
  BY <1>2, TypedNow DEF Typed
<1> DEFINE w == work'[n][i]
<1> HIDE DEF w
<1>4. w \in WorkerState /\ work' = [work EXCEPT ![n] = [work[n] EXCEPT ![i] = w]]
  BY <1>1 DEF w
<1> QED BY <1>2, <1>3, <1>4, OneSound

LEMMA StoredList ==
  ASSUME Soundness, Listings, NEW n \in Request, NEW i \in Workers(n), Store(n, i)
  PROVE  /\ work' = [work EXCEPT ![n] = [work[n] EXCEPT ![i] = [at |-> "done", buf |-> <<>>]]]
         /\ list' = [list EXCEPT ![n] = Stored(list[n], Start(n, i), work[n][i].buf)]
         /\ work[n][i].at = "computed" /\ work[n][i].buf \in Seq(Entry)
         /\ Len(work[n][i].buf) = End(n, i) - Start(n, i)
         /\ list'[n] \in Seq(Entry) /\ Len(list'[n]) = Len(list[n])
         /\ OneEach(list'[n]) /\ Titles(list'[n]) = Titles(list[n])
         /\ \A k \in 1 .. Len(list[n]) :
              IF k \in Start(n, i) + 1 .. End(n, i)
              THEN k - Start(n, i) \in DOMAIN work[n][i].buf /\ list'[n][k] = work[n][i].buf[k - Start(n, i)]
              ELSE list'[n][k] = list[n][k]
<1> DEFINE s == list[n]  a == Start(n, i)  b == End(n, i)  buf == work[n][i].buf
<1>1. /\ work[n][i].at = "computed" /\ list' = [list EXCEPT ![n] = Stored(s, a, buf)]
      /\ work' = [work EXCEPT ![n] = [work[n] EXCEPT ![i] = [at |-> "done", buf |-> <<>>]]]
  BY TypedNow DEF Store, Stored, Typed
<1>2. Working(n) /\ work[n][i] \in WorkerState /\ list \in [Request -> Seq(Entry)]
  BY AtWork, TypedNow DEF Typed
<1>3. buf \in Seq(Entry)
  BY <1>2 DEF WorkerState
<1>4. Len(buf) = b - a /\ OneEach(buf) /\ Titles(buf) = {s[k].title : k \in a + 1 .. b} /\ OneEach(s)
  BY <1>1, <1>2 DEF Listings, Listing, Working
<1>5. s \in Seq(Entry) /\ a \in 0 .. Len(s) /\ b \in a .. Len(s)
  BY Slices
<1>6. list'[n] = Stored(s, a, buf)
  BY <1>1, <1>2
<1> HIDE DEF s, a, b, buf
<1>7. /\ Stored(s, a, buf) \in Seq(Entry) /\ Len(Stored(s, a, buf)) = Len(s)
      /\ \A k \in 1 .. Len(s) : IF k \in a + 1 .. b
                                THEN k - a \in DOMAIN buf /\ Stored(s, a, buf)[k] = buf[k - a]
                                ELSE Stored(s, a, buf)[k] = s[k]
      /\ OneEach(Stored(s, a, buf)) /\ Titles(Stored(s, a, buf)) = Titles(s)
  <2>1. /\ Stored(s, a, buf) \in Seq(Entry) /\ Len(Stored(s, a, buf)) = Len(s)
        /\ \A k \in 1 .. Len(s) : IF k \in a + 1 .. b
                                  THEN k - a \in DOMAIN buf /\ Stored(s, a, buf)[k] = buf[k - a]
                                  ELSE Stored(s, a, buf)[k] = s[k]
    BY <1>3, <1>4, <1>5, StoredInRange
  <2>2. OneEach(Stored(s, a, buf)) /\ Titles(Stored(s, a, buf)) = Titles(s)
    BY <1>3, <1>4, <1>5, StoredKeepsTitles
  <2> QED BY <2>1, <2>2
<1> QED BY <1>1, <1>3, <1>4, <1>6, <1>7 DEF s, a, b, buf

LEMMA StoreSound ==
  ASSUME Soundness, Listings, NEW n \in Request, NEW i \in Workers(n), Store(n, i)
  PROVE  Soundness'
<1>1. /\ work' = [work EXCEPT ![n] = [work[n] EXCEPT ![i] = [at |-> "done", buf |-> <<>>]]]
      /\ list' = [list EXCEPT ![n] = Stored(list[n], Start(n, i), work[n][i].buf)]
      /\ list'[n] \in Seq(Entry) /\ Len(list'[n]) = Len(list[n])
  BY StoredList
<1>2. list \in [Request -> Seq(Entry)] /\ crashed \in BOOLEAN
  BY TypedNow DEF Typed
<1>3. UNCHANGED <<input, base, size, stage, waited, failures, out, crashed>>
  BY DEF Store
<1>4. \A m \in Request : m # n => list'[m] = list[m]
  BY <1>1, <1>2
<1>5. list' = [m \in Request |-> list'[m]]
  BY <1>1, <1>2
<1>6. list' \in [Request -> Seq(Entry)] /\ \A m \in Request : Len(list'[m]) = Len(list[m])
  BY <1>1, <1>2, <1>4, <1>5
<1>7. [at |-> "done", buf |-> <<>>] \in WorkerState
  BY DEF WorkerState
<1> QED BY <1>1, <1>2, <1>3, <1>6, <1>7, OneSound

LEMMA SortNothingSound ==
  ASSUME Soundness, NEW n \in Request, NEW i \in Workers(n), SortNothing(n, i)
  PROVE  /\ Soundness'
         /\ \A m \in Request : m # n => work'[m] = work[m]
         /\ \A j \in Workers(n) :
              \/ work'[n][j] = work[n][j]
              \/ Build = "PROCESS" /\ j = i /\ work'[n][j] = [at |-> "done", buf |-> <<>>]
<1>1. /\ work[n][i].at = "new" /\ stage[n] = "sort" /\ Slice(n, i) = <<>>
      /\ \/ Build = "THREAD" /\ crashed' = TRUE /\ UNCHANGED work
         \/ /\ Build # "THREAD" /\ UNCHANGED crashed
            /\ work' = [work EXCEPT ![n] = [work[n] EXCEPT ![i] = [at |-> "done", buf |-> <<>>]]]
      /\ UNCHANGED <<input, list, base, size, stage, waited, failures, out>>
  BY DEF SortNothing
<1>2. Typed /\ work[n] \in [Workers(n) -> WorkerState] /\ work[n][i] \in WorkerState
  BY TypedNow DEF Sound
<1>3. Build # "THREAD" => Build = "PROCESS"
  BY MoviesAssumption
<1>4. CASE Build = "THREAD" /\ crashed' = TRUE /\ UNCHANGED work
  <2>1. Typed'
    BY <1>1, <1>2, <1>4 DEF Typed
  <2>2. \A m \in Request : Sound(m)'
    BY <1>1, <1>4, TypedNow, SoundKept
  <2> QED BY <1>1, <1>4, <2>1, <2>2, TypedIsEnough
<1>5. CASE /\ Build # "THREAD" /\ UNCHANGED crashed
           /\ work' = [work EXCEPT ![n] = [work[n] EXCEPT ![i] = [at |-> "done", buf |-> <<>>]]]
  <2> DEFINE w == [at |-> "done", buf |-> <<>>]
  <2>1. w \in WorkerState
    BY DEF WorkerState
  <2>2. list' \in [Request -> Seq(Entry)] /\ crashed' \in BOOLEAN /\ \A m \in Request : Len(list'[m]) = Len(list[m])
    BY <1>1, <1>2, <1>5 DEF Typed
  <2>3. work' = [work EXCEPT ![n] = [work[n] EXCEPT ![i] = w]]
    BY <1>5
  <2> HIDE DEF w
  <2>4. Soundness'
    BY <1>1, <2>1, <2>2, <2>3, OneSound
  <2>5. /\ \A m \in Request : m # n => work'[m] = work[m]
        /\ work'[n][i] = w /\ \A j \in Workers(n) : j # i => work'[n][j] = work[n][j]
    BY <2>1, <2>3, OneWorker
  <2> QED BY <1>3, <1>5, <2>4, <2>5 DEF w
<1> QED BY <1>1, <1>4, <1>5

\* One step of the program, whoever takes it.
LEMMA Steps1 ==
  ASSUME Soundness, Next
  PROVE  /\ ~ crashed
         /\ \/ StartSort
            \/ \E n \in Request : Cal(n) \/ Wait(n) \/ NextLevel(n) \/ Write(n)
            \/ \E n \in Request : \E i \in Workers(n) : Compute(n, i) \/ Store(n, i) \/ SortNothing(n, i)
BY AtWork DEF Next, Running, Worker

LEMMA Stutter ==
  ASSUME UNCHANGED vars
  PROVE  UNCHANGED <<match, score, list, base, size, stage, work, waited, failures, out, crashed>>
BY DEF vars, input, children

LEMMA NextSound == Soundness /\ Listings /\ [Next]_vars => Soundness'
<1> SUFFICES ASSUME Soundness, Listings, [Next]_vars PROVE Soundness'
  OBVIOUS
<1>1. CASE Next
  BY <1>1, Steps1, StartSortSound, CalSound, WaitSound, NextLevelSound, WriteSound, ComputeSound, StoreSound,
     SortNothingSound
<1>2. CASE UNCHANGED vars
  <2>1. Typed' /\ \A n \in Request : Sound(n)'
    BY <1>2, Stutter, TypedNow DEF Typed, Sound, Working, Workers, Cut
  <2> QED BY <1>2, <2>1, Stutter, TypedIsEnough DEF input
<1> QED BY <1>1, <1>2

-----------------------------------------------------------------------------
(* No movie is lost. *)

LEMMA ListingStays ==
  ASSUME NEW n \in Request, Listing(n), UNCHANGED <<input, list[n]>>, stage'[n] # "cal" => stage[n] # "cal",
         \A i \in Workers(n)' : work'[n][i].at = "computed" =>
           /\ i \in Workers(n) /\ work'[n][i] = work[n][i]
           /\ Start(n, i)' = Start(n, i) /\ End(n, i)' = End(n, i)
  PROVE  Listing(n)'
<1>1. stage'[n] # "cal" => OneEach(list'[n]) /\ Titles(list'[n]) = match'[n]
  BY DEF Listing, input
<1>2. ASSUME NEW i \in Workers(n)', work'[n][i].at = "computed"
      PROVE  /\ Len(work'[n][i].buf) = End(n, i)' - Start(n, i)' /\ OneEach(work'[n][i].buf)
             /\ Titles(work'[n][i].buf) = {list'[n][k].title : k \in Start(n, i)' + 1 .. End(n, i)'}
  <2>1. i \in Workers(n) /\ work'[n][i] = work[n][i] /\ Start(n, i)' = Start(n, i) /\ End(n, i)' = End(n, i)
    BY <1>2
  <2>2. /\ Len(work[n][i].buf) = End(n, i) - Start(n, i) /\ OneEach(work[n][i].buf)
        /\ Titles(work[n][i].buf) = {list[n][k].title : k \in Start(n, i) + 1 .. End(n, i)}
    BY <1>2, <2>1 DEF Listing
  <2>3. {list'[n][k].title : k \in Start(n, i)' + 1 .. End(n, i)'} = {list[n][k].title : k \in Start(n, i) + 1 .. End(n, i)}
    BY <2>1
  <2> QED BY <2>1, <2>2, <2>3
<1> QED BY <1>1, <1>2 DEF Listing, OneEach, Titles

LEMMA ListingKept ==
  ASSUME NEW n \in Request, Listing(n), UNCHANGED <<input, list[n], base[n], size[n], stage[n], work[n]>>
  PROVE  Listing(n)'
<1>1. Workers(n)' = Workers(n) /\ \A i \in Workers(n) : Start(n, i)' = Start(n, i) /\ End(n, i)' = End(n, i)
  BY DEF Workers, Working, Start, End
<1> QED BY <1>1, ListingStays

LEMMA ListingInit == Init => Listings
BY DEF Init, Listings, Listing, Workers, Working

LEMMA StoreListing ==
  ASSUME Soundness, Listings, NEW n \in Request, NEW i \in Workers(n), Store(n, i)
  PROVE  Listings'
<1>1. /\ work' = [work EXCEPT ![n] = [work[n] EXCEPT ![i] = [at |-> "done", buf |-> <<>>]]]
      /\ list' = [list EXCEPT ![n] = Stored(list[n], Start(n, i), work[n][i].buf)]
      /\ Len(list'[n]) = Len(list[n]) /\ OneEach(list'[n]) /\ Titles(list'[n]) = Titles(list[n])
      /\ \A k \in 1 .. Len(list[n]) : k \notin Start(n, i) + 1 .. End(n, i) => list'[n][k] = list[n][k]
  BY StoredList
<1>2. UNCHANGED <<input, base, size, stage, waited, failures, out, crashed>>
  BY DEF Store
<1>3. [at |-> "done", buf |-> <<>>] \in WorkerState
  BY DEF WorkerState
<1> DEFINE w == [at |-> "done", buf |-> <<>>]
<1>4. w.at = "done"
  OBVIOUS
<1> HIDE DEF w
<1>5. /\ \A m \in Request : m # n => work'[m] = work[m]
      /\ work'[n][i] = w /\ \A j \in Workers(n) : j # i => work'[n][j] = work[n][j]
  BY <1>1, <1>3, OneWorker DEF w
<1>6. \A m \in Request : m # n => list'[m] = list[m]
  BY <1>1, TypedNow DEF Typed
<1>7. ASSUME NEW m \in Request, m # n PROVE Listing(m)'
  BY <1>2, <1>5, <1>6, <1>7, ListingKept DEF Listings
<1>8. Listing(n)'
  <2>1. Listing(n) /\ Workers(n)' = Workers(n)
    BY <1>2 DEF Listings, Workers, Working
  <2>2. stage'[n] # "cal" => OneEach(list'[n]) /\ Titles(list'[n]) = match'[n]
    BY <1>1, <1>2, <2>1 DEF Listing, input
  <2>3. \A j \in Workers(n) : Start(n, j)' = Start(n, j) /\ End(n, j)' = End(n, j)
    BY <1>1, <1>2 DEF Start, End
  <2>4. ASSUME NEW j \in Workers(n), work'[n][j].at = "computed"
        PROVE  /\ Len(work'[n][j].buf) = End(n, j) - Start(n, j)
               /\ OneEach(work'[n][j].buf)
               /\ Titles(work'[n][j].buf) = {list'[n][k].title : k \in Start(n, j) + 1 .. End(n, j)}
    <3>1. j # i /\ work'[n][j] = work[n][j]
      BY <1>4, <1>5, <2>4
    <3>2. /\ Len(work[n][j].buf) = End(n, j) - Start(n, j) /\ OneEach(work[n][j].buf)
          /\ Titles(work[n][j].buf) = {list[n][k].title : k \in Start(n, j) + 1 .. End(n, j)}
      BY <2>1, <2>4, <3>1 DEF Listing
    <3>3. \A k \in Start(n, j) + 1 .. End(n, j) : k \in 1 .. Len(list[n]) /\ k \notin Start(n, i) + 1 .. End(n, i)
      <4>1. Start(n, j) \in 0 .. Len(list[n]) /\ End(n, j) \in Start(n, j) .. Len(list[n]) /\ Len(list[n]) \in Nat
        BY Slices
      <4>2. (Start(n, i) + 1 .. End(n, i)) \cap (Start(n, j) + 1 .. End(n, j)) = {}
        BY <3>1, SlicesApart
      <4> QED BY <4>1, <4>2
    <3>4. \A k \in Start(n, j) + 1 .. End(n, j) : list'[n][k] = list[n][k]
      BY <1>1, <3>3
    <3> QED BY <3>1, <3>2, <3>4
  <2>5. Listing(n)' <=>
          /\ stage'[n] # "cal" => OneEach(list'[n]) /\ Titles(list'[n]) = match'[n]
          /\ \A j \in Workers(n)' : work'[n][j].at = "computed" =>
               /\ Len(work'[n][j].buf) = End(n, j)' - Start(n, j)'
               /\ OneEach(work'[n][j].buf)
               /\ Titles(work'[n][j].buf) = {list'[n][k].title : k \in Start(n, j)' + 1 .. End(n, j)'}
    BY DEF Listing, OneEach, Titles
  <2> QED BY <2>1, <2>2, <2>3, <2>4, <2>5
<1> QED BY <1>7, <1>8 DEF Listings

LEMMA ComputeListing ==
  ASSUME Soundness, Listings, NEW n \in Request, NEW i \in Workers(n), Compute(n, i)
  PROVE  Listings'
<1> DEFINE w == work'[n][i]
<1>1. /\ work' = [work EXCEPT ![n] = [work[n] EXCEPT ![i] = w]] /\ w \in WorkerState
      /\ Len(w.buf) = End(n, i) - Start(n, i) /\ OneEach(w.buf)
      /\ Titles(w.buf) = {list[n][k].title : k \in Start(n, i) + 1 .. End(n, i)}
  BY ComputedList
<1>2. UNCHANGED <<input, list, base, size, stage, waited, failures, out, crashed>>
  BY DEF Compute
<1> HIDE DEF w
<1>3. /\ \A m \in Request : m # n => work'[m] = work[m]
      /\ work'[n][i] = w /\ \A j \in Workers(n) : j # i => work'[n][j] = work[n][j]
  BY <1>1, OneWorker
<1>4. ASSUME NEW m \in Request, m # n PROVE Listing(m)'
  BY <1>2, <1>3, <1>4, ListingKept DEF Listings
<1>5. Listing(n)'
  <2>1. /\ Listing(n) /\ Workers(n)' = Workers(n) /\ match' = match
        /\ \A j \in Workers(n) : Start(n, j)' = Start(n, j) /\ End(n, j)' = End(n, j)
    BY <1>2 DEF Listings, Workers, Working, Start, End, input
  <2>2. stage'[n] # "cal" => OneEach(list'[n]) /\ Titles(list'[n]) = match'[n]
    BY <1>2, <2>1 DEF Listing
  <2>3. ASSUME NEW j \in Workers(n), work'[n][j].at = "computed"
        PROVE  /\ Len(work'[n][j].buf) = End(n, j) - Start(n, j)
               /\ OneEach(work'[n][j].buf)
               /\ Titles(work'[n][j].buf) = {list[n][k].title : k \in Start(n, j) + 1 .. End(n, j)}
    <3>1. CASE j = i
      BY <1>1, <1>3, <3>1
    <3>2. CASE j # i
      BY <1>3, <2>1, <2>3, <3>2 DEF Listing
    <3> QED BY <3>1, <3>2
  <2>4. ASSUME NEW j \in Workers(n)', work'[n][j].at = "computed"
        PROVE  /\ Len(work'[n][j].buf) = End(n, j)' - Start(n, j)'
               /\ OneEach(work'[n][j].buf)
               /\ Titles(work'[n][j].buf) = {list'[n][k].title : k \in Start(n, j)' + 1 .. End(n, j)'}
    <3>1. {list'[n][k].title : k \in Start(n, j)' + 1 .. End(n, j)'} = {list[n][k].title : k \in Start(n, j) + 1 .. End(n, j)}
      BY <1>2, <2>1
    <3> QED BY <2>1, <2>3, <2>4, <3>1
  <2> QED BY <2>2, <2>4 DEF Listing, OneEach, Titles
<1> QED BY <1>4, <1>5 DEF Listings

LEMMA NextListing == Soundness /\ Listings /\ [Next]_vars => Listings'
<1> SUFFICES ASSUME Soundness, Listings, [Next]_vars PROVE Listings'
  OBVIOUS
<1>1. ASSUME NEW n \in Request, Cal(n) PROVE Listings'
  <2>1. /\ list' = [list EXCEPT ![n] = list'[n]] /\ base' = [base EXCEPT ![n] = base'[n]]
        /\ size' = [size EXCEPT ![n] = size'[n]] /\ stage' = [stage EXCEPT ![n] = "scored"]
        /\ OneEach(list'[n]) /\ Titles(list'[n]) = match[n]
    BY <1>1, CalLists DEF Soundness
  <2>2. UNCHANGED <<input, work>>
    BY <1>1 DEF Cal, children
  <2>3. \A m \in Request : m # n => UNCHANGED <<list[m], base[m], size[m], stage[m], work[m]>>
    BY <2>1, <2>2, TypedNow DEF Typed
  <2>4. \A m \in Request : m # n => Listing(m)'
    BY <2>2, <2>3, ListingKept DEF Listings
  <2>5. stage'[n] = "scored"
    BY <2>1, TypedNow DEF Typed
  <2>6. Workers(n)' = {} /\ match' = match
    BY <2>2, <2>5 DEF Workers, Working, input
  <2>7. Listing(n)'
    BY <2>1, <2>6 DEF Listing, OneEach, Titles
  <2> QED BY <2>4, <2>7 DEF Listings
<1>2. CASE StartSort
  <2>1. /\ \A n \in Request : stage[n] = "scored"
        /\ stage' = [n \in Request |-> IF n \in Handled THEN "sort" ELSE "dropped"]
        /\ UNCHANGED <<input, list, base, size, out, crashed>> /\ Employ(Handled)
    BY <1>2 DEF StartSort
  <2>2. TypeOK /\ Handled \in SUBSET Request /\ base' \in [Request -> Nat]
    BY <2>1, HandledRequests, TypedNow DEF Soundness, Typed
  <2>3. \A n \in Handled : \A i \in 0 .. base'[n] - 1 : work'[n][i].at \in {"new", "unborn"}
    BY <2>1, <2>2, Employed
  <2>4. ASSUME NEW n \in Request PROVE \A i \in Workers(n)' : work'[n][i].at # "computed"
    BY <2>1, <2>3 DEF Workers, Working
  <2>5. \A n \in Request : Listing(n)'
    BY <2>1, <2>4, ListingStays DEF Listings
  <2> QED BY <2>5 DEF Listings
<1>3. ASSUME NEW n \in Request, Wait(n) PROVE Listings'
  <2>1. /\ \A m \in Request : m # n => work'[m] = work[m]
        /\ \A j \in Workers(n) :
              \/ work'[n][j] = work[n][j]
              \/ work'[n][j] = [at |-> "reaped", buf |-> work[n][j].buf]
    BY <1>3, WaitSound
  <2>2. UNCHANGED <<input, list, base, size, stage, failures, out, crashed>>
    BY <1>3 DEF Wait
  <2>3. \A m \in Request : m # n => Listing(m)'
    BY <2>1, <2>2, ListingKept DEF Listings
  <2>4. Workers(n)' = Workers(n) /\ \A i \in Workers(n) : Start(n, i)' = Start(n, i) /\ End(n, i)' = End(n, i)
    BY <2>2 DEF Workers, Working, Start, End
  <2>5. \A i \in Workers(n)' : work'[n][i].at = "computed" =>
          i \in Workers(n) /\ work'[n][i] = work[n][i] /\ Start(n, i)' = Start(n, i) /\ End(n, i)' = End(n, i)
    <3>1. \A b : [at |-> "reaped", buf |-> b].at # "computed"
      OBVIOUS
    <3> QED BY <2>1, <2>4, <3>1
  <2>6. Listing(n) /\ stage'[n] = stage[n] /\ UNCHANGED <<input, list[n]>>
    BY <2>2 DEF Listings
  <2>7. Listing(n)'
    BY <2>5, <2>6, ListingStays
  <2> QED BY <2>3, <2>7 DEF Listings
<1>4. ASSUME NEW n \in Request, NextLevel(n) PROVE Listings'
  <2>1. /\ Soundness'
        /\ \A m \in Request : m # n => UNCHANGED <<list[m], base[m], size[m], stage[m], work[m], waited[m]>>
        /\ stage'[n] = "merge" /\ \A i \in 0 .. base'[n] - 1 : work'[n][i].at \in {"new", "unborn"}
    BY <1>4, NextLevelSound
  <2>2. UNCHANGED <<input, list>> /\ stage[n] # "cal"
    BY <1>4 DEF NextLevel
  <2>3. \A m \in Request : m # n => Listing(m)'
    BY <2>1, <2>2, ListingKept DEF Listings
  <2>4. \A i \in Workers(n)' : work'[n][i].at # "computed"
    BY <2>1 DEF Workers, Working
  <2>5. Listing(n)'
    BY <2>2, <2>4, ListingStays DEF Listings
  <2> QED BY <2>3, <2>5 DEF Listings
<1>5. ASSUME NEW n \in Request, Write(n) PROVE Listings'
  <2>1. stage'[n] = "written" /\ \A m \in Request : m # n => stage'[m] = stage[m]
    BY <1>5, WriteSound
  <2>2. UNCHANGED <<input, list, base, size, work>> /\ stage[n] \in {"sort", "merge"}
    BY <1>5 DEF Write, children
  <2>3. \A m \in Request : m # n => Listing(m)'
    BY <2>1, <2>2, ListingKept DEF Listings
  <2>4. Workers(n)' = Workers(n) /\ \A i \in Workers(n) : Start(n, i)' = Start(n, i) /\ End(n, i)' = End(n, i)
    BY <2>1, <2>2 DEF Workers, Working, Start, End
  <2>5. Listing(n)'
    BY <2>2, <2>4, ListingStays DEF Listings
  <2> QED BY <2>3, <2>5 DEF Listings
<1>6. ASSUME NEW n \in Request, NEW i \in Workers(n), SortNothing(n, i) PROVE Listings'
  <2>1. /\ \A m \in Request : m # n => work'[m] = work[m]
        /\ \A j \in Workers(n) : work'[n][j] = work[n][j] \/ work'[n][j] = [at |-> "done", buf |-> <<>>]
    BY <1>6, SortNothingSound
  <2>2. UNCHANGED <<input, list, base, size, stage>>
    BY <1>6 DEF SortNothing
  <2>3. \A m \in Request : m # n => Listing(m)'
    BY <2>1, <2>2, ListingKept DEF Listings
  <2>4. Workers(n)' = Workers(n) /\ \A j \in Workers(n) : Start(n, j)' = Start(n, j) /\ End(n, j)' = End(n, j)
    BY <2>2 DEF Workers, Working, Start, End
  <2>5. \A j \in Workers(n)' : work'[n][j].at = "computed" =>
          j \in Workers(n) /\ work'[n][j] = work[n][j] /\ Start(n, j)' = Start(n, j) /\ End(n, j)' = End(n, j)
    <3>1. [at |-> "done", buf |-> <<>>].at # "computed"
      OBVIOUS
    <3> QED BY <2>1, <2>4, <3>1
  <2>6. Listing(n) /\ stage'[n] = stage[n] /\ UNCHANGED <<input, list[n]>>
    BY <2>2 DEF Listings
  <2>7. Listing(n)'
    BY <2>5, <2>6, ListingStays
  <2> QED BY <2>3, <2>7 DEF Listings
<1>7. CASE UNCHANGED vars
  <2>1. \A n \in Request : Listing(n)'
    BY <1>7, Stutter, ListingKept DEF Listings, input
  <2> QED BY <2>1 DEF Listings
<1> QED BY <1>1, <1>2, <1>3, <1>4, <1>5, <1>6, <1>7, Steps1, ComputeListing, StoreListing

\* A worker's step is its own.
LEMMA WorkerMoves ==
  ASSUME Soundness, Listings, NEW n \in Request, NEW i \in Workers(n),
         Compute(n, i) \/ Store(n, i) \/ SortNothing(n, i)
  PROVE  /\ \A m \in Request : m # n => work'[m] = work[m]
         /\ \A j \in Workers(n) : j # i => work'[n][j] = work[n][j]
         /\ work[n][i].at \in {"new", "computed"}
         /\ work'[n][i].at = work[n][i].at \/ work'[n][i].at \in {"computed", "done"}
<1>1. CASE Compute(n, i)
  <2> DEFINE w == work'[n][i]
  <2>1. work' = [work EXCEPT ![n] = [work[n] EXCEPT ![i] = w]] /\ w.at = "computed" /\ w \in WorkerState
    BY <1>1, ComputedList
  <2>2. work[n][i].at = "new"
    BY <1>1 DEF Compute
  <2> HIDE DEF w
  <2>3. /\ \A m \in Request : m # n => work'[m] = work[m]
        /\ \A j \in Workers(n) : j # i => work'[n][j] = work[n][j]
    BY <2>1, OneWorker
  <2> QED BY <2>1, <2>2, <2>3 DEF w
<1>2. CASE Store(n, i)
  <2> DEFINE w == [at |-> "done", buf |-> <<>>]
  <2>1. w \in WorkerState /\ w.at = "done"
    BY DEF WorkerState
  <2>2. work' = [work EXCEPT ![n] = [work[n] EXCEPT ![i] = w]] /\ work[n][i].at = "computed"
    BY <1>2, StoredList
  <2> HIDE DEF w
  <2>3. /\ \A m \in Request : m # n => work'[m] = work[m]
        /\ work'[n][i] = w /\ \A j \in Workers(n) : j # i => work'[n][j] = work[n][j]
    BY <2>1, <2>2, OneWorker
  <2> QED BY <2>1, <2>2, <2>3
<1>3. CASE SortNothing(n, i)
  <2>1. /\ \A m \in Request : m # n => work'[m] = work[m]
        /\ \A j \in Workers(n) : work'[n][j] = work[n][j] \/ (j = i /\ work'[n][j] = [at |-> "done", buf |-> <<>>])
    BY <1>3, SortNothingSound
  <2>2. work[n][i].at = "new" /\ [at |-> "done", buf |-> <<>>].at = "done"
    BY <1>3 DEF SortNothing
  <2> QED BY <2>1, <2>2
<1> QED BY <1>1, <1>2, <1>3

-----------------------------------------------------------------------------
(* main never overtakes its workers. *)

LEMMA WaitsStay ==
  ASSUME NEW n \in Request, Waits(n), failures' = 0 => failures = 0, waited'[n] = waited[n],
         \A i \in Workers(n)' :
           /\ i \in Workers(n)
           /\ \/ work'[n][i].at = work[n][i].at
              \/ work[n][i].at \in {"new", "computed"} /\ work'[n][i].at \in {"computed", "done"}
  PROVE  Waits(n)'
BY DEF Waits

LEMMA WaitsNew ==
  ASSUME NEW n \in Request, failures' \in 0 .. MaxForkFailures, waited'[n] = 0,
         \A i \in Workers(n)' :
           i \in Nat /\ work'[n][i].at \in {"new", "unborn"} /\ (failures' = 0 => work'[n][i].at = "new")
  PROVE  Waits(n)'
<1>1. Build = "THREAD" => failures' = 0
  BY MoviesAssumption
<1>2. \A i \in Workers(n)' : ~ i < waited'[n]
  OBVIOUS
<1> QED BY <1>1, <1>2 DEF Waits

LEMMA WaitingInit == Init => Waiting
BY DEF Init, Waiting, Waits, Workers, Working

LEMMA NextWaiting == Soundness /\ Listings /\ Waiting /\ [Next]_vars => Waiting'
<1> SUFFICES ASSUME Soundness, Listings, Waiting, [Next]_vars PROVE Waiting'
  OBVIOUS
<1>0. TypeOK /\ Typed /\ \A n \in Request : Waits(n)
  BY TypedNow DEF Soundness, Waiting
<1>1. ASSUME NEW n \in Request, Cal(n) PROVE Waiting'
  <2>1. stage' = [stage EXCEPT ![n] = "scored"] /\ base' = [base EXCEPT ![n] = base'[n]]
    BY <1>0, <1>1, CalLists
  <2>2. UNCHANGED children
    BY <1>1 DEF Cal
  <2>3. \A m \in Request : m # n => Workers(m)' = Workers(m)
    BY <1>0, <2>1 DEF Workers, Working, Typed
  <2>4. Workers(n)' = {}
    BY <1>0, <2>1 DEF Workers, Working, Typed
  <2>5. \A m \in Request : Waits(m)'
    BY <1>0, <2>2, <2>3, <2>4 DEF Waits, children
  <2> QED BY <2>5 DEF Waiting
<1>2. CASE StartSort
  <2>1. /\ \A n \in Request : stage[n] = "scored"
        /\ stage' = [n \in Request |-> IF n \in Handled THEN "sort" ELSE "dropped"]
        /\ UNCHANGED <<input, list, base, size, out, crashed>> /\ Employ(Handled)
    BY <1>2 DEF StartSort
  <2>2. Handled \in SUBSET Request /\ base' \in [Request -> Nat]
    BY <1>0, <2>1, HandledRequests DEF Typed
  <2>3. /\ failures' \in 0 .. MaxForkFailures
        /\ \A n \in Handled :
             /\ waited'[n] = 0
             /\ \A i \in 0 .. base'[n] - 1 :
                  work'[n][i].at \in {"new", "unborn"} /\ (failures' = 0 => work'[n][i].at = "new")
    BY <1>0, <2>1, <2>2, Employed
  <2>4. ASSUME NEW n \in Request PROVE Waits(n)'
    <3>1. CASE n \in Handled
      <4>1. Workers(n)' = 0 .. base'[n] - 1 /\ \A i \in 0 .. base'[n] - 1 : i \in Nat
        BY <2>1, <2>2, <3>1 DEF Workers, Working
      <4> QED BY <2>3, <3>1, <4>1, WaitsNew
    <3>2. CASE n \notin Handled
      <4>1. Workers(n)' = {}
        BY <2>1, <3>2 DEF Workers, Working
      <4> QED BY <4>1 DEF Waits
    <3> QED BY <3>1, <3>2
  <2> QED BY <2>4 DEF Waiting
<1>3. ASSUME NEW n \in Request, Wait(n) PROVE Waiting'
  <2>1. /\ \A m \in Request : m # n => work'[m] = work[m] /\ waited'[m] = waited[m]
        /\ waited'[n] = waited[n] + 1
        /\ \A j \in Workers(n) :
              \/ work'[n][j] = work[n][j]
              \/ work[n][j].at = "done" /\ work'[n][j] = [at |-> "reaped", buf |-> work[n][j].buf]
        /\ waited[n] \in Workers(n) => work'[n][waited[n]].at \in {"unborn", "reaped"}
    BY <1>3, WaitSound
  <2>2. Build = "PROCESS" /\ UNCHANGED <<input, list, base, size, stage, failures, out, crashed>>
    BY <1>3 DEF Wait
  <2>3. \A m \in Request : Workers(m)' = Workers(m)
    BY <2>2 DEF Workers, Working
  <2>4. \A m \in Request : m # n => Waits(m)'
    BY <1>0, <2>1, <2>2, <2>3, WaitsStay
  <2>6. ASSUME NEW i \in Workers(n)
        PROVE  work'[n][i].at = work[n][i].at \/ work'[n][i].at = "reaped"
    <3> DEFINE w == [at |-> "reaped", buf |-> work[n][i].buf]
    <3>1. work'[n][i] = work[n][i] \/ work'[n][i] = w
      BY <2>1
    <3>2. w.at = "reaped"
      OBVIOUS
    <3> HIDE DEF w
    <3> QED BY <3>1, <3>2
  <2>7. \A i \in Workers(n) : i < waited'[n] => i < waited[n] \/ i = waited[n]
    <3>1. \A i \in Workers(n) : i \in Int
      BY DEF Workers
    <3>2. waited[n] \in Int
      BY <1>0 DEF Typed
    <3> QED BY <2>1, <3>1, <3>2
  <2>8. Waits(n)'
    BY <1>0, <2>1, <2>2, <2>3, <2>6, <2>7 DEF Waits
  <2> QED BY <2>4, <2>8 DEF Waiting
<1>4. ASSUME NEW n \in Request, NextLevel(n) PROVE Waiting'
  <2>1. /\ Soundness'
        /\ \A m \in Request : m # n => UNCHANGED <<list[m], base[m], size[m], stage[m], work[m], waited[m]>>
        /\ stage'[n] = "merge" /\ base'[n] \in Nat \ {0}
        /\ \A i \in 0 .. base'[n] - 1 :
              work'[n][i].at \in {"new", "unborn"} /\ (failures' = 0 => work'[n][i].at = "new")
        /\ waited'[n] = 0 /\ failures <= failures' /\ failures' \in Nat
    BY <1>4, NextLevelSound
  <2>2. failures' \in 0 .. MaxForkFailures
    BY <2>1 DEF Soundness, TypeOK
  <2>3. failures' = 0 => failures = 0
    <3>1. failures \in Nat
      BY <1>0, MoviesAssumption DEF Typed
    <3> QED BY <2>1, <3>1
  <2>4. \A m \in Request : m # n => Workers(m)' = Workers(m)
    BY <2>1 DEF Workers, Working
  <2>5. \A m \in Request : m # n => Waits(m)'
    BY <1>0, <2>1, <2>3, <2>4, WaitsStay
  <2>6. Workers(n)' = 0 .. base'[n] - 1 /\ \A i \in 0 .. base'[n] - 1 : i \in Nat
    BY <2>1 DEF Workers, Working
  <2>7. Waits(n)'
    BY <2>1, <2>2, <2>6, WaitsNew
  <2> QED BY <2>5, <2>7 DEF Waiting
<1>5. ASSUME NEW n \in Request, Write(n) PROVE Waiting'
  <2>1. stage'[n] = "written" /\ \A m \in Request : m # n => stage'[m] = stage[m]
    BY <1>5, WriteSound
  <2>2. UNCHANGED <<base, children>> /\ stage[n] \in {"sort", "merge"}
    BY <1>5 DEF Write
  <2>3. \A m \in Request : Workers(m)' = Workers(m)
    BY <2>1, <2>2 DEF Workers, Working
  <2>4. \A m \in Request : Waits(m)'
    BY <1>0, <2>2, <2>3 DEF Waits, children
  <2> QED BY <2>4 DEF Waiting
<1>6. ASSUME NEW n \in Request, NEW i \in Workers(n), Compute(n, i) \/ Store(n, i) \/ SortNothing(n, i)
      PROVE  Waiting'
  <2>1. /\ \A m \in Request : m # n => work'[m] = work[m]
        /\ \A j \in Workers(n) : j # i => work'[n][j] = work[n][j]
        /\ \/ work'[n][i].at = work[n][i].at
           \/ work[n][i].at \in {"new", "computed"} /\ work'[n][i].at \in {"computed", "done"}
    BY <1>6, WorkerMoves
  <2>2. UNCHANGED <<input, base, stage, waited, failures>>
    BY <1>6 DEF Compute, Store, SortNothing
  <2>3. \A m \in Request : Workers(m)' = Workers(m)
    BY <2>2 DEF Workers, Working
  <2>4. \A m \in Request : Waits(m)'
    BY <1>0, <2>1, <2>2, <2>3, WaitsStay
  <2> QED BY <2>4 DEF Waiting
<1>7. CASE UNCHANGED vars
  <2>1. \A n \in Request : Waits(n)'
    BY <1>0, <1>7, Stutter DEF Waits, Workers, Working
  <2> QED BY <2>1 DEF Waiting
<1> QED BY <1>1, <1>2, <1>3, <1>4, <1>5, <1>6, <1>7, Steps1

\* Who is joined has no worker left at work.
LEMMA JoinedIsDone ==
  ASSUME Soundness, Waiting, NEW n \in Request, stage[n] \in {"sort", "merge", "written"}, Joined(n)
  PROVE  /\ \A i \in Workers(n) : work[n][i].at \in {"done", "reaped", "unborn"}
         /\ \A i \in Workers(n) : failures = 0 \/ Build = "THREAD" => work[n][i].at # "unborn"
<1>1. /\ DOMAIN work[n] = Workers(n) /\ Workers(n) = 0 .. base[n] - 1 /\ Waits(n)
      /\ base[n] \in Nat /\ \A i \in Workers(n) : work[n][i] \in WorkerState
  BY AtWork DEF Waiting, Working
<1>2. CASE Build = "THREAD"
  BY <1>1, <1>2 DEF Joined, Waits
<1>3. CASE Build = "PROCESS"
  <2>1. waited[n] = base[n]
    BY <1>3 DEF Joined
  <2>2. \A i \in Workers(n) : i < waited[n]
    BY <1>1, <2>1
  <2> QED BY <1>1, <1>3, <2>2 DEF Waits
<1> QED BY <1>2, <1>3, MoviesAssumption

\* A worker at work keeps everybody from writing.
LEMMA BusyWaits ==
  ASSUME Soundness, Waiting, Ending, NEW n \in Request, NEW i \in Workers(n),
         work[n][i].at \in {"new", "computed"}
  PROVE  stage[n] \in {"sort", "merge"} /\ \A m \in Request : stage[m] # "written"
<1>1. Working(n) /\ n \in Handled
  BY AtWork
<1>2. ~ Joined(n)
  BY <1>1, JoinedIsDone DEF Working
<1>3. \A m \in Request : stage[m] # "written"
  BY <1>1, <1>2 DEF Ending
<1> QED BY <1>1, <1>3 DEF Working

LEMMA EndingStays ==
  ASSUME Ending, \A m \in Request : Working(m)' = Working(m) /\ stage'[m] # "written"
  PROVE  Ending'
<1>1. (\E m \in Request : Working(m)') => \A n \in Handled : Working(n)'
  BY HandledRequests DEF Ending
<1>2. \A m \in Request : stage'[m] # "written"
  OBVIOUS
<1> QED BY <1>1, <1>2 DEF Ending, Handled

LEMMA EndingInit == Init => Ending
<1> SUFFICES ASSUME Init PROVE Ending
  OBVIOUS
<1>1. \A m \in Request : stage[m] = "cal"
  BY DEF Init
<1> QED BY <1>1 DEF Ending, Working

LEMMA NextEnding == Soundness /\ Listings /\ Waiting /\ Ending /\ [Next]_vars => Ending'
<1> SUFFICES ASSUME Soundness, Listings, Waiting, Ending, [Next]_vars PROVE Ending'
  OBVIOUS
<1>0. TypeOK /\ Typed /\ Handled \subseteq Request
  BY TypedNow, HandledRequests DEF Soundness
<1>1. ASSUME NEW n \in Request, Cal(n) PROVE Ending'
  <2>1. /\ stage[n] = "cal" /\ stage' = [stage EXCEPT ![n] = "scored"] /\ base' = [base EXCEPT ![n] = base'[n]]
        /\ list' = [list EXCEPT ![n] = list'[n]] /\ UNCHANGED <<children, out, crashed>>
    BY <1>0, <1>1, CalLists DEF Cal
  <2>2. /\ \A m \in Request : m # n => UNCHANGED <<stage[m], base[m], list[m]>>
        /\ stage'[n] = "scored"
    BY <1>0, <2>1 DEF Typed
  <2>3. \A m \in Request : Working(m)' = Working(m) /\ (stage'[m] = "written" <=> stage[m] = "written")
    BY <2>1, <2>2 DEF Working
  <2>4. (\E m \in Request : Working(m)') => \A m \in Handled : Working(m)'
    BY <1>0, <2>3 DEF Ending
  <2>5. (\E m \in Request : stage'[m] = "written") => ~ crashed' /\ \A m \in Handled : base'[m] = 1 /\ Joined(m)'
    <3> SUFFICES ASSUME \E m \in Request : stage[m] = "written"
                 PROVE  ~ crashed' /\ \A m \in Handled : base'[m] = 1 /\ Joined(m)'
      BY <2>3
    <3>1. ~ crashed /\ \A m \in Handled : Working(m) /\ base[m] = 1 /\ Joined(m)
      BY DEF Ending, Working
    <3>2. \A m \in Handled : m # n
      BY <2>1, <3>1 DEF Working
    <3> QED BY <1>0, <2>1, <2>2, <3>1, <3>2 DEF Joined, children
  <2>6. ASSUME NEW m \in Request, stage'[m] = "written" PROVE out'[m] = wr(m)'
    <3>1. m # n /\ stage[m] = "written" /\ list'[m] = list[m] /\ out' = out
      BY <2>1, <2>2, <2>6
    <3>2. wr(m)' = wr(m)
      BY <3>1 DEF wr
    <3> QED BY <3>1, <3>2 DEF Ending
  <2> QED BY <2>4, <2>5, <2>6 DEF Ending, Handled
<1>2. CASE StartSort
  <2>1. stage' = [n \in Request |-> IF n \in Handled THEN "sort" ELSE "dropped"]
    BY <1>2 DEF StartSort
  <2>2. (\A m \in Request : stage'[m] # "written") /\ \A m \in Handled : Working(m)'
    BY <1>0, <2>1 DEF Working
  <2> QED BY <2>2 DEF Ending, Handled
<1>3. ASSUME NEW n \in Request, Wait(n) PROVE Ending'
  <2>1. Build = "PROCESS" /\ stage[n] \in {"sort", "merge"} /\ waited[n] < base[n] /\ UNCHANGED stage
    BY <1>3 DEF Wait
  <2>2. ~ Joined(n) /\ n \in Handled
    <3>1. ~ waited[n] = base[n]
      BY <1>0, <2>1 DEF Typed
    <3> QED BY <2>1, <3>1, AtWork DEF Joined, Working
  <2>3. \A m \in Request : stage[m] # "written"
    BY <2>2 DEF Ending
  <2> QED BY <2>1, <2>3, EndingStays DEF Working
<1>4. ASSUME NEW n \in Request, NextLevel(n) PROVE Ending'
  <2>1. stage[n] \in {"sort", "merge"} /\ base[n] > 1 /\ stage' = [stage EXCEPT ![n] = "merge"]
    BY <1>4 DEF NextLevel
  <2>2. base[n] # 1 /\ n \in Handled
    BY <2>1, AtWork DEF Working
  <2>3. \A m \in Request : stage[m] # "written"
    BY <2>2 DEF Ending
  <2>4. \A m \in Request : Working(m)' = Working(m) /\ stage'[m] # "written"
    BY <1>0, <2>1, <2>3 DEF Working, Typed
  <2> QED BY <2>4, EndingStays
<1>5. ASSUME NEW n \in Request, Write(n) PROVE Ending'
  <2>1. /\ out'[n] = wr(n) /\ stage'[n] = "written"
        /\ \A m \in Request : m # n => out'[m] = out[m] /\ stage'[m] = stage[m]
    BY <1>5, WriteSound
  <2>2. /\ stage[n] \in {"sort", "merge"} /\ UNCHANGED <<list, base, children, crashed>>
        /\ \A m \in Handled : stage[m] = "written" \/ (base[m] = 1 /\ Joined(m))
    BY <1>5 DEF Write
  <2>3. \A m \in Request : Working(m)' = Working(m)
    BY <2>1, <2>2 DEF Working
  <2>4. \A m \in Handled : Working(m)'
    BY <1>0, <2>2, <2>3 DEF Ending, Working
  <2>5. ~ crashed
    BY [Next]_vars, <1>5, <2>1, <2>2 DEF Next, vars
  <2>6. \A m \in Handled : base[m] = 1 /\ Joined(m)
    BY <1>0, <2>2 DEF Ending
  <2>7. \A m \in Handled : base'[m] = 1 /\ Joined(m)'
    BY <2>2, <2>6 DEF Joined, children
  <2>8. \A m \in Request : stage'[m] = "written" => out'[m] = wr(m)'
    <3>1. \A m \in Request : wr(m)' = wr(m)
      BY <2>2 DEF wr
    <3>2. \A m \in Request : stage[m] = "written" => out[m] = wr(m)
      BY DEF Ending
    <3> QED BY <2>1, <3>1, <3>2
  <2> QED BY <2>2, <2>4, <2>5, <2>7, <2>8 DEF Ending, Handled
<1>6. ASSUME NEW n \in Request, NEW i \in Workers(n), Compute(n, i) \/ Store(n, i) \/ SortNothing(n, i)
      PROVE  Ending'
  <2>1. work[n][i].at \in {"new", "computed"} /\ UNCHANGED stage
    BY <1>6, WorkerMoves DEF Compute, Store, SortNothing
  <2>2. \A m \in Request : stage[m] # "written"
    BY <2>1, BusyWaits
  <2> QED BY <2>1, <2>2, EndingStays DEF Working
<1>7. CASE UNCHANGED vars
  BY <1>7, Stutter DEF Ending, Handled, Working, Joined, wr
<1> QED BY <1>1, <1>2, <1>3, <1>4, <1>5, <1>6, <1>7, Steps1

-----------------------------------------------------------------------------
(* What a request is answered with. *)

LEMMA PartitionNow == Soundness => RangesPartition
<1> SUFFICES ASSUME Soundness, NEW n \in Request, stage[n] \in {"sort", "merge"}, NEW k \in DOMAIN list[n]
             PROVE  Cardinality({i \in DOMAIN work[n] : k \in Start(n, i) + 1 .. End(n, i)}) = 1
  BY DEF RangesPartition
<1>1. /\ Cut(base[n], size[n], Len(list[n])) /\ Workers(n) = 0 .. base[n] - 1 /\ DOMAIN work[n] = Workers(n)
  BY AtWork DEF Working
<1>2. k \in 1 .. Len(list[n])
  BY TypedNow DEF Typed
<1>3. PICK i \in 0 .. base[n] - 1 : k \in size[n] * i + 1 .. Upper(base[n], size[n], Len(list[n]), i)
  BY <1>1, <1>2, RangesCover
<1>4. i \in Workers(n) /\ k \in Start(n, i) + 1 .. End(n, i)
  BY <1>1, <1>3 DEF Start, End, Upper
<1>5. ASSUME NEW j \in Workers(n), k \in Start(n, j) + 1 .. End(n, j) PROVE j = i
  BY <1>4, <1>5, SlicesApart
<1>6. {j \in DOMAIN work[n] : k \in Start(n, j) + 1 .. End(n, j)} = {i}
  BY <1>1, <1>4, <1>5
<1> QED BY <1>6, FS_Singleton

LEMMA NoneAtWorkNow == Soundness /\ Waiting => NoneAtWork
<1> SUFFICES ASSUME Soundness, Waiting, NEW n \in Request, stage[n] \in {"sort", "merge"}, Joined(n),
                    NEW i \in DOMAIN work[n]
             PROVE  work[n][i].at \notin {"new", "computed"}
  BY DEF NoneAtWork
<1>1. i \in Workers(n)
  BY AtWork
<1> QED BY <1>1, JoinedIsDone

LEMMA AllOrNoneNow == Ending => AllOrNone
BY DEF Ending, AllOrNone

LEMMA ListedNow ==
  ASSUME Soundness, Listings, Ending, NEW n \in Request, stage[n] = "written"
  PROVE  Listed(n)
<1> DEFINE q == list[n]
<1>1. /\ out[n] = wr(n) /\ OneEach(q) /\ Titles(q) = match[n] /\ q \in Seq(Entry)
      /\ out[n] \in Seq(Title)
  BY TypedNow DEF Ending, Listings, Listing, Typed
<1>2. DOMAIN q = 1 .. Len(q) /\ Len(q) \in Nat
  BY <1>1
<1>3. DOMAIN out[n] = DOMAIN q /\ \A k \in DOMAIN q : out[n][k] = q[k].title
  BY <1>1 DEF wr
<1> HIDE DEF q
<1>4. {out[n][k] : k \in DOMAIN out[n]} = match[n]
  BY <1>1, <1>3 DEF Titles
<1>5. \A j, k \in DOMAIN out[n] : out[n][j] = out[n][k] => j = k
  BY <1>1, <1>3 DEF OneEach
<1>6. Cardinality({out[n][k] : k \in DOMAIN out[n]}) = Len(out[n])
  BY <1>1, <1>5, DistinctCount
<1> QED BY <1>4, <1>6 DEF Listed

-----------------------------------------------------------------------------
(* The lists come out in order. *)

\* Of entries that have their own scores, the order is that of their titles.
LEMMA HonestOrder ==
  ASSUME NEW n \in Request, NEW q, Honest(n, q)
  PROVE  Ordered(q) <=> Ranked(n, q, DOMAIN q)
<1>1. \A j, k \in DOMAIN q : Before(q[k], q[j]) <=> Better(n, q[k].title, q[j].title)
  BY DEF Honest, Better, Before
<1> QED BY <1>1 DEF Ordered, Ranked

LEMMA HonestSlots ==
  ASSUME NEW n \in Request, NEW q
  PROVE  Honest(n, q) <=> \A e \in Slots(q) : e.score = score[n][e.title]
BY DEF Honest, Slots

LEMMA RankedAlike ==
  ASSUME NEW n \in Request, NEW q, NEW r, NEW D, \A k \in D : r[k].title = q[k].title
  PROVE  Ranked(n, q, D) <=> Ranked(n, r, D)
BY DEF Ranked

LEMMA PieceRanks ==
  ASSUME NEW n \in Request, NEW s \in Seq(Entry), NEW a \in 1 .. Len(s) + 1, NEW b \in a - 1 .. Len(s)
  PROVE  /\ Ranked(n, s, a .. b) => Ranked(n, SubSeq(s, a, b), DOMAIN SubSeq(s, a, b))
         /\ Honest(n, s) => Honest(n, SubSeq(s, a, b))
<1> DEFINE q == SubSeq(s, a, b)
<1>1. DOMAIN q = 1 .. b - a + 1 /\ \A i \in 1 .. b - a + 1 : q[i] = s[a + i - 1]
  BY Piece
<1> HIDE DEF q
<1>2. a \in Int /\ b \in Int /\ DOMAIN s = 1 .. Len(s) /\ Len(s) \in Nat
  OBVIOUS
<1>3. \A i \in 1 .. b - a + 1 : a + i - 1 \in a .. b /\ a + i - 1 \in DOMAIN s
  BY <1>2
<1>4. \A i, j \in 1 .. b - a + 1 : i < j => a + i - 1 < a + j - 1
  BY <1>2
<1>5. ASSUME Ranked(n, s, a .. b) PROVE Ranked(n, q, DOMAIN q)
  BY <1>1, <1>3, <1>4, <1>5 DEF Ranked
<1>6. ASSUME Honest(n, s) PROVE Honest(n, q)
  BY <1>1, <1>3, <1>6 DEF Honest
<1> QED BY <1>5, <1>6 DEF q

\* Sorting makes a list that is honest and in order.
LEMMA SortRanks ==
  ASSUME NEW n \in Request, NEW q \in Seq(Entry), q # <<>>, Honest(n, q)
  PROVE  Honest(n, Sort(q)) /\ Ranked(n, Sort(q), DOMAIN Sort(q))
<1>1. Slots(Sort(q)) = Slots(q) /\ Ordered(Sort(q))
  BY SortSorts DEF Shuffled
<1>2. Honest(n, Sort(q))
  BY <1>1, HonestSlots
<1> QED BY <1>1, <1>2, HonestOrder

\* So does merging, but for the scores that pserver mixes up.
LEMMA MergeRanks ==
  ASSUME NEW n \in Request, NEW l \in Seq(Entry), NEW r \in Seq(Entry), Honest(n, l), Honest(n, r),
         Ranked(n, l, DOMAIN l), Ranked(n, r, DOMAIN r)
  PROVE  /\ Ranked(n, Merged(l, r), DOMAIN Merged(l, r))
         /\ Build = "THREAD" => Honest(n, Merged(l, r))
<1> DEFINE m == Merged(l, r)
<1>1. Ordered(l) /\ Ordered(r)
  BY HonestOrder
<1>2. PICK q : Merge(l, r, <<1, 1>>, m, q)
  BY MergedMerges
<1> HIDE DEF m
<1>3. <<1, 1>>[1] = 1 /\ <<1, 1>>[2] = 1
  OBVIOUS
<1>4. /\ q \in Seq(Entry) /\ m \in Seq(Entry) /\ Len(m) = Len(q)
      /\ \A k \in DOMAIN q : m[k].title = q[k].title
      /\ Build = "THREAD" => m = q
      /\ Slots(q) = {l[i] : i \in 1 .. Len(l)} \cup {r[i] : i \in 1 .. Len(r)}
      /\ Ordered(q)
  BY <1>1, <1>2, <1>3 DEF Merge
<1>5. DOMAIN m = DOMAIN q /\ DOMAIN l = 1 .. Len(l) /\ DOMAIN r = 1 .. Len(r)
  BY <1>4
<1>6. Slots(q) = Slots(l) \cup Slots(r)
  BY <1>4, <1>5 DEF Slots
<1>7. Honest(n, q)
  BY <1>6, HonestSlots
<1>8. Ranked(n, q, DOMAIN q)
  BY <1>4, <1>7, HonestOrder
<1>9. Ranked(n, m, DOMAIN q)
  BY <1>4, <1>8, RankedAlike
<1> QED BY <1>4, <1>5, <1>7, <1>9 DEF m

\* The same of the next state, its scores being those of this one.
RankingNext(n, i) ==
  /\ work'[n][i].at \in {"done", "reaped"} => Ranked(n, list'[n], Start(n, i)' + 1 .. End(n, i)')
  /\ work'[n][i].at = "computed" =>
       /\ Ranked(n, work'[n][i].buf, DOMAIN work'[n][i].buf)
       /\ Build = "THREAD" => Honest(n, work'[n][i].buf)
  /\ work'[n][i].at = "new" /\ stage'[n] = "merge" =>
       /\ Honest(n, list'[n])
       /\ Ranked(n, list'[n], Start(n, i)' + 1 .. Middle(n, i)')
       /\ Ranked(n, list'[n], Middle(n, i)' + 1 .. End(n, i)')
SortingNext(n) ==
  /\ stage'[n] \in {"scored", "sort"} => Honest(n, list'[n])
  /\ stage'[n] = "sort" => \A i \in Workers(n)' : work'[n][i].at = "computed" => Honest(n, work'[n][i].buf)
  /\ Reliable(n)' /\ Working(n)' =>
       /\ Build = "THREAD" => Honest(n, list'[n])
       /\ \A i \in Workers(n)' : RankingNext(n, i)

LEMMA RankedPrimed ==
  ASSUME NEW n \in Request, UNCHANGED input
  PROVE  /\ Honest(n, list'[n]) => Honest(n, list[n])'
         /\ \A i : Honest(n, work'[n][i].buf) => Honest(n, work[n][i].buf)'
         /\ \A i : Ranked(n, work'[n][i].buf, DOMAIN work'[n][i].buf) => Ranked(n, work[n][i].buf, DOMAIN work[n][i].buf)'
         /\ \A i : Ranked(n, list'[n], Start(n, i)' + 1 .. End(n, i)') => Ranked(n, list[n], Start(n, i) + 1 .. End(n, i))'
         /\ \A i : Ranked(n, list'[n], Start(n, i)' + 1 .. Middle(n, i)') =>
                     Ranked(n, list[n], Start(n, i) + 1 .. Middle(n, i))'
         /\ \A i : Ranked(n, list'[n], Middle(n, i)' + 1 .. End(n, i)') =>
                     Ranked(n, list[n], Middle(n, i) + 1 .. End(n, i))'
BY DEF input, Honest, Ranked, Better

LEMMA SortingPrimed ==
  ASSUME NEW n \in Request, UNCHANGED input, SortingNext(n)
  PROVE  Sorting(n)'
<1>1. ASSUME NEW i, RankingNext(n, i) PROVE Ranking(n, i)'
  BY <1>1, RankedPrimed DEF RankingNext, Ranking
<1> QED BY <1>1, RankedPrimed DEF SortingNext, Sorting

\* Requests whose list and ranges stay as they are.
LEMMA SortingStays ==
  ASSUME NEW n \in Request, Sorting(n), UNCHANGED <<input, list[n], base[n], size[n]>>,
         failures' = 0 => failures = 0,
         stage'[n] \in {"scored", "sort", "merge"} => stage'[n] = stage[n], Working(n)' => Working(n),
         \A i \in Workers(n)' :
           /\ i \in Workers(n)
           /\ \/ work'[n][i] = work[n][i]
              \/ work[n][i].at = "done" /\ work'[n][i].at = "reaped"
  PROVE  Sorting(n)'
<1>1. \A i : Start(n, i)' = Start(n, i) /\ End(n, i)' = End(n, i) /\ Middle(n, i)' = Middle(n, i)
  BY DEF Start, End, Middle
<1>2. Reliable(n)' => Reliable(n)
  BY DEF Reliable, input
<1>3. ASSUME NEW i \in Workers(n)', Ranking(n, i) PROVE RankingNext(n, i)
  <2>1. CASE work'[n][i] = work[n][i]
    BY <1>1, <1>3, <2>1 DEF Ranking, RankingNext
  <2>2. CASE work[n][i].at = "done" /\ work'[n][i].at = "reaped"
    BY <1>1, <1>3, <2>2 DEF Ranking, RankingNext
  <2> QED BY <1>3, <2>1, <2>2
<1>4. stage'[n] \in {"scored", "sort"} => Honest(n, list'[n])
  BY DEF Sorting
<1>5. ASSUME stage'[n] = "sort", NEW i \in Workers(n)', work'[n][i].at = "computed" PROVE Honest(n, work'[n][i].buf)
  BY <1>5 DEF Sorting
<1>6. ASSUME Reliable(n)', Working(n)'
      PROVE  /\ Build = "THREAD" => Honest(n, list'[n])
             /\ \A i \in Workers(n)' : RankingNext(n, i)
  BY <1>2, <1>3, <1>6 DEF Sorting
<1> QED BY <1>4, <1>5, <1>6, SortingPrimed DEF SortingNext

LEMMA SortingInit == Init => Sorted
<1> SUFFICES ASSUME Init, NEW n \in Request PROVE Sorting(n)
  BY DEF Sorted
<1>1. stage[n] = "cal"
  BY DEF Init
<1> QED BY <1>1 DEF Sorting, Working

\* The ranges of two workers make that of one.
LEMMA NextLevelSorted ==
  ASSUME Soundness, Waiting, Sorted, NEW n \in Request, NextLevel(n)
  PROVE  Sorting(n)'
<1>1. /\ Soundness' /\ stage'[n] = "merge" /\ base[n] = 2 * base'[n] /\ base'[n] \in Nat \ {0} /\ size'[n] = 2 * size[n]
      /\ \A i \in 0 .. base'[n] - 1 : work'[n][i].at \in {"new", "unborn"}
      /\ failures <= failures' /\ failures' \in Nat
  BY NextLevelSound
<1>2. stage[n] \in {"sort", "merge"} /\ base[n] > 1 /\ Joined(n) /\ UNCHANGED <<input, list>>
  BY DEF NextLevel
<1>3. /\ Working(n) /\ Cut(base[n], size[n], Len(list[n])) /\ Workers(n) = 0 .. base[n] - 1
      /\ Sound(n) /\ Sorting(n) /\ TypeOK
  BY <1>2, AtWork DEF Working, Soundness, Sorted
<1>4. Workers(n)' = 0 .. base'[n] - 1 /\ Working(n)'
  BY <1>1 DEF Workers, Working
<1> SUFFICES ASSUME Reliable(n)'
             PROVE  /\ Build = "THREAD" => Honest(n, list[n])
                    /\ \A i \in 0 .. base'[n] - 1 :
                         /\ Honest(n, list[n])
                         /\ Ranked(n, list[n], Start(n, i)' + 1 .. Middle(n, i)')
                         /\ Ranked(n, list[n], Middle(n, i)' + 1 .. End(n, i)')
  BY <1>1, <1>2, <1>4, SortingPrimed DEF SortingNext, RankingNext
<1>5. failures' = 0 => failures = 0
  <2>1. failures \in Nat
    BY <1>3, MoviesAssumption DEF TypeOK
  <2> QED BY <1>1, <2>1
<1>6. Reliable(n)
  BY <1>2, <1>5 DEF Reliable, input
<1>7. Build = "THREAD" \/ (failures = 0 /\ stage[n] = "sort")
  <2>1. CASE stage[n] = "merge" /\ Base(Cardinality(match[n])) <= 2
    <3>1. 2 * base[n] <= Base(Cardinality(match[n])) /\ base[n] \in Nat /\ Base(Cardinality(match[n])) \in Nat
      BY <1>3, <2>1, Counted DEF Sound, Cut
    <3> QED BY <1>2, <2>1, <3>1
  <2> QED BY <1>2, <1>6, <2>1 DEF Reliable
<1>8. Honest(n, list[n])
  BY <1>3, <1>6, <1>7 DEF Sorting
<1>9. \A j \in Workers(n) : work[n][j].at \in {"done", "reaped"}
  BY <1>2, <1>7, JoinedIsDone
<1>10. \A j \in Workers(n) : Ranked(n, list[n], Start(n, j) + 1 .. End(n, j))
  BY <1>3, <1>6, <1>9 DEF Sorting, Ranking
<1>11. ASSUME NEW i \in 0 .. base'[n] - 1
       PROVE  /\ 2 * i \in Workers(n) /\ 2 * i + 1 \in Workers(n)
              /\ Start(n, i)' = Start(n, 2 * i) /\ Middle(n, i)' = End(n, 2 * i)
              /\ Middle(n, i)' = Start(n, 2 * i + 1) /\ End(n, i)' = End(n, 2 * i + 1)
  <2> DEFINE half == base'[n]  old == size[n]  all == Len(list[n])
  <2>1. Cut(2 * half, old, all) /\ half \in Nat \ {0} /\ i \in 0 .. half - 1
    BY <1>1, <1>3
  <2>2. /\ Start(n, i)' = (2 * old) * i /\ Middle(n, i)' = (2 * old) * i + (2 * old) \div 2
        /\ End(n, i)' = Upper(half, 2 * old, all, i)
    BY <1>1, <1>2 DEF Start, Middle, End, Upper
  <2>3. \A j : Start(n, j) = old * j /\ End(n, j) = Upper(2 * half, old, all, j)
    BY <1>1 DEF Start, End, Upper
  <2>4. Workers(n) = 0 .. 2 * half - 1
    BY <1>1, <1>3
  <2>5. base[n] = 2 * half
    BY <1>1
  <2> HIDE DEF half, old, all
  <2>6. Halves(half, 2 * half, old, all, i)
    BY <2>1, PairsMerge
  <2> QED BY <2>2, <2>3, <2>4, <2>6 DEF Halves
<1>12. ASSUME NEW i \in 0 .. base'[n] - 1
       PROVE  /\ Ranked(n, list[n], Start(n, i)' + 1 .. Middle(n, i)')
              /\ Ranked(n, list[n], Middle(n, i)' + 1 .. End(n, i)')
  <2>1. /\ Ranked(n, list[n], Start(n, 2 * i) + 1 .. End(n, 2 * i))
        /\ Ranked(n, list[n], Start(n, 2 * i + 1) + 1 .. End(n, 2 * i + 1))
    BY <1>10, <1>11
  <2> QED BY <1>11, <2>1
<1> QED BY <1>8, <1>12

\* What a worker computes: its range is sorted, or its halves are merged.
LEMMA ComputedBuffer ==
  ASSUME Soundness, Waiting, Ending, Sorted, NEW n \in Request, NEW i \in Workers(n), Compute(n, i)
  PROVE  /\ stage[n] = "sort" => Honest(n, work'[n][i].buf)
         /\ Reliable(n) => /\ Ranked(n, work'[n][i].buf, DOMAIN work'[n][i].buf)
                           /\ Build = "THREAD" => Honest(n, work'[n][i].buf)
<1> DEFINE a == Start(n, i)  m == Middle(n, i)  b == End(n, i)  s == list[n]
           l == SubSeq(s, a + 1, m)
           r == SubSeq(s, m + 1, b)
           q == SubSeq(s, a + 1, b)
           buf == IF stage[n] = "sort" THEN Sort(q) ELSE Merged(l, r)
           w == [at |-> "computed", buf |-> buf]
<1>1. /\ work[n][i].at = "new" /\ (stage[n] = "sort" => q # <<>>)
      /\ work' = [work EXCEPT ![n][i] = w]
  BY DEF Compute, Slice
<1>2. /\ work = [k \in Request |-> work[k]] /\ work[n] \in [Workers(n) -> WorkerState] /\ Working(n)
      /\ Sorting(n) /\ stage[n] \in {"sort", "merge"}
  BY <1>1, AtWork, BusyWaits DEF Soundness, Sound, Sorted
<1>3. work'[n][i].buf = buf
  <2>1. w.buf = buf
    OBVIOUS
  <2> HIDE DEF w
  <2> QED BY <1>1, <1>2, <2>1
<1>4. s \in Seq(Entry) /\ a \in 0 .. Len(s) /\ b \in a .. Len(s) /\ Len(s) \in Nat /\ m \in a .. b
  BY Slices
<1>5. Reliable(n) /\ stage[n] = "merge" => Honest(n, s) /\ Ranked(n, s, a + 1 .. m) /\ Ranked(n, s, m + 1 .. b)
  BY <1>1, <1>2 DEF Sorting, Ranking
<1>6. stage[n] = "sort" => Honest(n, s)
  BY <1>2 DEF Sorting
<1> HIDE DEF a, m, b, s, w
<1>7. /\ a + 1 \in 1 .. Len(s) + 1 /\ b \in (a + 1) - 1 .. Len(s) /\ m \in (a + 1) - 1 .. Len(s)
      /\ m + 1 \in 1 .. Len(s) + 1 /\ b \in (m + 1) - 1 .. Len(s)
  BY <1>4
<1>8. CASE stage[n] = "sort"
  <2>1. q \in Seq(Entry) /\ Honest(n, q)
    BY <1>4, <1>6, <1>7, <1>8, Piece, PieceRanks
  <2>2. buf = Sort(q) /\ q # <<>>
    BY <1>1, <1>8
  <2> HIDE DEF q, buf
  <2>3. Honest(n, buf) /\ Ranked(n, buf, DOMAIN buf)
    BY <2>1, <2>2, SortRanks
  <2> QED BY <1>3, <2>3
<1>9. CASE stage[n] = "merge"
  <2> SUFFICES ASSUME Reliable(n)
               PROVE  Ranked(n, buf, DOMAIN buf) /\ (Build = "THREAD" => Honest(n, buf))
    BY <1>3, <1>9
  <2>1. l \in Seq(Entry) /\ Honest(n, l) /\ Ranked(n, l, DOMAIN l)
    BY <1>4, <1>5, <1>7, <1>9, Piece, PieceRanks
  <2>2. r \in Seq(Entry) /\ Honest(n, r) /\ Ranked(n, r, DOMAIN r)
    BY <1>4, <1>5, <1>7, <1>9, Piece, PieceRanks
  <2>3. buf = Merged(l, r)
    BY <1>9
  <2> HIDE DEF l, r, buf
  <2> QED BY <2>1, <2>2, <2>3, MergeRanks
<1> QED BY <1>2, <1>8, <1>9

LEMMA ComputeSorted ==
  ASSUME Soundness, Listings, Waiting, Ending, Sorted, NEW n \in Request, NEW i \in Workers(n), Compute(n, i)
  PROVE  Sorting(n)'
<1>1. /\ work'[n][i].at = "computed" /\ \A j \in Workers(n) : j # i => work'[n][j] = work[n][j]
  BY ComputedList, WorkerMoves
<1>2. UNCHANGED <<input, list, base, size, stage, waited, failures, out, crashed>>
  BY DEF Compute
<1>3. /\ Sorting(n) /\ Working(n)' = Working(n) /\ Workers(n)' = Workers(n) /\ Reliable(n)' = Reliable(n)
      /\ \A j : Start(n, j)' = Start(n, j) /\ End(n, j)' = End(n, j) /\ Middle(n, j)' = Middle(n, j)
  BY <1>2 DEF Sorted, Working, Workers, Reliable, Start, End, Middle, input
<1>4. /\ stage[n] = "sort" => Honest(n, work'[n][i].buf)
      /\ Reliable(n) => /\ Ranked(n, work'[n][i].buf, DOMAIN work'[n][i].buf)
                        /\ Build = "THREAD" => Honest(n, work'[n][i].buf)
  BY ComputedBuffer
<1>5. ASSUME Reliable(n), Working(n), NEW j \in Workers(n) PROVE RankingNext(n, j)
  <2>1. CASE j = i
    BY <1>1, <1>4, <1>5, <2>1 DEF RankingNext
  <2>2. CASE j # i
    BY <1>1, <1>2, <1>3, <1>5, <2>2 DEF RankingNext, Ranking, Sorting
  <2> QED BY <2>1, <2>2
<1>6. ASSUME stage[n] = "sort", NEW j \in Workers(n), work'[n][j].at = "computed" PROVE Honest(n, work'[n][j].buf)
  BY <1>1, <1>3, <1>4, <1>6 DEF Sorting
<1> QED BY <1>2, <1>3, <1>5, <1>6, SortingPrimed DEF SortingNext, Sorting

\* While pserver can be relied on there is one worker in a merge.
LEMMA OneMerges ==
  ASSUME Soundness, NEW n \in Request, stage[n] = "merge", Reliable(n), Build # "THREAD",
         NEW i \in Workers(n), NEW j \in Workers(n)
  PROVE  i = j
<1>1. /\ Sound(n) /\ TypeOK /\ Workers(n) = 0 .. base[n] - 1 /\ base[n] \in Nat
  BY AtWork DEF Working, Soundness
<1>2. 2 * base[n] <= Base(Cardinality(match[n])) /\ Base(Cardinality(match[n])) <= 2
      /\ Base(Cardinality(match[n])) \in Nat
  BY <1>1, Counted DEF Sound, Reliable
<1>3. base[n] <= 1
  BY <1>1, <1>2
<1> QED BY <1>1, <1>3

LEMMA StoreSorted ==
  ASSUME Soundness, Listings, Waiting, Ending, Sorted, NEW n \in Request, NEW i \in Workers(n), Store(n, i)
  PROVE  Sorting(n)'
<1> DEFINE a == Start(n, i)  b == End(n, i)  s == list[n]  buf == work[n][i].buf  t == list'[n]
           w == [at |-> "done", buf |-> <<>>]
<1>1. /\ work[n][i].at = "computed" /\ buf \in Seq(Entry) /\ Len(buf) = b - a
      /\ t \in Seq(Entry) /\ Len(t) = Len(s)
      /\ \A k \in 1 .. Len(s) : IF k \in a + 1 .. b THEN k - a \in DOMAIN buf /\ t[k] = buf[k - a] ELSE t[k] = s[k]
      /\ work' = [work EXCEPT ![n] = [work[n] EXCEPT ![i] = w]]
  BY StoredList
<1>2. UNCHANGED <<input, base, size, stage, waited, failures, out, crashed>>
  BY DEF Store
<1>3. w.at = "done" /\ w \in WorkerState
  BY DEF WorkerState
<1> HIDE DEF w
<1>4. work'[n][i].at = "done" /\ \A j \in Workers(n) : j # i => work'[n][j] = work[n][j]
  BY <1>1, <1>3, OneWorker
<1>5. /\ Sorting(n) /\ Working(n)' = Working(n) /\ Workers(n)' = Workers(n) /\ Reliable(n)' = Reliable(n)
      /\ Working(n) /\ s \in Seq(Entry) /\ a \in 0 .. Len(s) /\ b \in a .. Len(s) /\ Len(s) \in Nat
      /\ stage[n] \in {"sort", "merge"}
  BY <1>1, <1>2, AtWork, Slices, BusyWaits DEF Sorted, Working, Workers, Reliable, input
<1>6. \A j \in Workers(n) : /\ Start(n, j)' = Start(n, j) /\ End(n, j)' = End(n, j) /\ Middle(n, j)' = Middle(n, j)
                            /\ Start(n, j) \in Nat /\ End(n, j) \in Nat /\ Middle(n, j) \in Start(n, j) .. End(n, j)
                            /\ Start(n, j) <= Middle(n, j) /\ Middle(n, j) <= End(n, j) /\ End(n, j) <= Len(s)
  <2>1. \A j : Start(n, j)' = Start(n, j) /\ End(n, j)' = End(n, j) /\ Middle(n, j)' = Middle(n, j)
    BY <1>1, <1>2 DEF Start, End, Middle
  <2>2. ASSUME NEW j \in Workers(n)
        PROVE  /\ Start(n, j) \in Nat /\ End(n, j) \in Nat /\ Middle(n, j) \in Start(n, j) .. End(n, j)
               /\ Start(n, j) <= Middle(n, j) /\ Middle(n, j) <= End(n, j) /\ End(n, j) <= Len(s)
    <3>1. /\ Start(n, j) \in 0 .. Len(s) /\ End(n, j) \in Start(n, j) .. Len(s) /\ Len(s) \in Nat
          /\ Middle(n, j) \in Start(n, j) .. End(n, j)
      BY Slices
    <3> QED BY <3>1
  <2> QED BY <2>1, <2>2
<1>7. ASSUME NEW j \in Workers(n), j # i PROVE \A k \in Start(n, j) + 1 .. End(n, j) : t[k] = s[k]
  <2>1. (a + 1 .. b) \cap (Start(n, j) + 1 .. End(n, j)) = {}
    BY <1>7, SlicesApart
  <2>2. \A k \in Start(n, j) + 1 .. End(n, j) : k \in 1 .. Len(s)
    BY <1>5, <1>6
  <2> HIDE DEF a, b, s, t, buf
  <2> QED BY <1>1, <2>1, <2>2
<1> HIDE DEF a, b, s, t, buf
<1>8. ASSUME Honest(n, s), Honest(n, buf) PROVE Honest(n, t)
  BY <1>1, <1>5, <1>8 DEF Honest
<1>9. Ranked(n, buf, DOMAIN buf) => Ranked(n, t, a + 1 .. b)
  <2> SUFFICES ASSUME Ranked(n, buf, DOMAIN buf), NEW j \in a + 1 .. b, NEW k \in a + 1 .. b, j < k
               PROVE  ~ Better(n, t[k].title, t[j].title)
    BY DEF Ranked
  <2>1. j - a < k - a /\ j \in 1 .. Len(s) /\ k \in 1 .. Len(s)
    BY <1>5
  <2>2. t[j] = buf[j - a] /\ t[k] = buf[k - a] /\ j - a \in DOMAIN buf /\ k - a \in DOMAIN buf
    BY <1>1, <2>1
  <2> QED BY <2>1, <2>2 DEF Ranked
<1>10. stage[n] = "sort" => Honest(n, t)
  BY <1>1, <1>5, <1>8 DEF Sorting, s, buf
<1>11. Reliable(n) /\ Build = "THREAD" => Honest(n, t)
  BY <1>1, <1>5, <1>8 DEF Sorting, Ranking, s, buf
<1>12. Reliable(n) => Ranked(n, t, a + 1 .. b)
  BY <1>1, <1>5, <1>9 DEF Sorting, Ranking, buf
<1>13. ASSUME Reliable(n), NEW j \in Workers(n) PROVE RankingNext(n, j)
  <2>1. CASE j = i
    BY <1>4, <1>6, <1>12, <1>13, <2>1 DEF RankingNext, a, b, t
  <2>2. CASE j # i
    <3>1. Ranking(n, j) /\ work'[n][j] = work[n][j]
      BY <1>4, <1>5, <1>13, <2>2 DEF Sorting
    <3>2. stage[n] = "merge" => Honest(n, t)
      BY <1>5, <1>11, <1>13, <2>2, OneMerges
    <3>3. ASSUME NEW D \in SUBSET (Start(n, j) + 1 .. End(n, j)), Ranked(n, s, D) PROVE Ranked(n, t, D)
      BY <1>7, <2>2, <3>3 DEF Ranked
    <3>4. /\ Start(n, j) + 1 .. Middle(n, j) \subseteq Start(n, j) + 1 .. End(n, j)
          /\ Middle(n, j) + 1 .. End(n, j) \subseteq Start(n, j) + 1 .. End(n, j)
      BY <1>6
    <3>5. /\ Ranked(n, s, Start(n, j) + 1 .. End(n, j)) => Ranked(n, t, Start(n, j) + 1 .. End(n, j))
          /\ Ranked(n, s, Start(n, j) + 1 .. Middle(n, j)) => Ranked(n, t, Start(n, j) + 1 .. Middle(n, j))
          /\ Ranked(n, s, Middle(n, j) + 1 .. End(n, j)) => Ranked(n, t, Middle(n, j) + 1 .. End(n, j))
      BY <3>3, <3>4
    <3> QED BY <1>2, <1>6, <3>1, <3>2, <3>5 DEF RankingNext, Ranking, s, t
  <2> QED BY <2>1, <2>2
<1>14. ASSUME stage[n] = "sort", NEW j \in Workers(n), work'[n][j].at = "computed" PROVE Honest(n, work'[n][j].buf)
  BY <1>4, <1>5, <1>14 DEF Sorting
<1> QED BY <1>2, <1>5, <1>10, <1>11, <1>13, <1>14, SortingPrimed DEF SortingNext, t

LEMMA SortNothingSorted ==
  ASSUME Soundness, Listings, Sorted, NEW n \in Request, NEW i \in Workers(n), SortNothing(n, i)
  PROVE  Sorting(n)'
<1>1. /\ work[n][i].at = "new" /\ stage[n] = "sort" /\ Slice(n, i) = <<>>
      /\ UNCHANGED <<input, list, base, size, stage, waited, failures, out>>
  BY DEF SortNothing
<1>2. \A j \in Workers(n) : work'[n][j] = work[n][j] \/ (j = i /\ work'[n][j] = [at |-> "done", buf |-> <<>>])
  BY SortNothingSound
<1>3. /\ Sorting(n) /\ Working(n)' = Working(n) /\ Workers(n)' = Workers(n) /\ Reliable(n)' = Reliable(n)
      /\ \A j : Start(n, j)' = Start(n, j) /\ End(n, j)' = End(n, j) /\ Middle(n, j)' = Middle(n, j)
  BY <1>1 DEF Sorted, Working, Workers, Reliable, Start, End, Middle, input
<1>4. Start(n, i) + 1 .. End(n, i) = {}
  <2> DEFINE a == Start(n, i)  b == End(n, i)  s == list[n]
  <2>1. s \in Seq(Entry) /\ a \in 0 .. Len(s) /\ b \in a .. Len(s) /\ Len(s) \in Nat
    BY Slices
  <2>2. SubSeq(s, a + 1, b) = <<>>
    BY <1>1 DEF Slice
  <2> HIDE DEF a, b, s
  <2>3. Len(SubSeq(s, a + 1, b)) = b - (a + 1) + 1
    <3>1. a + 1 \in 1 .. Len(s) + 1 /\ b \in (a + 1) - 1 .. Len(s)
      BY <2>1
    <3> QED BY <2>1, <3>1, Piece
  <2>4. Len(<<>>) = 0
    OBVIOUS
  <2>5. b - (a + 1) + 1 = 0
    BY <2>2, <2>3, <2>4
  <2>6. a + 1 .. b = {}
    BY <2>1, <2>5
  <2> QED BY <2>6 DEF a, b
<1> DEFINE w == [at |-> "done", buf |-> <<>>]
<1>5. w.at = "done"
  OBVIOUS
<1> HIDE DEF w
<1>6. \A j \in Workers(n) : work'[n][j] = work[n][j] \/ (j = i /\ work'[n][j] = w)
  BY <1>2 DEF w
<1>7. ASSUME Reliable(n), NEW j \in Workers(n) PROVE RankingNext(n, j)
  <2>1. Ranking(n, j)
    BY <1>1, <1>3, <1>7 DEF Sorting, Working
  <2>2. CASE work'[n][j] = work[n][j]
    BY <1>1, <1>3, <2>1, <2>2 DEF RankingNext, Ranking
  <2>3. CASE j = i /\ work'[n][j] = w
    <3>1. Ranked(n, list[n], Start(n, i) + 1 .. End(n, i))
      BY <1>4 DEF Ranked
    <3> QED BY <1>1, <1>3, <1>5, <2>3, <3>1 DEF RankingNext
  <2> QED BY <1>6, <2>2, <2>3
<1>8. ASSUME NEW j \in Workers(n), work'[n][j].at = "computed" PROVE Honest(n, work'[n][j].buf)
  <2>1. work'[n][j] = work[n][j]
    BY <1>5, <1>6, <1>8
  <2> QED BY <1>1, <1>3, <1>8, <2>1 DEF Sorting
<1>9. Honest(n, list[n]) /\ Working(n)
  BY <1>1, <1>3 DEF Sorting, Working
<1> QED BY <1>1, <1>3, <1>7, <1>8, <1>9, SortingPrimed DEF SortingNext

LEMMA NextSorted == Soundness /\ Listings /\ Waiting /\ Ending /\ Sorted /\ [Next]_vars => Sorted'
<1> SUFFICES ASSUME Soundness, Listings, Waiting, Ending, Sorted, [Next]_vars PROVE Sorted'
  OBVIOUS
<1>0. TypeOK /\ Typed /\ \A n \in Request : Sorting(n)
  BY TypedNow DEF Soundness, Sorted
<1>1. ASSUME NEW n \in Request, Cal(n) PROVE Sorted'
  <2>1. /\ list' = [list EXCEPT ![n] = list'[n]] /\ base' = [base EXCEPT ![n] = base'[n]]
        /\ size' = [size EXCEPT ![n] = size'[n]] /\ stage' = [stage EXCEPT ![n] = "scored"]
        /\ Honest(n, list'[n])
    BY <1>0, <1>1, CalLists
  <2>2. UNCHANGED <<input, work, failures>>
    BY <1>1 DEF Cal, children
  <2>3. \A m \in Request : m # n => UNCHANGED <<list[m], base[m], size[m], stage[m], work[m]>>
    BY <1>0, <2>1, <2>2 DEF Typed
  <2>4. \A m \in Request : m # n => Working(m)' = Working(m) /\ Workers(m)' = Workers(m)
    BY <2>3 DEF Working, Workers
  <2>5. \A m \in Request : m # n => Sorting(m)'
    BY <1>0, <2>2, <2>3, <2>4, SortingStays
  <2>6. stage'[n] = "scored" /\ ~ Working(n)'
    BY <1>0, <2>1 DEF Typed, Working
  <2>7. SortingNext(n)
    BY <2>1, <2>6 DEF SortingNext
  <2> QED BY <2>2, <2>5, <2>7, SortingPrimed DEF Sorted
<1>2. CASE StartSort
  <2>1. /\ \A n \in Request : stage[n] = "scored"
        /\ stage' = [n \in Request |-> IF n \in Handled THEN "sort" ELSE "dropped"]
        /\ UNCHANGED <<input, list, base, size, out, crashed>> /\ Employ(Handled)
    BY <1>2 DEF StartSort
  <2>2. Handled \in SUBSET Request /\ base' \in [Request -> Nat]
    BY <1>0, <2>1, HandledRequests DEF Typed
  <2>3. \A n \in Handled : \A i \in 0 .. base'[n] - 1 : work'[n][i].at \in {"new", "unborn"}
    BY <1>0, <2>1, <2>2, Employed
  <2>4. ASSUME NEW n \in Request PROVE Sorting(n)'
    <3>1. Honest(n, list'[n])
      BY <1>0, <2>1 DEF Sorting
    <3>2. \A i \in Workers(n)' : work'[n][i].at \in {"new", "unborn"} /\ stage'[n] = "sort"
      BY <2>1, <2>3 DEF Workers, Working
    <3>3. SortingNext(n)
      BY <3>1, <3>2 DEF SortingNext, RankingNext
    <3> QED BY <2>1, <3>3, SortingPrimed
  <2> QED BY <2>4 DEF Sorted
<1>3. ASSUME NEW n \in Request, Wait(n) PROVE Sorted'
  <2>1. /\ \A m \in Request : m # n => work'[m] = work[m]
        /\ \A j \in Workers(n) :
              \/ work'[n][j] = work[n][j]
              \/ work[n][j].at = "done" /\ work'[n][j] = [at |-> "reaped", buf |-> work[n][j].buf]
    BY <1>3, WaitSound
  <2>2. UNCHANGED <<input, list, base, size, stage, failures, out, crashed>>
    BY <1>3 DEF Wait
  <2>3. \A m \in Request : Workers(m)' = Workers(m) /\ Working(m)' = Working(m)
    BY <2>2 DEF Workers, Working
  <2>4. ASSUME NEW j \in Workers(n)
        PROVE  work'[n][j] = work[n][j] \/ (work[n][j].at = "done" /\ work'[n][j].at = "reaped")
    <3> DEFINE w == [at |-> "reaped", buf |-> work[n][j].buf]
    <3>1. work'[n][j] = work[n][j] \/ (work[n][j].at = "done" /\ work'[n][j] = w)
      BY <2>1
    <3>2. w.at = "reaped"
      OBVIOUS
    <3> HIDE DEF w
    <3> QED BY <3>1, <3>2
  <2>5. \A m \in Request : m # n => Sorting(m)'
    BY <1>0, <2>1, <2>2, <2>3, SortingStays
  <2>6. Sorting(n)'
    BY <1>0, <2>2, <2>3, <2>4, SortingStays
  <2> QED BY <2>5, <2>6 DEF Sorted
<1>4. ASSUME NEW n \in Request, NextLevel(n) PROVE Sorted'
  <2>1. /\ \A m \in Request : m # n => UNCHANGED <<list[m], base[m], size[m], stage[m], work[m], waited[m]>>
        /\ failures <= failures' /\ failures' \in Nat
    BY <1>4, NextLevelSound
  <2>2. UNCHANGED input
    BY <1>4 DEF NextLevel
  <2>3. failures' = 0 => failures = 0
    <3>1. failures \in Nat
      BY <1>0, MoviesAssumption DEF Typed
    <3> QED BY <2>1, <3>1
  <2>4. \A m \in Request : m # n => Working(m)' = Working(m) /\ Workers(m)' = Workers(m)
    BY <2>1 DEF Working, Workers
  <2>5. \A m \in Request : m # n => Sorting(m)'
    BY <1>0, <2>1, <2>2, <2>3, <2>4, SortingStays
  <2>6. Sorting(n)'
    BY <1>4, NextLevelSorted
  <2> QED BY <2>5, <2>6 DEF Sorted
<1>5. ASSUME NEW n \in Request, Write(n) PROVE Sorted'
  <2>1. stage'[n] = "written" /\ \A m \in Request : m # n => stage'[m] = stage[m]
    BY <1>5, WriteSound
  <2>2. UNCHANGED <<input, list, base, size, work, failures>> /\ stage[n] \in {"sort", "merge"}
    BY <1>5 DEF Write, children
  <2>3. \A m \in Request : Working(m)' = Working(m) /\ Workers(m)' = Workers(m)
    BY <2>1, <2>2 DEF Working, Workers
  <2>4. \A m \in Request : Sorting(m)'
    BY <1>0, <2>1, <2>2, <2>3, SortingStays
  <2> QED BY <2>4 DEF Sorted
<1>6. ASSUME NEW n \in Request, NEW i \in Workers(n), Compute(n, i) \/ Store(n, i) \/ SortNothing(n, i)
      PROVE  Sorted'
  <2>1. Sorting(n)'
    BY <1>6, ComputeSorted, StoreSorted, SortNothingSorted
  <2>2. \A m \in Request : m # n => work'[m] = work[m]
    BY <1>6, WorkerMoves
  <2>3. UNCHANGED <<input, base, size, stage, failures>>
    BY <1>6 DEF Compute, Store, SortNothing
  <2>4. \A m \in Request : m # n => list'[m] = list[m]
    <3>1. CASE Store(n, i)
      BY <1>0, <3>1 DEF Store, Typed
    <3> QED BY <1>6, <3>1 DEF Compute, SortNothing
  <2>5. \A m \in Request : Working(m)' = Working(m) /\ Workers(m)' = Workers(m)
    BY <2>3 DEF Working, Workers
  <2>6. \A m \in Request : m # n => Sorting(m)'
    BY <1>0, <2>2, <2>3, <2>4, <2>5, SortingStays
  <2> QED BY <2>1, <2>6 DEF Sorted
<1>7. CASE UNCHANGED vars
  <2>1. UNCHANGED <<input, list, base, size, stage, work, failures>>
    BY <1>7, Stutter DEF input
  <2>2. \A m \in Request : Working(m)' = Working(m) /\ Workers(m)' = Workers(m)
    BY <2>1 DEF Working, Workers
  <2>3. \A m \in Request : Sorting(m)'
    BY <1>0, <2>1, <2>2, SortingStays
  <2> QED BY <2>3 DEF Sorted
<1> QED BY <1>1, <1>2, <1>3, <1>4, <1>5, <1>6, <1>7, Steps1

\* A request whose order can be relied on is written in order.
LEMMA InOrderNow ==
  ASSUME Soundness, Waiting, Ending, Sorted, NEW n \in Request, stage[n] = "written", Reliable(n)
  PROVE  InOrder(n)
<1>1. /\ Working(n) /\ n \in Handled /\ Workers(n) = 0 .. base[n] - 1 /\ Sorting(n)
      /\ list[n] \in Seq(Entry) /\ size[n] \in Nat
  BY AtWork, TypedNow DEF Working, Sorted, Typed
<1>2. base[n] = 1 /\ Joined(n) /\ out[n] = wr(n)
  BY <1>1 DEF Ending
<1>3. 0 \in Workers(n)
  BY <1>1, <1>2
<1>4. work[n][0].at \in {"done", "reaped"}
  BY <1>2, <1>3, JoinedIsDone DEF Reliable
<1>5. Ranked(n, list[n], Start(n, 0) + 1 .. End(n, 0))
  BY <1>1, <1>3, <1>4 DEF Sorting, Ranking
<1>6. Start(n, 0) + 1 .. End(n, 0) = DOMAIN list[n]
  <2>1. Start(n, 0) = 0 /\ End(n, 0) = Len(list[n])
    BY <1>1, <1>2 DEF Start, End
  <2> QED BY <1>1, <2>1
<1> DEFINE q == [k \in DOMAIN out[n] |-> [title |-> out[n][k], score |-> score[n][out[n][k]]]]
<1>7. DOMAIN q = DOMAIN list[n] /\ \A k \in DOMAIN list[n] : q[k].title = list[n][k].title
  BY <1>2 DEF wr
<1>8. Honest(n, q)
  BY DEF Honest
<1> HIDE DEF q
<1>9. Ranked(n, q, DOMAIN q)
  BY <1>5, <1>6, <1>7, RankedAlike
<1>10. Ordered(q)
  BY <1>8, <1>9, HonestOrder
<1> QED BY <1>10 DEF InOrder, q

LEMMA DoneRangesNow ==
  ASSUME Soundness, Sorted, Build = "THREAD"
  PROVE  DoneRangesOrdered
<1> SUFFICES ASSUME NEW n \in Request, NEW i \in DOMAIN work[n], work[n][i].at = "done"
             PROVE  Ordered(Slice(n, i))
  BY DEF DoneRangesOrdered
<1> DEFINE a == Start(n, i)  b == End(n, i)  s == list[n]
<1>1. i \in Workers(n) /\ Working(n) /\ Sorting(n) /\ Reliable(n)
  BY AtWork DEF Sorted, Reliable
<1>2. Honest(n, s) /\ Ranked(n, s, a + 1 .. b)
  BY <1>1 DEF Sorting, Ranking
<1>3. s \in Seq(Entry) /\ a \in 0 .. Len(s) /\ b \in a .. Len(s) /\ Len(s) \in Nat
  BY <1>1, Slices
<1>4. Slice(n, i) = SubSeq(s, a + 1, b)
  BY DEF Slice
<1> HIDE DEF a, b, s
<1>5. a + 1 \in 1 .. Len(s) + 1 /\ b \in (a + 1) - 1 .. Len(s)
  BY <1>3
<1>6. Honest(n, SubSeq(s, a + 1, b)) /\ Ranked(n, SubSeq(s, a + 1, b), DOMAIN SubSeq(s, a + 1, b))
  BY <1>2, <1>3, <1>5, PieceRanks
<1> QED BY <1>4, <1>6, HonestOrder

-----------------------------------------------------------------------------
(* The theorems. *)

MovieInv == Soundness /\ Listings /\ Waiting /\ Ending /\ Sorted

\* The inductive invariant: what there is of workers, of lists, of joining, of the
\* end and of order holds from the start, whatever worker or request takes the step.
THEOREM MoviesStaySound == Spec => []MovieInv
<1>1. Init => MovieInv
  BY SoundInit, ListingInit, WaitingInit, EndingInit, SortingInit DEF MovieInv
<1>2. MovieInv /\ [Next]_vars => MovieInv'
  BY NextSound, NextListing, NextWaiting, NextEnding, NextSorted DEF MovieInv
<1> QED BY <1>1, <1>2, PTL DEF Spec

\* Every variable keeps its type.
THEOREM MoviesKeepTheirTypes == Spec => []TypeOK
<1>1. MovieInv => TypeOK
  BY DEF MovieInv, Soundness
<1> QED BY <1>1, MoviesStaySound, PTL

\* The ranges that the workers of a level share an array by are disjoint and leave
\* nothing out, for every list, every number of thresholds and every level.
THEOREM RangesStayAPartition == Spec => []RangesPartition
<1>1. MovieInv => RangesPartition
  BY PartitionNow DEF MovieInv
<1> QED BY <1>1, MoviesStaySound, PTL

\* When main has joined, no worker is still at work, whatever child the waitpid()
\* of an unborn one has taken.
THEOREM JoinedMeansDone == Spec => []NoneAtWork
<1>1. MovieInv => NoneAtWork
  BY NoneAtWorkNow DEF MovieInv
<1> QED BY <1>1, MoviesStaySound, PTL

\* The program that dies of a request without movies has not written any output.
THEOREM AnswersComeTogether == Spec => []AllOrNone
<1>1. MovieInv => AllOrNone
  BY AllOrNoneNow DEF MovieInv
<1> QED BY <1>1, MoviesStaySound, PTL

\* Each movie with the keyword is in the output once, whatever forks fail.
THEOREM NoMovieIsLost == Spec => []NothingLost
<1>1. MovieInv => NothingLost
  BY ListedNow DEF MovieInv, NothingLost
<1> QED BY <1>1, MoviesStaySound, PTL

\* pserver's output is in order where no fork fails and one merge at most is needed.
THEOREM ShortOutputStaysSorted == Spec => []ShortOutputSorted
<1>1. MovieInv => ShortOutputSorted
  <2> SUFFICES ASSUME MovieInv, NEW n \in Request, stage[n] = "written", failures = 0,
                      Base(Cardinality(match[n])) <= 2
               PROVE  InOrder(n)
    BY DEF ShortOutputSorted
  <2>1. Reliable(n)
    BY DEF Reliable
  <2> QED BY <2>1, InOrderNow DEF MovieInv
<1> QED BY <1>1, MoviesStaySound, PTL

\* tserver's output has what the request asks for, and in its order, for any list
\* however often it is cut and merged.
THEOREM ThreadsSort == Build = "THREAD" => (Spec => []OutputSorted)
<1> SUFFICES ASSUME Build = "THREAD" PROVE Spec => []OutputSorted
  OBVIOUS
<1>1. MovieInv => OutputSorted
  <2> SUFFICES ASSUME MovieInv, NEW n \in Request, stage[n] = "written"
               PROVE  Listed(n) /\ InOrder(n)
    BY DEF OutputSorted
  <2>1. Reliable(n)
    BY DEF Reliable
  <2> QED BY <2>1, InOrderNow, ListedNow DEF MovieInv
<1> QED BY <1>1, MoviesStaySound, PTL

\* What a thread of tserver has done is in order and stays so while others write to
\* the same array.
THEOREM ThreadsLeaveOrder == Build = "THREAD" => (Spec => []DoneRangesOrdered)
<1> SUFFICES ASSUME Build = "THREAD" PROVE Spec => []DoneRangesOrdered
  OBVIOUS
<1>1. MovieInv => DoneRangesOrdered
  BY DoneRangesNow DEF MovieInv
<1> QED BY <1>1, MoviesStaySound, PTL
=============================================================================
