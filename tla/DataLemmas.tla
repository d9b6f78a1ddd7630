----------------------------- MODULE DataLemmas -----------------------------
(***************************************************************************)
(* Facts about numbers and sequences that the proofs about the components  *)
(* share.  Induction is stated for a set instead of a predicate, so that   *)
(* it can be cited with a set written down for the occasion.               *)
(***************************************************************************)
EXTENDS Queues, FiniteSetTheorems, TLAPS

\* A set that has 0, and n + 1 with every n, has all the natural numbers: of those
\* it lacks there would be a least one.
LEMMA SetInduction ==
  ASSUME NEW G, 0 \in G, \A n \in Nat : n \in G => n + 1 \in G
  PROVE  \A n \in Nat : n \in G
<1> SUFFICES ASSUME NEW m \in Nat, m \notin G PROVE FALSE
  OBVIOUS
<1> DEFINE Bad == {0 .. n : n \in Nat \ G}
<1>1. Bad # {}
  OBVIOUS
<1>2. Bad \subseteq FiniteSubsetsOf(Nat)
  <2> SUFFICES ASSUME NEW n \in Nat PROVE 0 .. n \in FiniteSubsetsOf(Nat)
    OBVIOUS
  <2>1. IsFiniteSet(0 .. n)
    BY FS_Interval
  <2> QED BY <2>1 DEF FiniteSubsetsOf
<1>3. PICK X \in Bad : \A Y \in Bad : ~ (<<Y, X>> \in StrictSubsetOrdering(Nat))
  <2> HIDE DEF Bad
  <2> QED BY <1>1, <1>2, FS_StrictSubsetOrderingWellFounded, WFMin
<1>4. PICK n \in Nat \ G : X = 0 .. n
  OBVIOUS
<1>5. n # 0 /\ n - 1 \in Nat /\ n - 1 \notin G
  BY <1>4
<1>6. (0 .. n - 1) \in Bad
  BY <1>5
<1>7. <<0 .. n - 1, 0 .. n>> \in StrictSubsetOrdering(Nat)
  BY <1>5 DEF StrictSubsetOrdering
<1> QED BY <1>3, <1>4, <1>6, <1>7

\* f begins with a, and h computes each of its values up to that at n from the one
\* before, and from where it is.
Steps(n, S) == [(1 .. n) \X S -> S]
Iterates(f, n, a, h) == f[0] = a /\ \A k \in 1 .. n : f[k] = h[<<k, f[k - 1]>>]

LEMMA StepByStep ==
  ASSUME NEW n \in Nat, NEW S, NEW a \in S, NEW h \in Steps(n, S)
  PROVE  \E f \in [0 .. n -> S] : Iterates(f, n, a, h)
<1> USE DEF Steps
<1> DEFINE Good(f, m) == \A k \in 0 .. m : f[k] = IF k = 0 THEN a ELSE h[<<k, f[k - 1]>>]
           G == {m \in Nat : m <= n => \E f \in [0 .. m -> S] : Good(f, m)}
<1>1. 0 \in G
  <2>1. [k \in 0 .. 0 |-> a] \in [0 .. 0 -> S] /\ Good([k \in 0 .. 0 |-> a], 0)
    OBVIOUS
  <2> QED BY <2>1
<1>2. ASSUME NEW m \in Nat, m \in G PROVE m + 1 \in G
  <2> SUFFICES ASSUME m + 1 <= n PROVE \E f \in [0 .. m + 1 -> S] : Good(f, m + 1)
    OBVIOUS
  <2>1. PICK f \in [0 .. m -> S] : Good(f, m)
    BY <1>2
  <2> DEFINE last == h[<<m + 1, f[m]>>]
             g == [k \in 0 .. m + 1 |-> IF k = m + 1 THEN last ELSE f[k]]
  <2>2. last \in S
    <3>1. f[m] \in S /\ m + 1 \in 1 .. n
      OBVIOUS
    <3> QED BY <3>1
  <2>3. g \in [0 .. m + 1 -> S] /\ g[m + 1] = last /\ \A k \in 0 .. m : g[k] = f[k]
    <3> HIDE DEF last
    <3> QED BY <2>2
  <2> HIDE DEF g
  <2>4. Good(g, m + 1)
    <3> SUFFICES ASSUME NEW k \in 0 .. m + 1 PROVE g[k] = IF k = 0 THEN a ELSE h[<<k, g[k - 1]>>]
      OBVIOUS
    <3>1. CASE k = m + 1
      <4>1. k - 1 = m /\ m \in 0 .. m /\ k # 0
        BY <3>1
      <4> QED BY <2>3, <3>1, <4>1
    <3>2. CASE k # m + 1
      <4>1. k \in 0 .. m /\ (k # 0 => k - 1 \in 0 .. m)
        BY <3>2
      <4> QED BY <2>1, <2>3, <4>1
    <3> QED BY <3>1, <3>2
  <2> QED BY <2>3, <2>4
<1>3. n \in G
  <2> HIDE DEF G
  <2> QED BY <1>1, <1>2, SetInduction
<1>4. PICK f \in [0 .. n -> S] : Good(f, n)
  BY <1>3
<1>5. 0 \in 0 .. n /\ \A k \in 1 .. n : k \in 0 .. n /\ k # 0
  OBVIOUS
<1>6. f[0] = a /\ \A k \in 1 .. n : f[k] = h[<<k, f[k - 1]>>]
  BY <1>4, <1>5
<1> QED BY <1>6 DEF Iterates

\* A sequence without repetitions has as many elements as it is long.
LEMMA DistinctCount ==
  ASSUME NEW S, NEW q \in Seq(S), \A j, k \in DOMAIN q : q[j] = q[k] => j = k
  PROVE  Cardinality({q[k] : k \in DOMAIN q}) = Len(q)
<1> DEFINE T == {q[k] : k \in DOMAIN q}
<1>1. Len(q) \in Nat /\ DOMAIN q = 1 .. Len(q)
  OBVIOUS
<1>2. q \in Bijection(1 .. Len(q), T)
  BY <1>1 DEF Bijection, Injection, Surjection, IsInjective
<1>3. IsFiniteSet(1 .. Len(q)) /\ Cardinality(1 .. Len(q)) = Len(q)
  BY <1>1, FS_Interval
<1>4. ExistsBijection(1 .. Len(q), T)
  BY <1>2 DEF ExistsBijection
<1> HIDE DEF T
<1>5. Cardinality(T) = Len(q)
  BY <1>3, <1>4, FS_Bijection
<1> QED BY <1>5 DEF T

-----------------------------------------------------------------------------
(* Queues. *)

\* Nothing is in two slots of q.
Distinct(q) == \A j, k \in DOMAIN q : q[j] = q[k] => j = k

\* The queue Keep builds, slot by slot of the one it goes through.
Kept(q, S, g) ==
  /\ g[0] = <<>>
  /\ \A k \in 1 .. Len(q) : g[k] = IF q[k] \in S THEN Append(g[k - 1], q[k]) ELSE g[k - 1]

LEMMA KeepBuilds ==
  ASSUME NEW A, NEW q \in Seq(A), NEW S
  PROVE  \E g : Kept(q, S, g) /\ Keep(q, S) = g[Len(q)]
<1> DEFINE Step(g, n) == [k \in 0 .. n |-> IF k = 0 THEN <<>>
                                           ELSE IF q[k] \in S THEN Append(g[k - 1], q[k]) ELSE g[k - 1]]
           G == {n \in Nat : \E g : g = Step(g, n)}
<1>1. 0 \in G
  <2>1. [k \in 0 .. 0 |-> <<>>] = Step([k \in 0 .. 0 |-> <<>>], 0)
    OBVIOUS
  <2> QED BY <2>1
<1>2. ASSUME NEW n \in Nat, n \in G PROVE n + 1 \in G
  <2>1. PICK g : g = Step(g, n)
    BY <1>2
  <2> DEFINE last == IF q[n + 1] \in S THEN Append(g[n], q[n + 1]) ELSE g[n]
             h == [k \in 0 .. n + 1 |-> IF k = n + 1 THEN last ELSE g[k]]
  <2>2. \A k \in 0 .. n : h[k] = g[k]
    OBVIOUS
  <2>3. h[n + 1] = last
    OBVIOUS
  <2>4. ASSUME NEW k \in 0 .. n + 1
        PROVE  h[k] = IF k = 0 THEN <<>>
                      ELSE IF q[k] \in S THEN Append(h[k - 1], q[k]) ELSE h[k - 1]
    <3>1. CASE k = n + 1
      BY <2>2, <2>3, <3>1
    <3>2. CASE k # n + 1
      <4>1. k \in 0 .. n /\ h[k] = g[k] /\ (k # 0 => k - 1 \in 0 .. n /\ h[k - 1] = g[k - 1])
        BY <2>2, <3>2
      <4> HIDE DEF h
      <4> QED BY <2>1, <4>1
    <3> QED BY <3>1, <3>2
  <2>5. h = [k \in 0 .. n + 1 |-> h[k]]
    OBVIOUS
  <2> HIDE DEF h
  <2>6. h = Step(h, n + 1)
    BY <2>4, <2>5
  <2> QED BY <2>6
<1>3. Len(q) \in G
  <2> HIDE DEF G
  <2>1. \A n \in Nat : n \in G
    BY <1>1, <1>2, SetInduction
  <2> QED BY <2>1
<1>4. PICK g : g = Step(g, Len(q))
  BY <1>3
<1>5. \E h : h = Step(h, Len(q)) /\ Keep(q, S) = h[Len(q)]
  BY <1>4 DEF Keep
<1>6. PICK h : h = Step(h, Len(q)) /\ Keep(q, S) = h[Len(q)]
  BY <1>5
<1>7. h[0] = <<>>
  BY <1>6
<1>8. ASSUME NEW k \in 1 .. Len(q)
      PROVE  h[k] = IF q[k] \in S THEN Append(h[k - 1], q[k]) ELSE h[k - 1]
  <2>1. k \in 0 .. Len(q) /\ k # 0
    BY Len(q) \in Nat
  <2>2. Step(h, Len(q))[k] = IF q[k] \in S THEN Append(h[k - 1], q[k]) ELSE h[k - 1]
    BY <2>1
  <2> HIDE DEF Step
  <2> QED BY <1>6, <2>2
<1> QED BY <1>6, <1>7, <1>8 DEF Kept

LEMMA Appended ==
  ASSUME NEW A, NEW r \in Seq(A), NEW e \in A
  PROVE  /\ Append(r, e) \in Seq(A) /\ Append(r, e) # <<>>
         /\ Slots(Append(r, e)) = Slots(r) \cup {e}
         /\ Distinct(r) /\ e \notin Slots(r) => Distinct(Append(r, e))
<1> DEFINE s == Append(r, e)
<1>1. /\ s \in Seq(A) /\ s # <<>> /\ Len(s) = Len(r) + 1 /\ Len(r) \in Nat
      /\ s[Len(r) + 1] = e /\ \A k \in 1 .. Len(r) : s[k] = r[k]
      /\ DOMAIN s = 1 .. Len(r) + 1 /\ DOMAIN r = 1 .. Len(r)
  OBVIOUS
<1> HIDE DEF s
<1>2. Slots(s) = Slots(r) \cup {e}
  BY <1>1 DEF Slots
<1>3. ASSUME Distinct(r), e \notin Slots(r), NEW j \in 1 .. Len(r) + 1, NEW k \in 1 .. Len(r) + 1,
             s[j] = s[k]
      PROVE  j = k
  <2>1. \A m \in 1 .. Len(r) : s[m] = r[m] /\ r[m] # e
    BY <1>1, <1>3 DEF Slots
  <2>2. j # Len(r) + 1 => j \in 1 .. Len(r)
    BY <1>1
  <2>3. k # Len(r) + 1 => k \in 1 .. Len(r)
    BY <1>1
  <2> QED BY <1>1, <1>3, <2>1, <2>2, <2>3 DEF Distinct
<1> QED BY <1>1, <1>2, <1>3 DEF Distinct, s

\* Keep keeps what is in S, each element as often as it is there.
LEMMA KeepKeeps ==
  ASSUME NEW A, NEW q \in Seq(A), NEW S
  PROVE  /\ Keep(q, S) \in Seq(A)
         /\ Slots(Keep(q, S)) = Slots(q) \cap S
         /\ Distinct(q) => Distinct(Keep(q, S))
<1>1. PICK g : Kept(q, S, g) /\ Keep(q, S) = g[Len(q)]
  BY KeepBuilds
<1>2. Len(q) \in Nat /\ DOMAIN q = 1 .. Len(q)
  OBVIOUS
<1> DEFINE Front(n) == {q[k] : k \in 1 .. n}
           Good(n) == /\ g[n] \in Seq(A)
                      /\ Slots(g[n]) = Front(n) \cap S
                      /\ Distinct(q) => Distinct(g[n])
           G == {n \in Nat : n <= Len(q) => Good(n)}
<1>3. 0 \in G
  <2>1. Good(0)
    BY <1>1 DEF Kept, Slots, Distinct
  <2> QED BY <2>1
<1>4. ASSUME NEW n \in Nat, n \in G PROVE n + 1 \in G
  <2> SUFFICES ASSUME n + 1 <= Len(q) PROVE Good(n + 1)
    OBVIOUS
  <2>1. Good(n)
    BY <1>2, <1>4
  <2>2. n + 1 \in 1 .. Len(q) /\ q[n + 1] \in A
    BY <1>2
  <2>3. g[n + 1] = IF q[n + 1] \in S THEN Append(g[n], q[n + 1]) ELSE g[n]
    <3>1. (n + 1) - 1 = n
      OBVIOUS
    <3> QED BY <1>1, <2>2, <3>1 DEF Kept
  <2>4. Front(n + 1) = Front(n) \cup {q[n + 1]}
    <3>1. 1 .. n + 1 = (1 .. n) \cup {n + 1}
      OBVIOUS
    <3> QED BY <3>1
  <2>5. Distinct(q) => q[n + 1] \notin Front(n)
    BY <1>2, <2>2 DEF Distinct
  <2> HIDE DEF Front
  <2>6. CASE q[n + 1] \in S
    <3> DEFINE r == g[n]
               s == Append(r, q[n + 1])
    <3>1. r \in Seq(A) /\ Slots(r) = Front(n) \cap S /\ (Distinct(q) => Distinct(r))
      BY <2>1
    <3>2. g[n + 1] = s
      BY <2>3, <2>6
    <3> HIDE DEF r
    <3>3. /\ s \in Seq(A) /\ Slots(s) = Slots(r) \cup {q[n + 1]}
          /\ Distinct(r) /\ q[n + 1] \notin Slots(r) => Distinct(s)
      BY <2>2, <3>1, Appended
    <3> HIDE DEF s
    <3> QED BY <2>4, <2>5, <2>6, <3>1, <3>2, <3>3
  <2>7. CASE q[n + 1] \notin S
    BY <2>1, <2>3, <2>4, <2>7
  <2> QED BY <2>6, <2>7
<1>5. Len(q) \in G
  <2> HIDE DEF G
  <2>1. \A n \in Nat : n \in G
    BY <1>3, <1>4, SetInduction
  <2> QED BY <1>2, <2>1
<1>6. Good(Len(q)) /\ Front(Len(q)) = Slots(q)
  BY <1>2, <1>5 DEF Slots
<1> QED BY <1>1, <1>6

LEMMA Concatenated ==
  ASSUME NEW A, NEW q \in Seq(A), NEW r \in Seq(A)
  PROVE  /\ q \o r \in Seq(A) /\ Len(q \o r) = Len(q) + Len(r)
         /\ Slots(q \o r) = Slots(q) \cup Slots(r)
         /\ \A k \in 1 .. Len(q) : (q \o r)[k] = q[k]
         /\ Distinct(q) /\ Distinct(r) /\ Slots(q) \cap Slots(r) = {} => Distinct(q \o r)
<1> DEFINE s == q \o r
           m == Len(q)
           n == Len(r)
<1>1. /\ s \in Seq(A) /\ Len(s) = m + n /\ m \in Nat /\ n \in Nat
      /\ \A k \in 1 .. m : s[k] = q[k]
      /\ \A k \in 1 .. n : s[m + k] = r[k]
      /\ DOMAIN s = 1 .. m + n /\ DOMAIN q = 1 .. m /\ DOMAIN r = 1 .. n
  OBVIOUS
<1>2. \A k \in 1 .. m + n : k \in 1 .. m \/ (k - m \in 1 .. n /\ k = m + (k - m))
  BY <1>1
<1> HIDE DEF s, m, n
<1>3. Slots(s) = Slots(q) \cup Slots(r)
  <2>1. ASSUME NEW k \in 1 .. m + n PROVE s[k] \in Slots(q) \cup Slots(r)
    <3>1. CASE k \in 1 .. m
      BY <1>1, <3>1 DEF Slots
    <3>2. CASE k - m \in 1 .. n /\ k = m + (k - m)
      <4> DEFINE i == k - m
      <4>1. i \in 1 .. n /\ s[m + i] = r[i] /\ s[k] = s[m + i]
        BY <1>1, <3>2
      <4> HIDE DEF i
      <4> QED BY <1>1, <4>1 DEF Slots
    <3> QED BY <1>2, <3>1, <3>2
  <2>2. ASSUME NEW k \in 1 .. m PROVE q[k] \in Slots(s)
    <3>1. k \in 1 .. m + n /\ q[k] = s[k]
      BY <1>1
    <3> QED BY <1>1, <3>1 DEF Slots
  <2>3. ASSUME NEW k \in 1 .. n PROVE r[k] \in Slots(s)
    <3>1. m + k \in 1 .. m + n /\ r[k] = s[m + k]
      BY <1>1
    <3> QED BY <1>1, <3>1 DEF Slots
  <2> QED BY <1>1, <2>1, <2>2, <2>3 DEF Slots
<1>4. ASSUME Distinct(q), Distinct(r), Slots(q) \cap Slots(r) = {},
             NEW j \in 1 .. m + n, NEW k \in 1 .. m + n, s[j] = s[k]
      PROVE  j = k
  <2>1. CASE j \in 1 .. m /\ k \in 1 .. m
    BY <1>1, <1>4, <2>1 DEF Distinct
  <2>2. ASSUME NEW a \in 1 .. m, NEW b \in 1 .. n, s[a] = s[m + b] PROVE FALSE
    <3>1. q[a] = r[b] /\ q[a] \in Slots(q) /\ r[b] \in Slots(r)
      BY <1>1, <2>2 DEF Slots
    <3> QED BY <1>4, <3>1
  <2>3. CASE j \notin 1 .. m /\ k \notin 1 .. m
    <3>1. j - m \in 1 .. n /\ k - m \in 1 .. n /\ j = m + (j - m) /\ k = m + (k - m)
      BY <1>2, <2>3
    <3> DEFINE a == j - m  b == k - m
    <3>2. r[a] = r[b]
      BY <1>1, <1>4, <3>1
    <3>3. a = b
      BY <1>1, <1>4, <3>1, <3>2 DEF Distinct
    <3> QED BY <3>1, <3>3
  <2> QED BY <1>1, <1>2, <1>4, <2>1, <2>2, <2>3
<1> QED BY <1>1, <1>3, <1>4 DEF Distinct, s, m, n

-----------------------------------------------------------------------------
(* Sequences without an end. *)

LEMMA StepsForever ==
  ASSUME NEW S, NEW a \in S, NEW h \in [S -> S]
  PROVE  \E f \in [Nat -> S] : f[0] = a /\ \A n \in Nat : f[n + 1] = h[f[n]]
<1> DEFINE Good(f, n) == f \in [0 .. n -> S] /\ f[0] = a /\ \A k \in 1 .. n : f[k] = h[f[k - 1]]
           upto(n) == CHOOSE f : Good(f, n)
           all == [n \in Nat |-> upto(n)[n]]
<1>1. ASSUME NEW n \in Nat PROVE Good(upto(n), n)
  <2> DEFINE g == [p \in (1 .. n) \X S |-> h[p[2]]]
  <2>1. g \in Steps(n, S)
    BY DEF Steps
  <2>2. \A k \in 1 .. n, v \in S : g[<<k, v>>] = h[v]
    OBVIOUS
  <2> HIDE DEF g
  <2>3. PICK f \in [0 .. n -> S] : Iterates(f, n, a, g)
    BY <2>1, StepByStep
  <2>4. \A k \in 1 .. n : k - 1 \in 0 .. n
    OBVIOUS
  <2>5. Good(f, n)
    BY <2>2, <2>3, <2>4 DEF Iterates
  <2> HIDE DEF Good
  <2> QED BY <2>5
<1> HIDE DEF upto
<1>2. ASSUME NEW n \in Nat, NEW f, Good(f, n + 1) PROVE f[n] = upto(n)[n]
  <2> DEFINE G == {k \in Nat : k <= n => f[k] = upto(n)[k]}
  <2>1. Good(upto(n), n)
    BY <1>1
  <2>2. 0 \in G
    BY <1>2, <2>1
  <2>3. ASSUME NEW k \in Nat, k \in G PROVE k + 1 \in G
    <3> SUFFICES ASSUME k + 1 <= n PROVE f[k + 1] = upto(n)[k + 1]
      OBVIOUS
    <3>1. k + 1 \in 1 .. n /\ k + 1 \in 1 .. n + 1 /\ (k + 1) - 1 = k /\ k <= n
      OBVIOUS
    <3>2. f[k] = upto(n)[k]
      BY <2>3, <3>1
    <3>3. f[k + 1] = h[f[k]]
      BY <1>2, <3>1
    <3>4. upto(n)[k + 1] = h[upto(n)[k]]
      BY <2>1, <3>1
    <3> QED BY <3>2, <3>3, <3>4
  <2> HIDE DEF G
  <2>4. n \in G
    BY <2>2, <2>3, SetInduction
  <2> QED BY <2>4 DEF G
<1>3. \A n \in Nat : all[n] = upto(n)[n] /\ upto(n)[n] \in S
  BY <1>1
<1>4. all[0] = a
  BY <1>1, <1>3
<1>5. ASSUME NEW n \in Nat PROVE all[n + 1] = h[all[n]]
  <2>1. n + 1 \in Nat /\ n + 1 \in 1 .. n + 1 /\ (n + 1) - 1 = n
    OBVIOUS
  <2> DEFINE f == upto(n + 1)
  <2>2. Good(f, n + 1)
    BY <1>1, <2>1
  <2>3. all[n + 1] = f[n + 1] /\ all[n] = upto(n)[n]
    BY <1>3, <2>1
  <2> HIDE DEF f
  <2>4. f[n] = upto(n)[n]
    BY <1>2, <2>2
  <2>5. f[n + 1] = h[f[n]]
    BY <2>1, <2>2
  <2> QED BY <2>3, <2>4, <2>5
<1>6. all \in [Nat -> S]
  BY <1>3
<1> HIDE DEF all
<1> QED BY <1>4, <1>5, <1>6

-----------------------------------------------------------------------------
(* Parts of a sequence. *)

LEMMA WiderSeq == ASSUME NEW A, NEW B, A \subseteq B, NEW s \in Seq(A) PROVE s \in Seq(B)
<1>1. Len(s) \in Nat /\ s \in [1 .. Len(s) -> A]
  OBVIOUS
<1>2. s \in [1 .. Len(s) -> B]
  BY <1>1
<1> QED BY <1>1, <1>2

LEMMA Part ==
  ASSUME NEW S, NEW s \in Seq(S), NEW j \in Nat \ {0}, NEW k \in Nat, k <= Len(s)
  PROVE  /\ SubSeq(s, j, k) \in Seq(S) /\ Len(SubSeq(s, j, k)) = IF j <= k THEN k - j + 1 ELSE 0
         /\ SubSeq(s, j, k) = [i \in 1 .. k - j + 1 |-> s[j + i - 1]]
         /\ j > k => SubSeq(s, j, k) = <<>>
OBVIOUS

\* A part that ends one later has one element more.
LEMMA LongerPart ==
  ASSUME NEW S, NEW s \in Seq(S), NEW j \in Nat \ {0}, NEW k \in Nat, k < Len(s), j <= k + 1
  PROVE  SubSeq(s, j, k + 1) = Append(SubSeq(s, j, k), s[k + 1])
<1> DEFINE p == SubSeq(s, j, k)
           q == SubSeq(s, j, k + 1)
           r == Append(p, s[k + 1])
<1>1. Len(s) \in Nat
  OBVIOUS
<1>2. p \in Seq(S) /\ Len(p) = k - j + 1 /\ p = [i \in 1 .. k - j + 1 |-> s[j + i - 1]]
  BY <1>1, Part
<1>3. q = [i \in 1 .. (k + 1) - j + 1 |-> s[j + i - 1]]
  BY <1>1, Part
<1>4. s[k + 1] \in S
  BY <1>1
<1> HIDE DEF p, q
<1>5. r = [i \in 1 .. Len(p) + 1 |-> IF i = Len(p) + 1 THEN s[k + 1] ELSE p[i]]
  BY <1>2, <1>4
<1> HIDE DEF r
<1>6. \A i \in 1 .. k - j + 2 : s[j + i - 1] = IF i = k - j + 2 THEN s[k + 1] ELSE p[i]
  <2> SUFFICES ASSUME NEW i \in 1 .. k - j + 2
               PROVE  s[j + i - 1] = IF i = k - j + 2 THEN s[k + 1] ELSE p[i]
    OBVIOUS
  <2>1. CASE i = k - j + 2
    <3>1. j + i - 1 = k + 1
      BY <2>1
    <3> QED BY <2>1, <3>1
  <2>2. CASE i # k - j + 2
    <3>1. i \in 1 .. k - j + 1
      BY <2>2
    <3> QED BY <1>2, <2>2, <3>1
  <2> QED BY <2>1, <2>2
<1>7. Len(p) + 1 = k - j + 2 /\ (k + 1) - j + 1 = k - j + 2
  BY <1>2
<1>8. q = r
  BY <1>3, <1>5, <1>6, <1>7
<1> QED BY <1>8 DEF p, q, r

\* What is appended is in no part that ended before.
LEMMA SamePart ==
  ASSUME NEW S, NEW s \in Seq(S), NEW e \in S, NEW j \in Nat \ {0}, NEW k \in Nat, k <= Len(s)
  PROVE  SubSeq(Append(s, e), j, k) = SubSeq(s, j, k)
<1> DEFINE r == Append(s, e)
<1>1. Len(s) \in Nat /\ r \in Seq(S) /\ Len(r) = Len(s) + 1 /\ \A i \in 1 .. Len(s) : r[i] = s[i]
  OBVIOUS
<1> HIDE DEF r
<1>2. /\ SubSeq(s, j, k) = [i \in 1 .. k - j + 1 |-> s[j + i - 1]]
      /\ SubSeq(r, j, k) = [i \in 1 .. k - j + 1 |-> r[j + i - 1]]
  BY <1>1, Part
<1>3. \A i \in 1 .. k - j + 1 : r[j + i - 1] = s[j + i - 1]
  <2> SUFFICES ASSUME NEW i \in 1 .. k - j + 1 PROVE r[j + i - 1] = s[j + i - 1]
    OBVIOUS
  <2>1. j + i - 1 \in 1 .. Len(s)
    BY <1>1
  <2> QED BY <1>1, <2>1
<1>4. SubSeq(r, j, k) = SubSeq(s, j, k)
  BY <1>2, <1>3
<1> QED BY <1>4 DEF r

\* A part of a beginning is a part.
LEMMA PartOfPart ==
  ASSUME NEW S, NEW s \in Seq(S), NEW n \in Nat, n <= Len(s), NEW j \in Nat \ {0}, NEW k \in Nat, k <= n
  PROVE  SubSeq(SubSeq(s, 1, n), j, k) = SubSeq(s, j, k)
<1> DEFINE r == SubSeq(s, 1, n)
<1>1. Len(s) \in Nat /\ r \in Seq(S) /\ Len(r) = n /\ \A i \in 1 .. n : r[i] = s[i]
  OBVIOUS
<1> HIDE DEF r
<1>2. /\ SubSeq(s, j, k) = [i \in 1 .. k - j + 1 |-> s[j + i - 1]]
      /\ SubSeq(r, j, k) = [i \in 1 .. k - j + 1 |-> r[j + i - 1]]
  BY <1>1, Part
<1>3. \A i \in 1 .. k - j + 1 : r[j + i - 1] = s[j + i - 1]
  <2> SUFFICES ASSUME NEW i \in 1 .. k - j + 1 PROVE r[j + i - 1] = s[j + i - 1]
    OBVIOUS
  <2>1. j + i - 1 \in 1 .. n
    OBVIOUS
  <2> QED BY <1>1, <2>1
<1>4. SubSeq(r, j, k) = SubSeq(s, j, k)
  BY <1>2, <1>3
<1> QED BY <1>4 DEF r
=============================================================================
