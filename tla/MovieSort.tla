------------------------------ MODULE MovieSort ------------------------------
(***************************************************************************)
(* hw4_simple-movies-recommendation-system-lala-ju: for each request the   *)
(* movies whose title has the keyword, best score first, sorted by threads *)
(* over shared arrays (-D THREAD) or by forked processes over shared       *)
(* memory (-D PROCESS).  main, or the merge thread of a request, hands out *)
(* ranges of the array to workers and joins them all before it hands out   *)
(* the next ones.  A worker reads its range, and later writes it.  A fork  *)
(* may fail: main does not look at what it returns.                        *)
(***************************************************************************)
EXTENDS Queues, FiniteSets

CONSTANTS
  Build,      \* "THREAD" (tserver) or "PROCESS" (pserver)
  Request,    \* the requests read from the input
  First,      \* reqs[0], the only one that pserver answers
  Movies,     \* the titles in the order of movies.txt, as their rank for strcmp
  Matches,    \* Matches[n]: sets of titles the keyword of n may select
  Scores,     \* the scores a movie may get
  Threshold,  \* list lengths beyond which base doubles: 2000, 5000, 10000, ...
  MaxForkFailures  \* bound: forks that fail

Title == Slots(Movies)

ASSUME MoviesAssumption ==
  /\ Build \in {"THREAD", "PROCESS"} /\ First \in Request
  /\ Movies \in Seq(Nat) /\ \A j, k \in DOMAIN Movies : Movies[j] = Movies[k] => j = k
  /\ Matches \in [Request -> SUBSET SUBSET Title]
  /\ MaxForkFailures \in Nat /\ (Build = "THREAD" => MaxForkFailures = 0)
  /\ Scores \subseteq Nat /\ Threshold \subseteq Nat /\ IsFiniteSet(Threshold)

Handled == IF Build = "PROCESS" THEN {First} ELSE Request

VARIABLES
  match,     \* match[n]: the titles with the keyword of n
  score,     \* score[n][m]: the product of the two profiles
  list,      \* d[n].moviename and d[n].moviescore; name and score in pserver
  base,      \* ranges of the present level
  size,      \* length of a range; the last has the remainder as well
  stage,     \* what is being done for request n
  work,      \* work[n][i]: worker i of the present level
  waited,    \* waited[n]: waitpid() calls main has made for it
  failures,  \* forks that have failed so far
  out,       \* the lines of n's output file
  crashed    \* the program has died of a signal

input == <<match, score>>
children == <<work, waited, failures>>
vars == <<input, list, base, size, stage, children, out, crashed>>

Entry == [title : Title, score : Nat]
New == [at |-> "new", buf |-> <<>>]
Unborn == [at |-> "unborn", buf |-> <<>>]   \* pid -1

TypeOK ==
  /\ \A n \in Request : match[n] \in Matches[n] /\ score[n] \in [match[n] -> Scores]
  /\ list \in [Request -> Seq(Entry)]
  /\ base \in [Request -> Nat] /\ size \in [Request -> Nat]
  /\ \A n \in Request : base[n] * size[n] <= Len(list[n])
  /\ stage \in [Request -> {"cal", "scored", "sort", "merge", "written", "dropped"}]
  /\ \A n \in Request : \A i \in DOMAIN work[n] :
       work[n][i] \in [at : {"new", "computed", "done", "unborn", "reaped"}, buf : Seq(Entry)]
  /\ waited \in [Request -> Nat] /\ failures \in 0 .. MaxForkFailures
  /\ out \in [Request -> Seq(Title)]
  /\ crashed \in BOOLEAN

Init ==
  /\ match \in {f \in [Request -> SUBSET Title] : \A n \in Request : f[n] \in Matches[n]}
  /\ score \in {f \in [Request -> UNION {[M -> Scores] : M \in SUBSET Title}] :
                 \A n \in Request : DOMAIN f[n] = match[n]}
  /\ list = [n \in Request |-> <<>>]
  /\ base = [n \in Request |-> 0] /\ size = [n \in Request |-> 0]
  /\ stage = [n \in Request |-> "cal"]
  /\ work = [n \in Request |-> <<>>] /\ waited = [n \in Request |-> 0] /\ failures = 0
  /\ out = [n \in Request |-> <<>>]
  /\ crashed = FALSE

-----------------------------------------------------------------------------
(* What the workers compute. *)

\* The order of argmax and of both merges.
Before(x, y) == x.score > y.score \/ (x.score = y.score /\ x.title < y.title)

\* Where the best of s[first], s[first + 1], ... is.
argmax(s, first) ==
  LET ret[k \in first .. Len(s)] ==
        IF k = first THEN k ELSE IF Before(s[k], s[ret[k - 1]]) THEN k ELSE ret[k - 1]
  IN ret[Len(s)]

Swapped(s, j, k) == [s EXCEPT ![j] = s[k], ![k] = s[j]]

\* sort() of lib.c: the best of the rest to the front, again and again.  The
\* secret it adds to a title begins with a tab and leaves the order as it is.
Sort(s) ==
  LET after[i \in 0 .. Len(s) - 1] ==
        IF i = 0 THEN s ELSE Swapped(after[i - 1], i, argmax(after[i - 1], i))
  IN after[Len(s) - 1]

\* What the left run has left when the right one is used up.  pserver gives
\* each of them the score of the first.
Spill(s) == IF Build = "THREAD" THEN s
            ELSE [k \in DOMAIN s |-> [s[k] EXCEPT !.score = s[1].score]]

\* Mutants of Merged: of two equal scores the right one goes first; what is left
\* of the left run is forgotten.
MergedByScore(l, r) ==
  LET from[p \in (1 .. Len(l) + 1) \X (1 .. Len(r) + 1)] ==
        LET j == p[1]  k == p[2] IN
        IF j > Len(l) THEN SubSeq(r, k, Len(r))
        ELSE IF k > Len(r) THEN Spill(SubSeq(l, j, Len(l)))
        ELSE IF l[j].score > r[k].score THEN <<l[j]>> \o from[<<j + 1, k>>]
                                        ELSE <<r[k]>> \o from[<<j, k + 1>>]
  IN from[<<1, 1>>]

MergedWithoutRest(l, r) ==
  LET from[p \in (1 .. Len(l) + 1) \X (1 .. Len(r) + 1)] ==
        LET j == p[1]  k == p[2] IN
        IF j > Len(l) THEN SubSeq(r, k, Len(r))
        ELSE IF k > Len(r) THEN <<>>
        ELSE IF Before(l[j], r[k]) THEN <<l[j]>> \o from[<<j + 1, k>>]
                                   ELSE <<r[k]>> \o from[<<j, k + 1>>]
  IN from[<<1, 1>>]

\* From the heads p of the two runs on.
Merged(l, r) ==
  LET from[p \in (1 .. Len(l) + 1) \X (1 .. Len(r) + 1)] ==
        LET j == p[1]  k == p[2] IN
        IF j > Len(l) THEN SubSeq(r, k, Len(r))
        ELSE IF k > Len(r) THEN Spill(SubSeq(l, j, Len(l)))
        ELSE IF Before(l[j], r[k]) THEN <<l[j]>> \o from[<<j + 1, k>>]
                                   ELSE <<r[k]>> \o from[<<j, k + 1>>]
  IN from[<<1, 1>>]

\* The range of worker i, counted from 0, is Start + 1 .. End.
Start(n, i) == size[n] * i
Middle(n, i) == Start(n, i) + size[n] \div 2

\* Mutant of End: the remainder is given to everyone.
EndWithRest(n, i) ==
  LET all == size[n] * (i + 1) + (Len(list[n]) % base[n])
  IN IF all > Len(list[n]) THEN Len(list[n]) ELSE all

End(n, i) == IF i = base[n] - 1 THEN Len(list[n]) ELSE size[n] * (i + 1)

-----------------------------------------------------------------------------
(* cal: the list of a request, and the number of ranges it is cut into. *)

\* Mutant of Base: more ranges than there are movies.
BaseOfFew(count) == 2 ^ (Cardinality({t \in Threshold : count > t}) + 2)

Base(count) ==
  LET passed == Cardinality({t \in Threshold : count > t})
      doubled[k \in 0 .. passed] == IF k = 0 THEN 1 ELSE 2 * doubled[k - 1]
  IN doubled[passed]

Cal(n) ==
  LET found == Keep(Movies, match[n]) IN
  /\ stage[n] = "cal"
  /\ list' = [list EXCEPT ![n] =
                [k \in DOMAIN found |-> [title |-> found[k], score |-> score[n][found[k]]]]]
  /\ base' = [base EXCEPT ![n] = Base(Len(found))]
  /\ size' = [size EXCEPT ![n] = Len(found) \div base'[n]]
  /\ stage' = [stage EXCEPT ![n] = "scored"]
  /\ UNCHANGED <<input, children, out, crashed>>

-----------------------------------------------------------------------------
(* main and merge: workers are made, joined, and made anew. *)

Joined(n) == IF Build = "THREAD" THEN \A i \in DOMAIN work[n] : work[n][i].at = "done"
                                 ELSE waited[n] = base[n]

\* A worker for each of n's ranges, but where fork() fails.
Employ(ns) ==
  \E failed \in SUBSET (0 .. base'[First] - 1) :
    /\ Cardinality(failed) + failures <= MaxForkFailures
    /\ failures' = failures + Cardinality(failed)
    /\ work' = [n \in Request |->
         IF n \notin ns THEN work[n]
         ELSE [i \in 0 .. base'[n] - 1 |-> IF i \in failed THEN Unborn ELSE New]]
    /\ waited' = [n \in Request |-> IF n \in ns THEN 0 ELSE waited[n]]

\* All lists are there: sorting begins.
StartSort ==
  /\ \A n \in Request : stage[n] = "scored"
  /\ stage' = [n \in Request |-> IF n \in Handled THEN "sort" ELSE "dropped"]
  /\ UNCHANGED <<input, list, base, size, out, crashed>>
  /\ Employ(Handled)

\* Mutant of Wait: the loop ends where there is no child.
WaitGivesUp(n) ==
  LET i == waited[n] IN
  /\ Build = "PROCESS" /\ stage[n] \in {"sort", "merge"} /\ waited[n] < base[n]
  /\ IF work[n][i].at = "unborn" THEN waited' = [waited EXCEPT ![n] = base[n]] /\ UNCHANGED work
     ELSE /\ work[n][i].at = "done"
          /\ work' = [work EXCEPT ![n][i].at = "reaped"]
          /\ waited' = [waited EXCEPT ![n] = @ + 1]
  /\ UNCHANGED <<input, list, base, size, stage, failures, out, crashed>>

\* pserver's waitpid() for one child after the other: for pid -1 any child will
\* do, and with none to wait for it returns at once.
Wait(n) ==
  LET i == waited[n]
      asked == IF work[n][i].at = "unborn" THEN DOMAIN work[n] ELSE {i}
      children_left == {j \in asked : work[n][j].at \notin {"unborn", "reaped"}} IN
  /\ Build = "PROCESS" /\ stage[n] \in {"sort", "merge"} /\ waited[n] < base[n]
  /\ \/ children_left = {} /\ UNCHANGED work
     \/ \E j \in children_left : /\ work[n][j].at = "done"
                                 /\ work' = [work EXCEPT ![n][j].at = "reaped"]
  /\ waited' = [waited EXCEPT ![n] = @ + 1]
  /\ UNCHANGED <<input, list, base, size, stage, failures, out, crashed>>

\* tserver joins the sorting threads of all requests before it starts a merge.
AllSorted == \A n \in Handled : stage[n] = "sort" => Joined(n)

\* Mutants of NextLevel: the workers are not joined; base stays what it was.
NextLevelUnjoined(n) ==
  /\ stage[n] \in {"sort", "merge"} /\ AllSorted
  /\ base[n] > 1 /\ \E i \in DOMAIN work[n] : work[n][i].at = "done"
  /\ stage' = [stage EXCEPT ![n] = "merge"]
  /\ base' = [base EXCEPT ![n] = @ \div 2] /\ size' = [size EXCEPT ![n] = 2 * @]
  /\ UNCHANGED <<input, list, out, crashed>>
  /\ Employ({n})

NextLevelWide(n) ==
  /\ stage[n] \in {"sort", "merge"} /\ AllSorted
  /\ base[n] > 1 /\ Joined(n)
  /\ stage' = [stage EXCEPT ![n] = "merge"]
  /\ size' = [size EXCEPT ![n] = 2 * @]
  /\ UNCHANGED <<input, list, base, out, crashed>>
  /\ Employ({n})

\* Half as many workers merge pairs of ranges.
NextLevel(n) ==
  /\ stage[n] \in {"sort", "merge"} /\ AllSorted
  /\ base[n] > 1 /\ Joined(n)
  /\ stage' = [stage EXCEPT ![n] = "merge"]
  /\ base' = [base EXCEPT ![n] = @ \div 2] /\ size' = [size EXCEPT ![n] = 2 * @]
  /\ UNCHANGED <<input, list, out, crashed>>
  /\ Employ({n})

\* The lines of the output file.
wr(n) == [k \in DOMAIN list[n] |-> list[n][k].title]

\* Mutant of Write: a request does not wait for the others.
WriteAlone(n) ==
  /\ stage[n] \in {"sort", "merge"} /\ base[n] = 1 /\ Joined(n)
  /\ out' = [out EXCEPT ![n] = wr(n)]
  /\ stage' = [stage EXCEPT ![n] = "written"]
  /\ UNCHANGED <<input, list, base, size, children, crashed>>

\* The output is written when all merges are over.
Write(n) ==
  /\ stage[n] \in {"sort", "merge"}
  /\ \A m \in Handled : stage[m] = "written" \/ (base[m] = 1 /\ Joined(m))
  /\ out' = [out EXCEPT ![n] = wr(n)]
  /\ stage' = [stage EXCEPT ![n] = "written"]
  /\ UNCHANGED <<input, list, base, size, children, crashed>>

-----------------------------------------------------------------------------
(* The workers. *)

Slice(n, i) == SubSeq(list[n], Start(n, i) + 1, End(n, i))

Compute(n, i) ==
  /\ work[n][i].at = "new" /\ (stage[n] = "sort" => Slice(n, i) # <<>>)
  /\ work' = [work EXCEPT ![n][i] =
       [at  |-> "computed",
        buf |-> IF stage[n] = "sort" THEN Sort(Slice(n, i))
                ELSE Merged(SubSeq(list[n], Start(n, i) + 1, Middle(n, i)),
                            SubSeq(list[n], Middle(n, i) + 1, End(n, i)))]]
  /\ UNCHANGED <<input, list, base, size, stage, waited, failures, out, crashed>>

Store(n, i) ==
  /\ work[n][i].at = "computed"
  /\ list' = [list EXCEPT ![n] =
       [k \in DOMAIN @ |-> IF k - Start(n, i) \in DOMAIN work[n][i].buf
                           THEN work[n][i].buf[k - Start(n, i)] ELSE @[k]]]
  /\ work' = [work EXCEPT ![n][i] = [at |-> "done", buf |-> <<>>]]
  /\ UNCHANGED <<input, base, size, stage, waited, failures, out, crashed>>

\* sort() of nothing takes what lies before the first title for a string.  In
\* tserver the titles are part of the static array d: before them are the numbers
\* at the end of the entry of the request before, or the bytes before d, which
\* are the address of no string.  In pserver a child sorts an array of its own,
\* and has nothing to store whether it survives or not.
SortNothing(n, i) ==
  /\ work[n][i].at = "new" /\ stage[n] = "sort" /\ Slice(n, i) = <<>>
  /\ IF Build = "THREAD" THEN crashed' = TRUE /\ UNCHANGED work
     ELSE work' = [work EXCEPT ![n][i] = [at |-> "done", buf |-> <<>>]] /\ UNCHANGED crashed
  /\ UNCHANGED <<input, list, base, size, stage, waited, failures, out>>

-----------------------------------------------------------------------------
Worker(n, i) == Compute(n, i) \/ Store(n, i) \/ SortNothing(n, i)

Running == \/ StartSort
           \/ \E n \in Request : Cal(n) \/ Wait(n) \/ NextLevel(n) \/ Write(n)
           \/ \E n \in Request : \E i \in DOMAIN work[n] : Worker(n, i)

Next == ~ crashed /\ Running

Spec == Init /\ [][Next]_vars

\* Threads and processes that can run do.
FairSpec == Spec /\ WF_vars(Next)

-----------------------------------------------------------------------------
(* Properties. *)

Ordered(s) == \A j, k \in DOMAIN s : j < k => ~ Before(s[k], s[j])

Listed(n) == /\ {out[n][k] : k \in DOMAIN out[n]} = match[n]
             /\ Len(out[n]) = Cardinality(match[n])
InOrder(n) ==
  Ordered([k \in DOMAIN out[n] |-> [title |-> out[n][k], score |-> score[n][out[n][k]]]])

\* The output of a request is what it asks for: every movie with the keyword
\* once, the better score first, equal scores in the order of their titles.
OutputSorted == \A n \in Request : stage[n] = "written" => Listed(n) /\ InOrder(n)

\* pserver's is, too, if no fork fails and the list takes one merge at most.
ShortOutputSorted ==
  \A n \in Request :
    stage[n] = "written" /\ failures = 0 /\ Base(Cardinality(match[n])) <= 2 => InOrder(n)

\* Whatever forks fail, and however the scores get mixed up, no movie is lost
\* and none doubled: ranges left unsorted or unmerged stay where they are.
NothingLost == \A n \in Request : stage[n] = "written" => Listed(n)

\* main goes on when no worker is at work any more, although waitpid(-1) takes
\* the child of another turn of the loop.
NoneAtWork ==
  \A n \in Request : stage[n] \in {"sort", "merge"} /\ Joined(n) =>
    \A i \in DOMAIN work[n] : work[n][i].at \notin {"new", "computed"}

\* Workers of one level share nothing: their ranges are disjoint, and together
\* they are the list, so nothing needs the mutex the program declares.
RangesPartition ==
  \A n \in Request : stage[n] \in {"sort", "merge"} =>
    \A k \in DOMAIN list[n] :
      Cardinality({i \in DOMAIN work[n] : k \in Start(n, i) + 1 .. End(n, i)}) = 1

\* What a finished worker leaves behind is in order, and stays so while others
\* are still at work.
DoneRangesOrdered ==
  \A n \in Request : \A i \in DOMAIN work[n] :
    work[n][i].at = "done" => Ordered(Slice(n, i))

\* When one request has no movies the program dies, and no other request has an
\* output file by then: the answers come all or not at all.
AllOrNone == crashed => \A n \in Request : stage[n] # "written"

\* The program ends, and answers every request it handles, if there are movies
\* to answer with.
Answered ==
  (\A n \in Handled : match[n] # {}) => <>(\A n \in Handled : stage[n] = "written")
=============================================================================
