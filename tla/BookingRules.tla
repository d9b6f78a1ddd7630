---------------------------- MODULE BookingRules ----------------------------
(***************************************************************************)
(* The arithmetic of a booking command: what checkcommand of               *)
(* hw1_csiebooking-lala-ju/server.c decides about a parsed command and the *)
(* record it leaves behind.  A record holds one C int per object; a change *)
(* is the triple of signed amounts the command asks for.  Every sum the    *)
(* code computes is a C int, so it is reduced to the range of that type.   *)
(***************************************************************************)
EXTENDS Integers

CONSTANTS
  MaxTotal,  \* items one user may hold: 15 in the code
  IntMax     \* INT_MAX; 2^31-1 on the machine, smaller in the checked instances

ASSUME RulesAssumption == /\ IntMax \in Nat
                          /\ MaxTotal \in 0 .. IntMax

CInt == (- IntMax - 1) .. IntMax

\* The value an int holds after a computation whose exact result is n: the
\* two's complement wrap-around of the unoptimised build (Makefile: no -O).
Wrap(n) == ((n + IntMax + 1) % (2 * IntMax + 2)) - (IntMax + 1)

Triple == [food : CInt, concert : CInt, elecs : CInt]

Total(t) == t.food + t.concert + t.elecs

\* The record after the three `+=`.
Applied(rec, change) ==
  [ food    |-> Wrap(rec.food + change.food),
    concert |-> Wrap(rec.concert + change.concert),
    elecs   |-> Wrap(rec.elecs + change.elecs) ]

\* Mutant of NoNegative: one of the three tests left out.
NoNegativeButConcert(rec) == rec.food >= 0 /\ rec.elecs >= 0

NoNegative(rec) == rec.food >= 0 /\ rec.concert >= 0 /\ rec.elecs >= 0

\* Mutant of Verdict: the limit itself is exceeded by one.
VerdictOffByOne(rec, change) ==
  CASE Wrap(Total(rec) + Total(change)) > MaxTotal + 1 -> "exceed"
    [] /\ Wrap(Total(rec) + Total(change)) <= MaxTotal + 1
       /\ ~ NoNegative(Applied(rec, change))           -> "negative"
    [] OTHER                                           -> "ok"

\* What checkcommand returns for a command that parsed: 1, 2 or 0, in the order
\* in which it tests.
Verdict(rec, change) ==
  CASE Wrap(Total(rec) + Total(change)) > MaxTotal -> "exceed"
    [] /\ Wrap(Total(rec) + Total(change)) <= MaxTotal
       /\ ~ NoNegative(Applied(rec, change))       -> "negative"
    [] OTHER                                       -> "ok"

\* The limits the two error messages of the write server announce.
WithinLimits(rec) == NoNegative(rec) /\ Total(rec) <= MaxTotal
=============================================================================
