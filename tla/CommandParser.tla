---------------------------- MODULE CommandParser ----------------------------
(***************************************************************************)
(* The parser inside checkcommand (hw1_csiebooking-lala-ju/server.c): it   *)
(* reads a booking command from its last character to its first, keeping   *)
(* the number under construction and how many spaces it has met.  The      *)
(* state is the line a user has typed so far; each key is one step.        *)
(***************************************************************************)
EXTENDS BookingRules, Ascii, Sequences

CONSTANTS
  Char,       \* characters typed, as their codes
  MaxLength   \* bound: characters of a line

VARIABLE buf
vars == <<buf>>

ASSUME ParserAssumption == Char \subseteq 1 .. 127 /\ MaxLength \in Nat

\* A digit counts by its distance from the end of its word.  A power of ten that
\* an int cannot hold is the least int when the code converts it from a double.
Place(ch, distance) ==
  Wrap((ch - Zero) * (IF Power[distance] <= IntMax THEN Power[distance] ELSE - IntMax - 1))

\* Before the last character: no space met, nothing read.
Begin(line) == [end |-> Len(line), spaces |-> 0, new |-> 0,
                food |-> 0, concert |-> 0, elecs |-> 0, bad |-> FALSE]

\* Mutant of EndWord: the number is not started anew.
EndWordKeepsNumber(p, k) ==
  [p EXCEPT !.end = k - 1, !.spaces = @ + 1,
            !.elecs   = IF p.spaces = 0 THEN p.new ELSE @,
            !.concert = IF p.spaces = 1 THEN p.new ELSE @]

\* A space ends the word to its right: the last word is electronics, the one
\* before concert; any further one is dropped.
EndWord(p, k) ==
  [p EXCEPT !.end = k - 1, !.spaces = @ + 1, !.new = 0,
            !.elecs   = IF p.spaces = 0 THEN p.new ELSE @,
            !.concert = IF p.spaces = 1 THEN p.new ELSE @]

\* Mutant of MisplacedDash: dashes go anywhere.
MisplacedDashNever(line, k) == FALSE

\* A dash must have a space before it; the code does not look at the first
\* character for it.
MisplacedDash(line, k) == k > 2 /\ line[k - 1] # Space

\* What the character at k does to the parse of those to its right.
Scan(line, k, p) ==
  LET ch == line[k] IN
  IF p.bad THEN p
  ELSE IF Digit(ch) THEN [p EXCEPT !.new = Wrap(@ + Place(ch, p.end - k))]
  ELSE IF ch = Dash /\ ~ MisplacedDash(line, k) THEN [p EXCEPT !.new = Wrap(- @)]
  ELSE IF ch = Space /\ k > 1 THEN EndWord(p, k)
  ELSE [p EXCEPT !.bad = TRUE]

\* The word the line begins with is food, how many others there may be.
Parse(line) ==
  LET from[k \in 1 .. Len(line) + 1] ==
        IF k > Len(line) THEN Begin(line) ELSE Scan(line, k, from[k + 1])
  IN [from[1] EXCEPT !.food = from[1].new]

Amounts(p) == [food |-> p.food, concert |-> p.concert, elecs |-> p.elecs]

Init == buf = <<>>
Type == Len(buf) < MaxLength /\ \E ch \in Char : buf' = Append(buf, ch)
Next == Type
Spec == Init /\ [][Next]_vars

-----------------------------------------------------------------------------
(* The format the tests of the repository use: three integers with one     *)
(* space between them.                                                     *)

Spaces(line) == {k \in DOMAIN line : line[k] = Space}

\* The words of a line with two spaces.
Words(line) ==
  LET a == CHOOSE k \in Spaces(line) : \A l \in Spaces(line) : k <= l
      b == CHOOSE k \in Spaces(line) : \A l \in Spaces(line) : k >= l
  IN << SubSeq(line, 1, a - 1), SubSeq(line, a + 1, b - 1), SubSeq(line, b + 1, Len(line)) >>

TwoSpaces(line) == \E a, b \in Spaces(line) : a # b /\ Spaces(line) = {a, b}

Digits(w) == w # <<>> /\ \A k \in DOMAIN w : Digit(w[k])
IsInteger(w) == \/ Digits(w)
                \/ w # <<>> /\ Head(w) = Dash /\ Digits(Tail(w))
WellFormed(line) == TwoSpaces(line) /\ \A n \in 1 .. 3 : IsInteger(Words(line)[n])

Natural(w) ==
  LET upto[k \in 0 .. Len(w)] ==
        IF k = 0 THEN 0 ELSE 10 * upto[k - 1] + (w[k] - Zero)
  IN upto[Len(w)]
Value(w) == IF Head(w) = Dash THEN - Natural(Tail(w)) ELSE Natural(w)

\* A command in that format, with amounts that an int can hold, is understood,
\* each amount with its sign and every digit in its place, although the parser
\* reads from the right.
WellFormedUnderstood ==
  WellFormed(buf) /\ (\A n \in 1 .. 3 : Value(Words(buf)[n]) \in CInt) =>
    /\ ~ Parse(buf).bad
    /\ Amounts(Parse(buf)) = [ food    |-> Value(Words(buf)[1]),
                               concert |-> Value(Words(buf)[2]),
                               elecs   |-> Value(Words(buf)[3]) ]

\* The parser accepts no line with a character that belongs in no number, and
\* of the words after the first it accepts none with a dash behind a digit.
ForeignRefused ==
  /\ (\E k \in DOMAIN buf : ~ Digit(buf[k]) /\ buf[k] \notin {Dash, Space}) => Parse(buf).bad
  /\ (\E k \in DOMAIN buf : k > 2 /\ buf[k] = Dash /\ Digit(buf[k - 1])) => Parse(buf).bad
=============================================================================
