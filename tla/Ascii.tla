-------------------------------- MODULE Ascii --------------------------------
(* Codes of the characters that the parsers of hw1 and hw4 look for, and what  *)
(* the place of a digit makes it count for.                                    *)
EXTENDS Integers

Newline == 10
Space   == 32
Comma   == 44
Dash    == 45
Zero    == 48
Nine    == 57
Brace   == 123

Digit(ch) == ch \in Zero .. Nine

Power[n \in Nat] == IF n = 0 THEN 1 ELSE 10 * Power[n - 1]
=============================================================================
