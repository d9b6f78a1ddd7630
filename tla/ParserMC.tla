------------------------------ MODULE ParserMC ------------------------------
(***************************************************************************)
(* The two parsers of the repository in one run: the commands of hw1, and  *)
(* the movies and requests of hw4.  They have nothing to do with each      *)
(* other, so one is fed while the other has not begun.                     *)
(***************************************************************************)
EXTENDS CommandParser, MovieInput

\* With MAX_LEN = 13, a line with the title a a and the genres 0 and 12 takes
\* the whole buffer; with the title of five letters the newline, or half of the
\* last genre as well, has no room.  The second header and the first keywords are
\* the longest that fit.  What is cut off of the other keywords is taken for the
\* genres, and the next request begins with 12,0 or with a letter.
Letters(n) == [k \in 1 .. n |-> 97]
Headers == {Letters(1), Letters(11), Letters(13)}
Rows == [movieId : {7}, title : {Letters(1), Letters(1) \o <<Space>> \o Letters(1), Letters(5)},
         profile : {<<0, 7>>, <<0, 12>>}]
Keywords == {Letters(12), Letters(13) \o <<Comma, 97>>,
             Letters(13) \o <<Comma>> \o Letters(11)}
Wishes == [id : {3}, keywords : Keywords, profile : {<<12, 0>>}]

ParserInit == Init /\ InputInit
ParserNext == \/ pc = "start" /\ Type /\ UNCHANGED inputVars
              \/ buf = <<>> /\ InputNext /\ UNCHANGED buf
ParserSpec == ParserInit /\ [][ParserNext]_<<buf, inputVars>>
=============================================================================
