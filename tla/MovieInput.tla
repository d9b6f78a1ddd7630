----------------------------- MODULE MovieInput -----------------------------
(***************************************************************************)
(* initialize() and read_request() of                                      *)
(* hw4_simple-movies-recommendation-system-lala-ju/server.c: the movies    *)
(* from a file, through a buffer of MAX_LEN characters that strtok cuts    *)
(* up, then the requests from the standard input.  The file is not in the  *)
(* repository; its format is what initialize() takes apart.                *)
(***************************************************************************)
EXTENDS Ascii, Integers, Sequences, FiniteSetsExt

CONSTANTS
  MAX_LEN, NUM_OF_GENRE, MAX_MOVIES, MAX_REQ,   \* the #defines of header.h
  Header,     \* first lines of the file
  Row,        \* movies a file may list: movieId, title, profile
  MaxRows,    \* bound: movies of a file
  Wish,       \* requests: id, keywords, profile
  MaxWishes   \* bound: requests of an input

\* The file and the input are text, cut up by the characters that are nowhere else.
ASSUME InputAssumption ==
  /\ MAX_LEN \in Nat /\ MAX_LEN > 2 /\ NUM_OF_GENRE \in Nat \ {0}
  /\ MAX_MOVIES \in Nat /\ MAX_REQ \in Nat /\ MaxRows \in Nat /\ MaxWishes \in Nat
  /\ Row \subseteq [movieId : Nat, title : Seq(Nat), profile : [1 .. NUM_OF_GENRE -> Nat]]
  /\ Wish \subseteq [id : Nat, keywords : Seq(Nat), profile : [1 .. NUM_OF_GENRE -> Nat]]
  /\ \A h \in Header : h \in Seq(Nat) /\ \A k \in DOMAIN h : h[k] \notin {Newline, Brace}
  /\ \A r \in Row : r.title # <<>> /\ \A k \in DOMAIN r.title : r.title[k] \notin {Newline, Brace}
  /\ \A w \in Wish : w.keywords # <<>>
                  /\ \A k \in DOMAIN w.keywords : w.keywords[k] \notin {Space, Newline}

VARIABLES
  source,   \* what the file and the input say: header, rows, wishes
  pc,       \* where initialize() is: start, header, rows, requests, ready; or
            \* how the program has ended: aborted by an assert, or crashed; or
            \* scanf has left variables unset, and it is not followed further
  text,     \* the characters of the file not yet read
  words,    \* the words of the standard input not yet read
  movies, num_of_reqs, reqs

inputVars == <<source, pc, text, words, movies, num_of_reqs, reqs>>

-----------------------------------------------------------------------------
(* The file and the input as they are written. *)

Decimal(n) ==
  LET size == CHOOSE k \in 1 .. n + 1 : n < Power[k] /\ \A j \in 1 .. k - 1 : Power[j] <= n
  IN [k \in 1 .. size |-> Zero + ((n \div Power[size - k]) % 10)]

Joined(parts) ==
  LET from[k \in 1 .. Len(parts) + 1] ==
        IF k > Len(parts) THEN <<>> ELSE parts[k] \o from[k + 1]
  IN from[1]

Listed(profile) ==
  Joined([k \in 1 .. NUM_OF_GENRE |->
            Decimal(profile[k]) \o IF k = NUM_OF_GENRE THEN <<>> ELSE <<Comma>>])

Line(r) == Decimal(r.movieId) \o <<Space>> \o r.title \o <<Space, Brace>> \o Listed(r.profile)
Request(w) == <<Decimal(w.id), w.keywords, Listed(w.profile)>>

\* The last line may end with the file.
Lines(s) == [k \in DOMAIN s.rows |->
               Line(s.rows[k]) \o IF k = Len(s.rows) /\ ~ s.ended THEN <<>> ELSE <<Newline>>]

File(s) == s.header \o <<Newline>> \o Joined(Lines(s))
Stdin(s) ==
  <<Decimal(Len(s.wishes))>> \o Joined([k \in DOMAIN s.wishes |-> Request(s.wishes[k])])

UpTo(n, S) == UNION {[1 .. k -> S] : k \in 0 .. n}

InputInit ==
  /\ pc = "start" /\ source = <<>> /\ text = <<>> /\ words = <<>>
  /\ movies = <<>> /\ num_of_reqs = 0 /\ reqs = <<>>

\* The program is started, with some file and some input.
Start ==
  /\ pc = "start" /\ pc' = "header"
  /\ source' \in [header : Header, rows : UpTo(MaxRows, Row), ended : BOOLEAN,
                  wishes : UpTo(MaxWishes, Wish)]
  /\ text' = File(source') /\ words' = Stdin(source')
  /\ UNCHANGED <<movies, num_of_reqs, reqs>>

-----------------------------------------------------------------------------
(* The C library, as far as it is used.  No token is empty: <<>> is NULL.  *)

\* The first place from k on where s has a character in, or not in, the set.
Find(s, k, chars) == Min({j \in k .. Len(s) : s[j] \in chars} \cup {Len(s) + 1})
Skip(s, k, chars) == Min({j \in k .. Len(s) : s[j] \notin chars} \cup {Len(s) + 1})

From(s, k) == SubSeq(s, k, Len(s))

\* strtok(s, delim), and the string that strtok(NULL, ...) goes on with.
strtok(s, delim) ==
  LET first == Skip(s, 1, {delim})
      end == Find(s, first, {delim})
  IN [token |-> SubSeq(s, first, end - 1), rest |-> From(s, end + 1)]

\* atoi and strtod: the number s begins with, 0 if there is none.
Number(s) ==
  LET first == Skip(s, 1, {Space, Newline})
      end == Skip(s, first, Zero .. Nine)
      upto[k \in first - 1 .. end - 1] ==
        IF k < first THEN 0 ELSE 10 * upto[k - 1] + (s[k] - Zero)
  IN upto[end - 1]

\* Mutants of Chunk: one character less; a line that is too long loses its end.
ChunkShort(s) == LET end == Min({Find(s, 1, {Newline}), MAX_LEN - 2, Len(s)})
                 IN [read |-> SubSeq(s, 1, end), rest |-> From(s, end + 1)]
ChunkWholeLine(s) == LET end == Min({Find(s, 1, {Newline}), Len(s)})
                     IN [read |-> SubSeq(s, 1, Min({end, MAX_LEN - 1})), rest |-> From(s, end + 1)]

\* fgets into chunk: a line, with its newline, or as much of it as there is
\* room for; the next one goes on from there.
Chunk(s) == LET end == Min({Find(s, 1, {Newline}), MAX_LEN - 1, Len(s)})
            IN [read |-> SubSeq(s, 1, end), rest |-> From(s, end + 1)]

\* scanf of a word, %254s: what does not fit is the next word.
NextWord(ws) == LET end == Min({MAX_LEN - 1, Len(ws[1])}) IN
  [read |-> SubSeq(ws[1], 1, end),
   rest |-> (IF end = Len(ws[1]) THEN <<>> ELSE <<From(ws[1], end + 1)>>) \o Tail(ws)]

\* scanf of %u: the digits a word begins with, which may be none; what follows
\* them is the next word.  (The sign that %u also takes is left out: the numbers
\* of the input have none.)
NextNumber(ws) == LET end == Skip(ws[1], 1, Zero .. Nine) IN
  [read |-> SubSeq(ws[1], 1, end - 1),
   rest |-> (IF end = Len(ws[1]) + 1 THEN <<>> ELSE <<From(ws[1], end)>>) \o Tail(ws)]

-----------------------------------------------------------------------------
\* The tokens of the genres, by repeated strtok.
Genres(s) ==
  LET at[i \in 0 .. NUM_OF_GENRE] ==
        IF i = 0 THEN [token |-> <<>>, rest |-> s] ELSE strtok(at[i - 1].rest, Comma)
  IN [i \in 1 .. NUM_OF_GENRE |-> at[i].token]

\* strtod(NULL) is a crash.
NullGenre(genres) == \E i \in DOMAIN genres : genres[i] = <<>>
Profile(genres) == [i \in DOMAIN genres |-> Number(genres[i])]

\* title.strip(): the last character goes.
Title(token) == SubSeq(token, 1, Len(token) - 1)

ReadHeader ==
  /\ pc = "header" /\ text' = Chunk(text).rest /\ pc' = "rows"
  /\ UNCHANGED <<source, words, movies, num_of_reqs, reqs>>

ReadMovie ==
  LET id == strtok(Chunk(text).read, Space)
      name == strtok(id.rest, Brace)
      genres == Genres(name.rest) IN
  /\ pc = "rows" /\ text # <<>>
  /\ text' = Chunk(text).rest
  /\ IF Len(movies) >= MAX_MOVIES
     THEN pc' = "aborted" /\ UNCHANGED movies
     ELSE IF id.token = <<>> \/ name.token = <<>> \/ NullGenre(genres)
     THEN pc' = "crashed" /\ UNCHANGED movies
     ELSE /\ movies' = Append(movies, [movieId |-> Number(id.token),
                                       title   |-> Title(name.token),
                                       profile |-> Profile(genres)])
          /\ UNCHANGED pc
  /\ UNCHANGED <<source, words, num_of_reqs, reqs>>

\* fgets returns NULL.  The number of requests comes next.
ReadCount ==
  /\ pc = "rows" /\ text = <<>>
  /\ num_of_reqs' = Number(words[1]) /\ words' = Tail(words)
  /\ pc' = IF num_of_reqs' <= MAX_REQ THEN "requests" ELSE "aborted"
  /\ UNCHANGED <<source, text, movies, reqs>>

\* scanf stops at a word that is no number.
read_request ==
  LET id == NextNumber(words)
      buf1 == NextWord(id.rest)
      buf2 == NextWord(buf1.rest)
      genres == Genres(buf2.read) IN
  /\ pc = "requests" /\ Len(reqs) < num_of_reqs
  /\ IF id.read = <<>>
     THEN pc' = "unset" /\ UNCHANGED <<words, reqs>>
     ELSE /\ words' = buf2.rest
          /\ IF NullGenre(genres)
             THEN pc' = "crashed" /\ UNCHANGED reqs
             ELSE /\ reqs' = Append(reqs, [id |-> Number(id.read), keywords |-> buf1.read,
                                           profile |-> Profile(genres)])
                  /\ UNCHANGED pc
  /\ UNCHANGED <<source, text, movies, num_of_reqs>>

Return ==
  /\ pc = "requests" /\ Len(reqs) = num_of_reqs
  /\ pc' = "ready"
  /\ UNCHANGED <<source, text, words, movies, num_of_reqs, reqs>>

initialize == ReadHeader \/ ReadMovie \/ ReadCount \/ read_request \/ Return

InputNext == Start \/ initialize

InputSpec == InputInit /\ [][InputNext]_inputVars

-----------------------------------------------------------------------------
(* Properties. *)

\* No line that is too long for the buffer makes a movie of its pieces, or
\* loses one: initialize() returns with the movies of the file or not at all.
MoviesAsWritten == pc \in {"requests", "ready"} => movies = source.rows

\* What the buffers and arrays are declared for, to the last character and the
\* last element: a header or line of MAX_LEN - 1 characters with its newline, a
\* word of as many, MAX_MOVIES movies and MAX_REQ requests.
Fits ==
  /\ Len(source.header) < MAX_LEN - 1 /\ Len(source.rows) <= MAX_MOVIES
  /\ \A k \in DOMAIN source.rows : Len(Line(source.rows[k])) < MAX_LEN - 1
  /\ Len(source.wishes) <= MAX_REQ
  /\ \A k \in DOMAIN source.wishes : \A j \in 1 .. 3 : Len(Request(source.wishes[k])[j]) < MAX_LEN

\* An input that fits is read, and understood.
FittingInputRead ==
  pc # "start" /\ Fits =>
    /\ pc \notin {"aborted", "crashed", "unset"}
    /\ pc = "ready" => movies = source.rows /\ reqs = source.wishes
=============================================================================
