# Formal models of System-Programming-Homework

The repository holds four independent programs. Each one is a small concurrent
system, and each one is modelled here:

| directory (under `src/`) | program | how it is concurrent |
|---|---|---|
| `hw1_csiebooking-lala-ju` | `read_server`, `write_server`: booking records served over TCP | several server processes around one `select()` loop each, one shared file, `fcntl` record locks |
| `hw2_pvp-championship-lala-ju` | `battle`, `player`: a double-elimination tournament | a tree of 14 battles and 15 players, one process each, pipes and FIFOs |
| `hw3_thread-library-lala-ju` | a user-level thread library with three threads | `setjmp`/`longjmp`, two signals, non-blocking FIFOs |
| `hw4_simple-movies-recommendation-system-lala-ju` | `tserver`, `pserver`: sort movies by score | threads over shared arrays, or forked processes over shared memory |

Short names below: *hw1* ... *hw4*. `server.c` without a directory is the one of
the program the section is about.

## 1. Inventory

### hw1: booking servers (`server.c`)

* **State.** The file `bookingRecord` (one record of three ints per user). Per
  process: `requestP[]` with the user id of each descriptor, `state[]` (HI, ID,
  EXIT, COMMAND), `readlc[]` (read server: sessions per record), `samewr[]` (write
  server: 1 while it has a session on the record). In the kernel: `fcntl` locks
  per process and record.
* **Operations.** Accept; `handle_read`; `checkid`; admission (lock, count, show
  the record) or "Locked."; a command (`checkcommand`: parse, check the limits,
  write); Exit; end of file and failing `read()`; process death.
* **Interaction.** Processes meet only in the file and its locks. `fcntl` never
  excludes a process from itself, so inside a process `readlc` and `samewr` have
  to do what the kernel does between processes.
* **Hard.** Counter, lock, connection and file are changed in separate
  statements; sessions end in a dozen ways; a descriptor number is used again;
  a process may die between any two steps; sums are C ints.
* **Correct** when: a writer shares a record with nobody; locks and counters are
  those of the sessions there are; nobody is refused while the record is free; what a
  client was shown is still true when its command arrives; updates are not
  torn; records stay in the limits; a client that hangs up loses its session;
  all processes together behave like one booking service.

### hw2: tournament (`battle.c`, `player.c`)

* **State.** Per battle: the two statuses last read, who has won. Per player: its
  status `P` and the HP it is healed towards. Between processes: a pipe in each
  direction on every edge of the tree, and a FIFO per agent.
* **Operations.** A battle reads both children, fights a round, sends both
  statuses back; when one falls it reaps the losing side and from then on
  relays for the winner ("passing mode"), until the winner's last status. A
  player sends, receives, is healed after a victory, and when beaten in zone A
  hands its status to an agent, a leaf of the losers' half.
* **Hard.** The end of passing mode is read off the relayed data; beaten player
  and agent are two processes for one contestant; everything waits for
  everything: children, siblings, agents, parents; a process that exits early
  leaves pipe ends open in others that inherited them.
* **Correct** when: a contestant is one process at a time; an edge carries one
  status, the right one; HP stays in bounds; two defeats (or one in the final)
  put a player out and nothing else does; the outcome is that of the rules,
  whatever the scheduling; all processes end; a tree that has lost a process
  never names a wrong champion.

### hw3: thread library (`scheduler.c`, `threadtools.h`, `threads.c`, `main.c`)

* **State.** `ready_queue`, `waiting_queue`, `rq_current`; each thread's jump
  buffer and fields; the signal mask, pending signals, the alarm; the FIFOs.
* **Operations.** `thread_yield` opens two windows for SIGTSTP and SIGALRM;
  `sighandler` polls the FIFOs (`reorderwaiting`) and jumps to the next thread;
  `async_read` moves a thread to the waiting queue; `thread_exit` removes it; with
  nobody ready the scheduler sits in `select()`.
* **Hard.** Every switch is a `longjmp` that must restore the mask and go back to
  the right one of three `setjmp`s; slots are refilled from the end while woken
  threads are appended; the result of `read()` is not looked at.
* **Correct** when: each unfinished thread is in exactly one slot; signals are
  blocked outside the windows; a reader takes one number per iteration and
  prints the best sum of what it was sent; the others print their sequences
  without a gap; no ready thread starves; what is sent to a waiting thread is
  read; all in all the library is a pool of threads of which one runs.

### hw4: recommendation (`server.c`, `lib.c`)

* **State.** `movies`, `reqs`. Per request the list of titles and scores, `base`
  ranges of `size` entries (the last one has the remainder too), and the workers
  of one level.
* **Operations.** `initialize` and `read_request` fill the arrays; `cal` filters and
  scores; workers sort the ranges with `sort()` of `lib.c`; half as many workers
  merge pairs of ranges, level by level, all of a level joined before the next;
  then the output files are written.
* **Hard.** Lines go through a buffer of fixed length; workers write shared arrays
  without a lock; the remainder; two copies of the merge, one per build; a
  request that matches nothing; `fork()` and `waitpid()` unchecked.
* **Correct** when: movies and requests are those of the input; the ranges of a
  level are disjoint and cover the list, finished ranges stay in order, the
  output is the sorted list, every request is answered; forks that fail lose no
  movie.

Not programs of their own: the judge of hw1, Makefiles, test inputs,
`player_status.txt` (its first half supplies strengths for the tournament run).

## 2. Modules

| module | models | built on |
|---|---|---|
| `BookingRules` | arithmetic and limits of `checkcommand`, C int wrap-around | |
| `BookingService` | abstract specification: what hw1 promises as a whole | |
| `BookingServer` | hw1 in detail: clients, kernel locks, both servers | `BookingRules`; instantiates `BookingService` |
| `BookingProofs` | sessions, locks and exclusion; what clients are shown, what locks remain, the refinement of `BookingService` | `BookingServer` |
| `BookingMC` | instances for TLC | `BookingServer` |
| `Ascii` | codes of characters, powers of ten | |
| `CommandParser` | the right-to-left parser in `checkcommand`, over typed lines | `BookingRules`, `Ascii` |
| `Bracket` | the switch tables of `battle.c` and `player.c`, compared in its assumptions | |
| `Tournament` | battle and player processes, for any tree | |
| `TournamentProofs` | types, and one process per contestant | `Tournament` |
| `TournamentPipeProofs` | what is in the pipes, who is never heard of, and who is out | `TournamentProofs` |
| `TournamentOutcomeProofs` | that the outcome does not depend on the order of steps | `TournamentPipeProofs` |
| `TournamentMC` | instances | `Tournament`, `Bracket` |
| `Queues` | arrays with a count: what is in one (`Slots`), a loop that keeps some of it (`Keep`) | |
| `DataLemmas` | induction over finite sets and numbers; what `Keep` returns; parts of sequences | `Queues` |
| `ThreadPool` | abstract specification: what the thread library promises | |
| `ThreadScheduler` | hw3: library and threads | `Queues`; instantiates `ThreadPool` |
| `ThreadProofs` | mask, types, queues, what the threads compute, the refinement of `ThreadPool` | `ThreadScheduler` |
| `ThreadMC` | instances | `ThreadScheduler` |
| `MovieSort` | hw4 from `cal` on, both builds | `Queues` |
| `MovieProofs` | what `Base`, `argmax`, `Sort` and `Merged` compute, the invariant of the parallel sort, and what follows | `MovieSort`, `DataLemmas` |
| `MovieMC` | instances | `MovieSort` |
| `MovieInput` | hw4 up to there: `initialize`, `read_request` | `Ascii` |
| `ParserProofs` | what both parsers make of every line, file and input | `CommandParser`, `MovieInput`, `DataLemmas` |
| `ParserMC` | an instance of both parsers | `CommandParser`, `MovieInput` |

In each module a definition stands next to variants commented "Mutant of ...".
They are what a plausible mistake in the code would make of it; putting one in
place of the original makes TLC report the property it is paired with, so no
property is satisfied by accident.

### BookingServer

One action per branch of the main loop. `run[s]` says where process `s` is;
a branch is cut into several actions where another process can see the
difference: `WriterAdmit`/`ReaderAdmit` (lock and counter) - `Show` (read the
record, send it); `CommandAccepted` (read, check) - `Commit` (write) - `Report`
(read back, send, close) - `Release` (counter, unlock). Everything else of a
branch is one step, because a process handles one descriptor at a time.

| action | `server.c` |
|---|---|
| `Accept` | 296-323 |
| `ReadFailed`, `UnendedRead`, `AtEnd` | 326-335, 193-203, `handle_read` 177-209 |
| `ReaderEnd`, `ReaderLocked`, `ReaderAdmit`, `ReaderIgnore`, `ReaderExit` | 337-429 |
| `WriterEnd`, `WriterLocked`, `WriterAdmit`, `CommandRefused`, `CommandAccepted`, `Commit`, `Report`, `Release` | 433-580 |
| `Kill`, `BrokenPipe`, `Restart` | death of a process, and a new one |

Details kept on purpose: in `WriterLocked` the `fcntl` call comes before the test
of `samewr`; `RejectId`, `CommandRefused` and the ends of file do not reset
`state[c]`; `ReadFailed` frees the request and nothing else; `Consume` throws away
what a client has sent ahead of the answer, as `handle_read` keeps only the first
line of a `read()`. A client may send an id where a command is expected: to
`checkcommand` it is a number alone, an amount of food (`IdNumber`, `OnlyFood`), and
`Asked` are the amounts that lines of either kind ask for.

Simplified: `read()` of more than 512 bytes, and `strstr` on a buffer without a
terminating zero, are not modelled (the outcome of an unended piece is ERR_EXIT).
A write to a client that is gone raises SIGPIPE at several more places than
`BrokenPipe` names; `Kill`, possible at any step, has the same effect.

### Tournament

One action per blocking call of `battle.c` and `player.c`; a `write()` to a pipe is
part of the step of the `read()` before it, which is sound because each pipe has
one reader and one writer and never holds more than one status (`PingPong`, which
is checked and not assumed). `pc` is the place in the program; `held` the statuses
`left` and `right`; `winner[b]` the child in passing mode. All processes exist
from the start: forking is replaced by not having moved yet. The log files
are represented by who may write them (`OneOwner`). `file` is the content of
`player_status.txt`, chosen at the start. The tree is any that `TreeAssumption` allows:
every process but the root is the left or the right child of one battle, and a set of
processes that has the root and, with each battle, its children has them all (`Closed`).
`ZonesAssumption` adds that the battles whose losers get an agent, and the real players below
them, are the left half (zone A of the comments), and that agents are in the other.

Processes fail where the code says `exit(1)`: at the start (a log or a status file
that cannot be opened, a first or second `fork()`), or later, when a beaten player
cannot open the FIFO (`HandOverFails`) or an agent the log of whom it got
(`TakeOverFails`). `Stillborn` says who then never lives. What the others see
depends on who has which pipe end open: a right child is forked while its parent
still has both ends of both pipes to the left child, so it and all below it keep
the left child's pipes open (`Inherits`, `Above`, `Below`). Hence a lost right child
is an end of file, after which its parent goes on with what `right` holds, which
before the first round is uninitialised (`ReadRightEnd`, `Garbage`); a lost left
child is one only when the right half is gone as well (`ReadLeftEnd`), and
otherwise a parent that waits for ever. A `write()` to nobody is SIGPIPE and ends
the process. A failing `pipe()` or `dup2()` is not modelled.

### ThreadScheduler and ThreadPool

`pc` is the place in the running thread: at `async_read`, at work, in either
window of `thread_yield`, exiting, in `select()`, returned. `env[t]` says which
`setjmp` a `longjmp` to `t` resumes. `Resume` is where the mask is or is not restored:
only the `setjmp` of `thread_yield` is followed by `sigprocmask`. Timeslices are
at least one second. The stack frames `longjmp` re-enters after their functions
have returned are taken to be intact. The three threads compute with C ints and
with the fields that survive a switch: `FibonacciStep`, `CollatzStep`,
`MaxSubarray`, the last with the stale `buf` after a `read()` that brings nothing. A
message is one number; the five bytes `read()` asks for are the length the sample
script pads it to. In a thread that never ends `i` is not told apart beyond 3.

`reorderwaiting` is three operators: which slots of the waiting queue are `Ripe`, and the
two queues after it (`PolledReady`, `PolledWaiting`), both built with `Keep`, the loop over an array
that copies some of it.

`ThreadPool` has no queues, masks or jumps: the processor is with one ready thread;
at a switch exactly those leave the waiting set whose FIFO has something; a
preempted thread gives the processor up if anybody else is ready; only a thread
whose work is done leaves. The mapping (`Pool`) reads these sets off the queues.

### MovieSort

A worker's reading and computing (`Compute`) and its writing (`Store`) are two
steps, so that workers of one level overlap. `Merged` is the merge of both builds;
`Spill` is their one difference, what happens to the rest of the left run. `Sort` is
`sort()` of `lib.c`: the best of the rest is swapped to the front, again and again.
The secret suffix is left out, as it does not change the order of titles (a tab
comes before every printable character). `SortNothing` is `sort()` of zero movies: in
`tserver` a certain crash, in `pserver` a child that has nothing to store. In
`pserver` a `fork()` may fail: the worker is `Unborn`, its range stays as it is, and
`Wait`, which is one `waitpid()`, asks for pid -1 and takes any child there is, so
that the `waitpid()` for that child finds nobody and returns at once.

### MovieInput

`Start` chooses what the movie file and the standard input say, and writes it
down (`File`, `Stdin`); one action per `fgets` or `scanf` takes it apart again. `Chunk` is
`fgets` with its limit, `strtok` skips delimiters in front of a token and returns
nothing (NULL) when there is none, and what the code does with a NULL is a crash.
The movie file is not in the repository, so its format is what `initialize` takes
apart. Numbers are non-negative integers; the normalisation of the profiles is
floating point and left out. The file has a first line, and the input as many
requests as it announces, with numbers for ids. What the buffer of the keywords has no room
for is taken for the genres, and the next request begins with what was to be the genres:
`%u` takes the digits of a word and leaves the rest (`NextNumber`), and where there are none
`scanf` stops and leaves the buffers `unset`, behind which nothing is followed.

### CommandParser and BookingRules

The state is the line typed so far; `Parse` is the loop of `checkcommand` as a
function from the last character to the first. `Wrap` is int arithmetic of the
unoptimised build.

## 3. Runs

Every run finishes within about two minutes with two workers.

| run | module | shows | bounds |
|---|---|---|---|
| `BookingSessions` | `BookingMC` | `TypeOK`, `SessionInv`, `MutualExclusion`, `LocksBackedBySessions`, `RefusedOnlyWhenInUse` | one read and one write server, two connections each, one record |
| `BookingProcesses` | `BookingMC` | `DisplayedStateIsCurrent`, `UpdateNotLost`, `ImplementsService` | one read and two write servers, one connection each, one record, three kinds of command, one failing read |
| `BookingLiveness` | `BookingMC` | `AbandonedSessionEnds` under fairness | two readers, one writer |
| `BookingLeak` | `BookingMC` | violation of `LocksBackedBySessions` | one failing read |
| `BookingOverflow` | `BookingMC` | violation of `RecordWithinLimits` | one writer, `IntMax` = 15 |
| `Parsers` | `ParserMC` | `WellFormedUnderstood`, `ForeignRefused`, `MoviesAsWritten`, `FittingInputRead` | commands: all lines of up to 7 of 5 characters; input: up to 3 movies of 6, up to 3 requests of 3, 3 headers |
| `Tournament` | `TournamentMC` | `TypeOK`, `OneOwner`, `PingPong`, `HealthInBounds`, `DoubleElimination`, `OutcomeFixed`, `NoChampionAfterFailure`, `Terminates` | four players, six battles, three agents, three strength files, two processes that fail |
| `ThreadSafety` | `ThreadMC` | `QueuesSound`, `SignalsBlocked`, `SumIsBest`, `NumberPerIteration`, `SequencesRight`, `ImplementsPool` | two readers, a fibonacci and a collatz thread, three numbers each |
| `ThreadLive` | `ThreadMC` | `TypeOK`, `ReadyRuns`, `SentIsRead` under fairness | two endless readers, an endless and a finite collatz thread, writers that close |
| `MovieRequests` | `MovieMC` | `TypeOK`, `RangesPartition`, `DoneRangesOrdered`, `OutputSorted`, `AllOrNone`, `Answered` | tserver, five movies or one and two movies or none, all assignments of two scores |
| `MovieProcesses` | `MovieMC` | `ShortOutputSorted`, `NothingLost`, `NoneAtWork` | pserver, six movies, four or none, all assignments of two scores, two forks that fail |
| `MovieSpill` | `MovieMC` | violation of `OutputSorted` | pserver, nine movies, two merges |

**Why the bounds are enough to be interesting.**
*hw1:* two sessions in one process are the least for which `readlc` and `samewr`
matter, two writing processes the least for which `fcntl` does; all conflicts are
about one record, and the proofs cover any number. `MaxPipeline` = 1 line under
way per client; a longer pipeline is thrown away by `Consume` anyway. `MaxTotal` = 1
makes the limit bind on every second command; the three commands of
`BookingProcesses` meet the upper and the lower limit and two objects. `MaxResets`
counts failing reads: 0 where the leak would hide everything else (the
lock then stays for ever), 1 in `BookingProcesses` and `BookingLeak`.
*Tournament:* the four-player tree keeps every kind of battle and edge: zone A
battles with a winner that goes up, agents that wait for a first and for a second
round, the losers' final, the root with its special end. It leaves out the
second level of zone A and of the losers' half; the tables of the full tree are
checked by the assumptions of `Bracket`. The three files give the
strengths of the repository (a straight victory), equal strengths in which ties
decide, and a comeback through the losers' half. The full tree is too large for an exhaustive run. Two failures are the least for
which both halves below a battle are gone, and `read()` of the left child comes
to its end. `OutcomeFixed` (but for the champion), `HealthInBounds` and `Terminates` speak of
tournaments in which nothing fails; the other properties hold with failures too.
*ThreadScheduler:* two readers are the least for which one poll can move several
threads while the running slot is refilled from the end. `IntMax` = 127 is beyond every
term of the finite sequences; with `IntMax` = 3 in `ThreadLive`, where nothing is said
about numbers, the threads have few states (the endless collatz begins, and stays, at 0).
*MovieSort:* thresholds 1 and 3 (2 and 4) in place of 2000 and 5000 give four
ranges with a remainder and two levels of merging, the least at which
what one merge leaves behind is read by another.
In `MovieProcesses` two failing forks of one level, or one of each of two levels, are
enough for a `waitpid(-1)` to take the child another turn waits for.
*CommandParser:* seven characters are three numbers, two spaces and two signs. `IntMax` =
220 in place of `INT_MAX`: 100 is the largest power of ten that fits, so longer numbers meet
the conversion of a power that does not.
*MovieInput:* `MAX_LEN` = 13 in place of 255: lines one below, at, one beyond and two
beyond the buffer, so that a line is cut before its newline and inside its last
number; headers and keywords at and beyond it, so that what is left of the keywords
is read as genres, and the next id as nothing or from half a word; arrays of two, files of up to three.

`CHECK_DEADLOCK FALSE` is set where the program really ends: when the threads are
done, the tournament is over, the files are written, or (parser) the line is full.

**Fairness.** hw1: a process between two `select()` calls runs on (weak fairness of
`Continue`); a round of the loop serves every descriptor that is readable, so none is
passed over for ever (strong fairness of `Serve` per connection: it is disabled
again and again while the process is busy with others). Nothing is assumed about
clients, deaths or restarts. hw2: as long as some
process can run, one does (weak fairness of the processes together); every process has
finitely many steps, so nothing per process is needed. hw3:
the one process runs when it can, and an alarm that is set goes off; no fairness
for users and writers. hw4: some thread or process that can run does.

**What the violation runs show.**
* `BookingLeak`: `read()` returning -1 (`server.c:330`) closes the connection and
  leaves lock and counter behind; the record stays locked until the process ends.
* `BookingOverflow`: `ori + ch_f + ch_c + ch_e` (`server.c:140`) wraps around for
  amounts near `INT_MAX`, and the limit of 15 items is passed.
* `MovieSpill`: `tmppts[c] = score[l]` (`server.c:349`) where `score[j]` is meant:
  in `pserver` the movies left over in a merge get the score of the first of them. One merge (lists up to 5000
  movies, `ShortOutputSorted` in run `MovieProcesses`) never reads these scores; the
  second does.

Met while modelling, without a run of their own: the dash test of
`checkcommand` does not look at the first character (`i-1 > 0`), so a first amount
may have its sign behind its first digit, and the command `2- 1 1` is read as 20, 1
and 1, as the dash counts as a place (this is why `ForeignRefused` speaks of positions past
the second); a line that arrives in two pieces ends the whole server
(`UnendedRead`); with an empty match `tserver` dies before it writes any file
(`AllOrNone`); a reader of hw3 whose FIFO is closed early counts its last number again
(`NumberPerIteration` and `SumIsBest` hold while writers stay); a collatz thread whose terms
outgrow an int goes on with wrapped ones (`SequencesRight` is about sequences that fit); a tournament that loses
a left child hangs instead of ending, as its pipes are still open in its sibling
(why `Terminates` is about tournaments that lose nobody).

**Refinement.** `ImplementsService` maps the sessions of `BookingServer` (connections
with an admitted user, split by the kind of their server) to `BookingService`, in
which a change is one step inside the one write session of the record, without
wrap-around and within the limits. The two steps of an update, the deaths in
between and the failing reads all map to its steps or to stuttering.
`ImplementsPool` maps the queues, `pc` and the FIFOs of `ThreadScheduler` to
`ThreadPool`: each `Interrupt`, `Await`, `Exit` and `Wake`, with its poll, the refilling of
the running slot and the choice of the next, is one switch of the pool, and
everything inside a thread is `Progress`.

## 4. Proofs

Every theorem holds for every value of the constants that the named assumptions of
its module allow: any number of processes, connections, users, threads, movies and
requests, any bounds, any tree, any file. The assumptions are `RulesAssumption`,
`ServerAssumption`, `ConnectionsAssumption` (finitely many descriptors),
`TreeAssumption`, `ZonesAssumption` (zone A with the real players at its leaves is the left
half of the tree), `StrengthAssumption`, `SchedulerAssumption`, `MoviesAssumption`,
`ParserAssumption` (a character is not the terminating zero) and `InputAssumption` (titles have
no brace and no newline, keywords no space and no newline, and neither is empty: otherwise the file
or the input is not in the format that is read); TLC
evaluates each of them in the runs of its program, and the assumptions of `Bracket` say of the
code's own tables what those of the tree say of any. What a theorem assumes beyond
that stands in its statement.

| module | theorem | statement |
|---|---|---|
| `BookingProofs` | `TypeCorrect` | `Spec => []TypeOK` |
| | `SessionsAreLocked` | `Spec => []SessionInv` |
| | `SessionsExclude` | `Spec => []MutualExclusion` |
| | `ShownStaysTrue` | `Spec => []DisplayedStateIsCurrent` |
| | `NoUpdateLost` | `Spec => []UpdateNotLost` |
| | `NothingLeftBehind` | `Spec => [](resets = 0 => LocksBackedBySessions)` |
| | `RefusedForAReason` | `MaxResets = 0 => (Spec => RefusedOnlyWhenInUse)` |
| | `RecordsStayWithinLimits` | `NoOverflow => (Spec => []RecordWithinLimits)` |
| | `ServiceImplemented` | `NoOverflow => (Spec => ImplementsService)` |
| `TournamentProofs` | `ProcessesKeepTheirTypes` | `Spec => []TypeOK` |
| | `OnePlayerOneProcess` | `Spec => []OneOwner` |
| `TournamentPipeProofs` | `PipesPingPong` | `Spec => []PingPong` |
| | `HealthStaysInBounds` | `Spec => []HealthInBounds` |
| | `NobodyIsLeftAlone` | while nothing has failed no step is an end of a pipe or a SIGPIPE |
| | `FailureIsNeverCrowned` | `Spec => []NoChampionAfterFailure` |
| | `TwoDefeatsAreOut` | `Spec => []DoubleElimination` |
| `TournamentOutcomeProofs` | `OutcomeDoesNotDependOnTiming` | `Spec => []OutcomeFixed` |
| `ThreadProofs` | `SignalsStayBlocked` | `Spec => []SignalsBlocked` |
| | `FieldsKeepTheirTypes` | `Spec => []TypeOK` |
| | `QueuesStaySound` | `Spec => []QueuesSound` |
| | `SequencesStayRight` | `Spec => []SequencesRight` |
| | `OneNumberPerIteration` | `~ WriterCloses => (Spec => []NumberPerIteration)` |
| | `SumStaysBest` | `~ WriterCloses /\ NoSumOverflow => (Spec => []SumIsBest)` |
| | `PoolImplemented` | `Spec => ImplementsPool` |
| `MovieProofs` | `MoviesStaySound` | `Spec => []MovieInv` |
| | `MoviesKeepTheirTypes` | `Spec => []TypeOK` |
| | `RangesStayAPartition` | `Spec => []RangesPartition` |
| | `JoinedMeansDone` | `Spec => []NoneAtWork` |
| | `AnswersComeTogether` | `Spec => []AllOrNone` |
| | `NoMovieIsLost` | `Spec => []NothingLost` |
| | `ShortOutputStaysSorted` | `Spec => []ShortOutputSorted` |
| | `ThreadsSort` | `Build = "THREAD" => (Spec => []OutputSorted)` |
| | `ThreadsLeaveOrder` | `Build = "THREAD" => (Spec => []DoneRangesOrdered)` |
| `ParserProofs` | `NoForeignCharacterAccepted` | `Spec => []ForeignRefused` |
| | `CommandsUnderstood` | `Spec => []WellFormedUnderstood` |
| | `InputInvariant` | `InputSpec => []InputInv` |
| | `MoviesAreThoseOfTheFile` | `InputSpec => []MoviesAsWritten` |
| | `WhatFitsIsRead` | `InputSpec => []FittingInputRead` |

The hypotheses are where the code stops keeping its promise, and most have a run that
shows it: `resets = 0` and `MaxResets = 0` (a failing `read()` leaves the lock behind,
`BookingLeak`; `RefusedOnlyWhenInUse` is about steps, so it needs that no `read()` will
have failed); `NoOverflow` (amounts, and ids sent as commands, that do not overflow an int when they are
added to what a record may hold, and a file that is within the limits at the start,
`BookingOverflow`); `Build = "THREAD"` (the merge of `pserver`, `MovieSpill`). Two hypotheses
are about hw3 and have no run: `~ WriterCloses` (writers keep their end open: a
`read()` that finds the end of a FIFO leaves the last number where it was, and the thread
counts it again) and `NoSumOverflow` (whatever `MaxSent` numbers are sent, their sum is
an int; otherwise the reader adds up modulo 2^w, and need not find the largest sum).

### hw1

`MutualExclusion` is not inductive: it says nothing about locks, which are what
keeps the second session out. `SessionInv` adds why: each process is
where it says it is (`RunOK`), a descriptor past its ID state has a user
(`DialogueOK`), a read server's counter is never less than the sessions it stands
for, and it has the lock exactly while the counter is not 0 (`ReadersCounted`), a write
server has the lock exactly while `samewr` is set, and at most one session then
(`WritersMarked`), and the kernel's locks are compatible (`LocksCompatible`). The
counter is bounded from below only, since `ReadFailed` leaves it too high; that is
enough for exclusion, so the leak of `BookingLeak` is never a loss of exclusion.
There is one lemma per part of the invariant (`TypeStep`, `RunStep`, `DialogueStep`,
`ReadersStep`, `WritersStep`, `LocksStep`) with one step per action. The counting is in
`OneLess`, `OneMore` and the `Held...` lemmas: how the number of sessions of a record
changes when a connection closes, is admitted, or a process ends.

`RecordInv` continues from there: who has been shown a record is admitted or in the
middle of its admission (`AdmittedOK`, `ShownOK`), what it was shown is
still the record, and a process between its check and its write holds a change
that has passed the check on the record as it still is (`UpdateOK`). Only a writer
changes a record, and by exclusion it is alone with it. `ExactOK` is the other half of
the counters: as long as no `read()` has failed they are not more than the
sessions either, whence `NothingLeftBehind`. `ServiceImplemented` has a lemma per
kind of step: admissions and ends of sessions are steps of `BookingService`, the
write is its `Change`, and whatever else happens is a stutter.

### hw2

`OneOwner` and the shape of messages: `Sound` is `TypeOK` with `Players`, `Battles` (what a process
has at which place of its program) and `Names`: whatever is between a process and
its parent is about the one contestant that process speaks for. `Owners` adds that two
players that live are two contestants, and whoever is in a FIFO has no other process.
`PingPong` needs `Tokens`: on each edge there is one token, which is in a pipe, or at the
parent (it has the status and owes the answer), or at the child. Both are local to
an edge, so nothing about the depth of the tree is used.

`HealthInBounds` is about what goes on while nobody fails, and so needs the
absence of ends of pipes, and with it the order in which processes leave: a player
or battle leaves only when its parent knows it is out, a battle only after both its
children (`Plays`, `Runs`), and the loser of a battle is never asked again. `Whole`
says so, and that whatever goes up can still fight (`Carries`). `NobodyIsLeftAlone` is what
that amounts to for the processes: though every right child inherits ends of the
pipes of its left sibling, it never matters while nobody fails.

`NoChampionAfterFailure` is about what goes on when somebody has failed, where nothing of
`Whole` is left. `Fit` is what remains: whatever is sent up can still fight, failures
or not, as a battle that reads the end of a pipe has nobody to send. `Chain`: a node has
been heard of (its parent has read a status of it, or will) only when every node
below it has, so a champion has been heard of from every corner of the tree. `OneLoser`: each
battle has one loser, and its status is handed over once at most, so an agent that
waits for its player and one that never will have one are different. `Stuck` is the
invariant about the failure itself: a process that failed before it sent a status is never
heard of, and one that failed with a loser's identity in its hands leaves an agent
that waits at its FIFO for ever, and is not heard of either.

`DoubleElimination` counts defeats over the history of a whole tree, and follows from where
every player has got to (`Ways`). `Name(n)`, whom a process has ever spoken for, only grows and
has one element at most; a player's way through one half of the tree `End`s at a process
whose parent has not made it a winner, or is the root. `OneWay` says that a half has one end at
most for each player. It is kept because an agent (`Handed`) speaks for somebody who is `Out` at
the battle of that agent, and whoever speaks for a player in the losers' half has it from an
agent (`Agents`): a newcomer is out at one battle of the upper half, the one of its own
agent, and so has no other process below. `Record` ties this to the counts: `defeats[i]` is
the number of battles whose loser on record is `i`, and each of them ends a way. So nobody
loses more than once in each half, and the champion has not lost in the half it came to the
root through. That everybody else has lost twice, or at the root, when there is a champion
needs `Chain` (everybody has been heard of, so every battle has a winner and every agent a
player) and that each way has an end (`WaysEnd`), where a set of processes that has the root and
is `Closed` takes the place of an induction over the tree.

`OutcomeFixed` compares the processes with the tournament on paper (`Entrant`, `Result`), which
is a function of the status file alone. That such a function exists is the first thing to
prove: `NoEndlessDescent` says that no set of battles has with each a child in the set
again (a walk down from there would be a cycle apart from the root), so the lower half is
computed from the upper half and each half from its leaves. The invariant `OnPaper` then says
of every status in a pipe or in a process that it is the one due there (`Due`): what a real
player or an agent begins with, what a battle in its k-th round has after k rounds on paper
(`Underway`), whom it relays for once it is decided, and what a loser hands to its
agent (`AsLost`). It is kept by each of the steps because each reads one status of a known
node and round: that is `PingPong` and `Whole`, and the reason why it needs no assumption
about the order in which processes run. It speaks of tournaments in which nobody has
failed; a champion there is when nobody has (`FailureIsNeverCrowned`).

### hw3

`SignalsBlocked` says nothing of the windows, and is not inductive. `MaskInv` adds what
the mask is inside them (the other signal stays blocked), and that the thread in
a window has `env` = yield: on every way out of a window either that thread goes
on behind its `setjmp`, which blocks both signals, or the handler has blocked the
signal it handles on top of the other, and whatever `setjmp` the `longjmp` leads to,
both are blocked (`ResumeBlocks`). Outside the windows every `longjmp` starts from a
closed mask (`RunNextBlocks`). Nothing about the queues is needed: wherever an
index may point, the mask is closed.

`QueueInv`: no thread is in two slots, the running one is where `rq_current` points
(and in `select()` it points to the first slot, the one that will be filled), whoever waits
has its `setjmp` in `async_read`, whoever is in no queue has done its work. `Polled`
says what a poll does to both queues, from `KeepKeeps`: taken slots do not
move, which is why the handler may compute the next index before or after. The
refinement has one lemma per action, the four switches by `PoolSwitch`.

What the threads compute must survive every switch. `Completed` counts the iterations of a
thread from where its `setjmp` was called, so first `SwitchCounts`: whichever way control
leaves a thread and comes back, the count stays. `WorkCounts`: one step of a thread's
own code completes one iteration or none. `Progressed` ties the fields of a fibonacci and
of a collatz thread to that count (`FibIs` and `HailstoneIs` say what the two sequences are, of
any length), which gives `SequencesRight`. `Fed` says that a reader
that is resumed to read has a number in its FIFO: `select()` reported it, and nobody else reads there. `Best` is
Kadane's invariant over the numbers taken: `y` is the largest sum that ends at the last
number, `sum` the largest of all; `WrapOfSum` removes the wrapping of ints that fit.

### hw4

`MovieInv` has five parts, each inductive from those before it.
`Soundness`: the ranges cut the list, there is one worker per range, and the number
of ranges is a power of two that merging halves. `Listings`: the list has every
selected title once, and so has what a worker is yet to write, for its range. `Waiting`:
the children `waitpid()` has been called for are gone or never were, so main never
overtakes one, even though a call takes any child when its own does not exist.
`Ending`: the requests are merged together, and an output file means all is over.
`Sorted`: finished ranges are in order, a merge finds both its runs in order, and
the scores it compares are those of the movies (`Honest`), as far as that can be relied
on (`Reliable`): always in `tserver`; in `pserver` while no `fork()` fails and one merge at most is
to come, because its merge leaves scores behind that are not those of the movies.

### The parsers

Both properties of `checkcommand` are about each line on its own, so their proofs are
inductions along the line and not over its keys. `ForeignRefused`: once bad, always bad. For
`WellFormedUnderstood` the parse is followed word by word from the right: after the
digits from k on, `new` is the number they stand for, up to 2^w (`Place` is a digit times
a power of ten, and a power that an int cannot hold meets zeros only, as the amount is an int);
a dash turns its sign; a space stores it in the next field and starts anew. `Wrap` drops
out at the end, where the amount is an int.

`MoviesAsWritten` and `FittingInputRead` need that what is written down (`Decimal`,
`Listed`, `Line`, `Joined`) is what the tokens give back: a number from its digits, genre after
genre, and a word of the input whole if the buffer holds it. `InputInv` is then about the rest
of the text: `RowsRead` says it is the text from the next row on (`Leaves`), with as many movies
read as are before it. A line that fits is taken whole and makes its movie. Of a line that
does not, `fgets` takes MAX_LEN - 1 characters, and there is one brace in it: the first part either has
none or ends before the last genre has begun, and the program dies of a NULL token; or all
genres have begun, and a movie is made of what may be half a number, but what is left
then has no brace before its newline, is `Doomed`, and the next `fgets` ends the program.
So a header or line that is too long never comes back as a movie, though for one step `movies`
may hold a wrong one. `FitInv` says that with an input that fits neither happens.
`CommandParser` and `MovieInput` are two specifications in one module, and the theorems are about
`Spec` and `InputSpec` each for itself.

### Lemmas about data

What recursive functions compute is proved by induction over numbers, done with sets:
`SetInduction` (a set of numbers that has the least and with each its successor has
them all) and `StepByStep` (a function defined step by step exists and is a function) give
`KeepBuilds`, `KeepKeeps`, `Concatenated` for `Keep`, `StepsForever` for sequences that have no
end (fibonacci, collatz, the sum of a part of a sequence), and in `MovieProofs` what `Base` returns (a
power of two), what `argmax` finds, that `Sort` returns a permutation in order, and that
`Merged` returns the titles of both runs, in order if they were and if the
scores are those of the movies.

### Only model-checked

Liveness, which TLAPS does not reach: `AbandonedSessionEnds`, `ReadyRuns`, `SentIsRead`,
`Terminates`, `Answered`. Every invariant and every action property of the passing runs,
and both refinements, are proved.


## 5. Not modelled

* Failing system calls other than the `read()` of hw1, the opens and forks of hw2
  and the forks of hw4 (pipe, dup2, mmap, pthread_create, malloc): the programs mostly
  exit, or carry on with what they have.
* hw4: floating-point normalisation and products (scores are arbitrary numbers),
  input that announces more than it has, and two requests with one id, whose
  threads would write one file.
* hw3 without any thread, and what `longjmp` into a frame that has returned may find.
* The order of log lines of hw2, and the messages of hw1: wording and layout.
* Starvation of writers by overlapping readers in hw1: there is no promise to check.
* The judge, Makefiles, sample scripts and test inputs, which have no state of
  their own.

## 6. Plan

Done: the four programs as detailed modules, with the failures their code
handles or survives; two abstract specifications that are implemented; the runs
above; the proofs of all their safety and of both refinements, for every value of the
constants. What could follow:

1. **hw1**: a wrapping sum past the limits in the abstract service as an outcome of its own, so that the
   refinement holds without `NoOverflow`.
2. **hw4**: two requests with one id, whose threads write one file; normalised profiles as
   fractions.
3. **hw3**: the first entry into a thread as steps, instead of an initial state.
