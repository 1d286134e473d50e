-------------------------------- MODULE Board --------------------------------
(***************************************************************************)
(* Phalaka, the board's server (phalaka/stream.ts, live.ts, beads-read.ts):   *)
(* it tails a log others append to by byte offset, and answers reads of the   *)
(* task graph from a cache that the engine's events drop before the browser   *)
(* is told to fetch again.  A write is seen in parts; reads overlap.          *)
(*                                                                            *)
(* The log is a sequence of units: a line is its head, its tail and a         *)
(* newline; "nul" is the byte a read leaves unfilled.                         *)
(***************************************************************************)
EXTENDS Integers, Sequences, SequencesExt, FiniteSets

CONSTANTS
  Reader,      \* fetches the browser may have in flight
  LogAtStart,  \* the logs there may be when the first browser connects
  MaxLines,    \* bound: lines appended
  MaxSwaps,    \* bound: times the log is replaced by a shorter one
  MaxEvents,   \* bound: events of the task graph
  NoLog, None

VARIABLES
  log, lines, swaps,       \* the file; lines begun; replacements
  offset, partial, sent,   \* PhalakaChangeStream: offsets, partials, lines broadcast
  due, unseen, missed,     \* lines it ought to send; a swap it has not seen, or never will
  events, told,            \* engine events committed; those a `tasks` frame told of
  gen, cache,              \* generation and the cached value
  reads                    \* fetches in flight

tail == <<log, lines, swaps, offset, partial, sent, due, unseen, missed>>
board == <<events, told, gen, cache, reads>>
vars == <<tail, board>>

Idle == [at |-> "idle", gen |-> 0, value |-> 0, floor |-> 0]
NL == <<0, "nl">>
Nul == <<0, "nul">>
Units(n) == <<<<n, "head">>, <<n, "tail">>, NL>>

TypeOK ==
  /\ offset \in -1..(3 * MaxLines + 3) /\ swaps \in 0..MaxSwaps /\ lines \in 0..MaxLines
  /\ events \in 0..MaxEvents /\ told \in 0..events
  /\ gen \in 0..MaxEvents /\ cache \in (0..events) \cup {None}
  /\ DOMAIN reads = Reader /\ \A r \in Reader : reads[r].at \in {"idle", "begun", "read", "answered"}

sizeOf == IF log = NoLog THEN -1 ELSE Len(log)

\* The first browser connects: prime takes each log's size as the offset, without emitting.
Init ==
  /\ log \in LogAtStart
  /\ lines = 0 /\ swaps = 0 /\ offset = sizeOf /\ partial = <<>> /\ sent = <<>>
  /\ due = <<>> /\ unseen = FALSE /\ missed = FALSE
  /\ events = 0 /\ told = 0 /\ gen = 0 /\ cache = None /\ reads = [r \in Reader |-> Idle]

----------------------------------------------------------------------------
\* Another process appends a line; a reader may see any part of it.
Have == IF log = NoLog THEN <<>> ELSE log
WriteUnit ==
  /\ IF Have = <<>> \/ Last(Have) = NL
     THEN lines < MaxLines /\ lines' = lines + 1 /\ log' = Append(Have, Units(lines + 1)[1])
     ELSE /\ log' = Append(Have, IF Last(Have)[2] = "head" THEN <<Last(Have)[1], "tail">> ELSE NL)
          /\ UNCHANGED lines
  /\ due' = IF Last(log') = NL /\ Last(Have)[1] > 0 THEN Append(due, Last(Have)[1]) ELSE due
  /\ missed' = (missed \/ (unseen /\ Len(log') >= offset))
  /\ UNCHANGED <<swaps, unseen, offset, partial, sent, board>>

\* The log is replaced (a restore): shorter than what was read of it.
Swap ==
  /\ log # NoLog /\ offset > 0 /\ swaps < MaxSwaps
  /\ swaps' = swaps + 1 /\ log' = <<>> /\ unseen' = TRUE
  /\ due' = SelectSeq(due, LAMBDA n : Contains(sent, n))      \* what was not read yet is gone
  /\ UNCHANGED <<lines, offset, partial, sent, missed, board>>

\* drainActivity: a size below the offset starts over; the bytes past the offset are read in
\* one go, and an offset of -1 is no position, so the read starts at the top and the buffer,
\* a byte too long, ends in a zero.
From == IF Len(log) < offset THEN 0 ELSE offset
Chunk == IF From = -1 THEN Append(log, Nul) ELSE SubSeq(log, From + 1, Len(log))
CarryNothing == <<>>
Carried == IF Len(log) < offset THEN <<>> ELSE partial
NLs(s) == {i \in 1..Len(s) : s[i] = NL}
LineEnding(s, i) ==                                  \* the units between two newlines
  SubSeq(s, 1 + FoldLeft(LAMBDA a, j : IF j \in NLs(s) /\ j < i THEN j ELSE a, 0, [k \in 1..i |-> k]), i - 1)
LinesOf(s) == [k \in 1..Cardinality(NLs(s)) |->
                 LineEnding(s, CHOOSE i \in NLs(s) : Cardinality({j \in NLs(s) : j <= i}) = k)]
Rest(s) == LineEnding(Append(s, NL), Len(s) + 1)     \* lines.pop()
Parses(l) == Len(l) = 2 /\ l[1][2] = "head" /\ l[2] = <<l[1][1], "tail">>
Drain ==
  /\ log # NoLog /\ Len(log) # offset
  /\ LET all == Carried \o Chunk
         ok == SelectSeq(LinesOf(all), Parses)
     IN /\ sent' = sent \o [k \in DOMAIN ok |-> ok[k][1][1]]
        /\ partial' = Rest(all)
  /\ offset' = Len(log) /\ unseen' = FALSE
  /\ UNCHANGED <<log, lines, swaps, due, missed, board>>

----------------------------------------------------------------------------
\* A write to the task graph commits; then the feed delivers what it has: changed() drops the
\* project's reads and rings the browser, in one turn of the loop.
Commit == events < MaxEvents /\ events' = events + 1 /\ UNCHANGED <<tail, told, gen, cache, reads>>
Changed ==
  /\ told < events /\ told' = events
  /\ gen' = gen + 1 /\ cache' = None
  /\ UNCHANGED <<tail, events, reads>>

\* A fetch: a hit answers at once; else the generation is noted and the read begins.
Fetch(r) ==
  /\ reads[r].at = "idle"
  /\ reads' = [reads EXCEPT ![r] =
       IF cache # None THEN [at |-> "answered", gen |-> gen, value |-> cache, floor |-> told]
       ELSE [at |-> "begun", gen |-> gen, value |-> 0, floor |-> told]]
  /\ UNCHANGED <<tail, events, told, gen, cache>>
\* The database answers with what has committed.
ReadRows(r) ==
  /\ reads[r].at = "begun"
  /\ reads' = [reads EXCEPT ![r].at = "read", ![r].value = events]
  /\ UNCHANGED <<tail, events, told, gen, cache>>
\* The answer is kept only if nothing invalidated the project meanwhile.
KeepsAlways(r) == TRUE
Keeps(r) == reads[r].gen = gen
Answer(r) ==
  /\ reads[r].at = "read"
  /\ reads' = [reads EXCEPT ![r].at = "answered"]
  /\ cache' = IF Keeps(r) THEN reads[r].value ELSE cache
  /\ UNCHANGED <<tail, events, told, gen>>
Applied(r) ==
  /\ reads[r].at = "answered" /\ reads' = [reads EXCEPT ![r] = Idle]
  /\ UNCHANGED <<tail, events, told, gen, cache>>
\* The cache's time to live runs out.
Expire == cache # None /\ cache' = None /\ UNCHANGED <<tail, events, told, gen, reads>>

TailNext == WriteUnit \/ Swap \/ Drain
ReadNext ==
  \/ Commit \/ Changed \/ Expire
  \/ \E r \in Reader : Fetch(r) \/ ReadRows(r) \/ Answer(r) \/ Applied(r)
Next == TailNext \/ ReadNext
Spec == Init /\ [][Next]_vars

----------------------------------------------------------------------------
\* The tail sends each line appended after the stream was primed once, whole and in order,
\* however its writes and the polls interleave and when the log is swapped under it: what
\* has been sent is what was due, up to the lines past the offset.
EveryLine == (~missed /\ log # NoLog /\ offset = Len(log)) => sent = due

\* A fetch begun after a `tasks` frame is answered with rows at least as new as the events the
\* frame told of: no read that was under way puts older rows back in the cache.
FreshAfterFrame == \A r \in Reader : reads[r].at = "answered" => reads[r].value >= reads[r].floor

=============================================================================
