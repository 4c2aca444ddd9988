--------------------------- MODULE WindowsWriter ---------------------------
(***************************************************************************)
(* The windows writer (windows_writer.py): it polls the Flink jobs'        *)
(* results from Kafka, runs one Lua script per result in Redis, commits,   *)
(* and announces; and the API's reader of the same keys (api.read_windows).*)
(*                                                                         *)
(* Results are keyed by page (flink_job.sink_ddl), so each page has a      *)
(* partition.  The logs are fixed from the start and a poll may return any *)
(* part of what follows: to the writer that is what a growing log looks    *)
(* like.  One clock serves the writer, the reader and Redis's expiry.      *)
(***************************************************************************)
EXTENDS Integers, SequencesExt

CONSTANTS
    Pages,
    Windows,        \* the start times of the windows
    Length,         \* of a window
    Retention,      \* WINDOW_RETENTION_SECONDS
    MaxGeneration,  \* bound: generations of the job
    MaxViews,       \* bound: views counted in a result
    MaxResults,     \* bound: results in the topic
    MaxNow,         \* bound: the clock
    MaxFaults       \* bound: failures of Redis, of commits and of the writer

ASSUME WindowsAssumption ==
    /\ Windows \subseteq Nat
    /\ Length \in Nat \ {0} /\ Retention \in Nat
    /\ MaxGeneration \in Nat /\ MaxViews \in Nat
    /\ MaxResults \in Nat /\ MaxNow \in Nat /\ MaxFaults \in Nat

\* A result on its page's partition, or a record parse() rejects.
Results == [start : Windows, views : 1..MaxViews, generation : 0..MaxGeneration]
Misshapen == [start |-> -1, views |-> 0, generation |-> 0]

\* The keys of one window.  Views 0 stands for a page the hash does not have.
NoWindow == [generation |-> -1, counts |-> [p \in Pages |-> 0]]

NothingToDo == [p \in Pages |-> {}]

VARIABLES
    log,        \* the topic: one partition per page
    committed,  \* the group's committed offsets
    \* the writer, in run()
    pc,
    position,   \* the consumer's
    first,      \* first offsets of the batch
    stamp,      \* Writer.write's `now`
    todo,       \* per page, offsets of the batch's results whose script has not run
    written,    \* windows of the batch's results that were WRITTEN
    \* Redis
    window,     \* per start, the generation and the counts
    index,      \* the sorted set of starts
    now,
    \* one reader, in read_windows
    rpc,
    starts,     \* those it got from the index
    response,   \* what it last returned
    faults

consumer == <<pc, position, first, stamp, todo, written>>
redis    == <<window, index>>
reader   == <<rpc, starts, response>>
vars     == <<log, committed, consumer, redis, now, reader, faults>>

Init ==
    /\ log \in [Pages -> BoundedSeq(Results \cup {Misshapen}, MaxResults)]
    /\ FoldFunction(LAMBDA s, n : Len(s) + n, 0, log) <= MaxResults
    /\ committed = [p \in Pages |-> 0]
    /\ pc = "poll"
    /\ position = committed
    /\ first = committed
    /\ stamp = 0
    /\ todo = NothingToDo
    /\ written = {}
    /\ window = [w \in Windows |-> NoWindow]
    /\ index = {}
    /\ now = 0
    /\ rpc = "idle"
    /\ starts = {}
    /\ response = window
    /\ faults = 0

----------------------------------------------------------------------------
(* Redis.                                                                  *)

ExpireAt(w) == w + Length + Retention

\* Time passes, and the keys of windows past their retention expire.
Tick ==
    /\ now < MaxNow
    /\ now' = now + 1
    /\ window' = [w \in Windows |->
                      IF ExpireAt(w) <= now' THEN NoWindow ELSE window[w]]
    /\ UNCHANGED <<log, committed, consumer, index, reader, faults>>

\* Mutant: any generation is accepted.
Outcome_anyGeneration(r) ==
    IF ExpireAt(r.start) <= stamp THEN "EXPIRED" ELSE "WRITTEN"

\* What the script returns for a result.
Outcome(r) ==
    IF ExpireAt(r.start) <= stamp THEN "EXPIRED"
    ELSE IF r.generation < window[r.start].generation THEN "REFUSED"
    ELSE "WRITTEN"

\* Mutant: a newer generation updates the window in place.
Replace_inPlace(stored, p, r) ==
    [generation |-> r.generation,
     counts |-> [stored.counts EXCEPT ![p] = r.views]]

\* A newer generation replaces the window whole; the same one updates a page.
Replace(stored, p, r) ==
    [generation |-> r.generation,
     counts |->
        [IF r.generation > stored.generation THEN NoWindow.counts
         ELSE stored.counts EXCEPT ![p] = r.views]]

\* Mutant: windows are trimmed a retention after their start.
Trimmed_early(entries, r) == {w \in entries : w > stamp - Retention}

\* What the script leaves in the index: windows whose retention is not over.
Trimmed(entries, r) ==
    {w \in entries : w > stamp - (ExpireAt(r.start) - r.start)}

\* One evaluation of SCRIPT.  An expiry that has passed since the batch was
\* stamped takes effect at once.
Evaluate(p, r) ==
    IF Outcome(r) = "WRITTEN"
    THEN /\ window' = [window EXCEPT ![r.start] =
                IF ExpireAt(r.start) <= now THEN NoWindow ELSE Replace(@, p, r)]
         /\ index' = Trimmed(index \cup {r.start}, r)
         /\ written' = written \cup {r.start}
    ELSE UNCHANGED <<redis, written>>

\* parse(), over one partition's messages from one offset to another: the
\* offsets of those that are results.
Parsed(p, from, to) == {i \in from + 1 .. to : log[p][i] # Misshapen}

\* A partition's results are written in order, and all of them before those of
\* the next partition.
IsNext(p, i) ==
    /\ \A j \in todo[p] : i <= j
    /\ \A q \in Pages \ {p} : todo[q] \in {{}, Parsed(q, first[q], position[q])}

\* The pipeline runs the script for the next result of the batch.
Script ==
    /\ pc = "write"
    /\ \E p \in Pages : \E i \in todo[p] :
        /\ IsNext(p, i)
        /\ Evaluate(p, log[p][i])
        /\ todo' = [todo EXCEPT ![p] = @ \ {i}]
    /\ UNCHANGED <<log, committed, pc, position, first, stamp, now, reader>>
    /\ UNCHANGED faults

----------------------------------------------------------------------------
(* The writer.                                                             *)

\* The positions a poll that returns something may leave the consumer at.
Polled ==
    {to \in [Pages -> 0..MaxResults] :
        /\ \A p \in Pages : to[p] \in position[p]..Len(log[p])
        /\ to # position}

\* Mutant: a batch is taken only if it holds a result.
Poll_needsResults ==
    /\ pc = "poll"
    /\ position' \in Polled
    /\ todo' = [p \in Pages |-> Parsed(p, position[p], position'[p])]
    /\ todo' # NothingToDo
    /\ first' = position
    /\ stamp' = now
    /\ written' = {}
    /\ pc' = "write"
    /\ UNCHANGED <<log, committed, redis, now, reader, faults>>

\* A poll, and apply() up to its pipeline: misshapen records are skipped.
Poll ==
    /\ pc = "poll"
    /\ position' \in Polled
    /\ todo' = [p \in Pages |-> Parsed(p, position[p], position'[p])]
    /\ first' = position
    /\ stamp' = now
    /\ written' = {}
    /\ pc' = IF todo' = NothingToDo THEN "commit" ELSE "write"
    /\ UNCHANGED <<log, committed, redis, now, reader, faults>>

\* Mutant: the consumer is not rewound.
RedisFails_noRewind ==
    /\ pc = "write"
    /\ faults < MaxFaults
    /\ faults' = faults + 1
    /\ todo' = NothingToDo
    /\ written' = {}
    /\ pc' = "poll"
    /\ UNCHANGED <<log, committed, position, first, stamp, redis, now, reader>>

\* The pipeline raises, having run any number of its scripts: rewind().
RedisFails ==
    /\ pc = "write"
    /\ faults < MaxFaults
    /\ faults' = faults + 1
    /\ position' = first
    /\ todo' = NothingToDo
    /\ written' = {}
    /\ pc' = "poll"
    /\ UNCHANGED <<log, committed, first, stamp, redis, now, reader>>

\* All outcomes are in.
Applied ==
    /\ pc = "write" /\ todo = NothingToDo
    /\ pc' = "commit"
    /\ UNCHANGED <<log, committed, position, first, stamp, todo, written>>
    /\ UNCHANGED <<redis, now, reader, faults>>

\* Only now are the batch's offsets committed.
Commit ==
    /\ pc = "commit"
    /\ committed' = position
    /\ pc' = "announce"
    /\ UNCHANGED <<log, position, first, stamp, todo, written>>
    /\ UNCHANGED <<redis, now, reader, faults>>

\* A commit that fails is logged, and the writer goes on.
CommitFails ==
    /\ pc = "commit"
    /\ faults < MaxFaults
    /\ faults' = faults + 1
    /\ pc' = "announce"
    /\ UNCHANGED <<log, committed, position, first, stamp, todo, written>>
    /\ UNCHANGED <<redis, now, reader>>

\* Hints.announce, best effort.
Announce ==
    /\ pc = "announce"
    /\ pc' = "poll"
    /\ written' = {}
    /\ UNCHANGED <<log, committed, position, first, stamp, todo>>
    /\ UNCHANGED <<redis, now, reader, faults>>

\* The writer dies and starts again from the committed offsets.
Crash ==
    /\ faults < MaxFaults
    /\ faults' = faults + 1
    /\ pc' = "poll"
    /\ position' = committed
    /\ todo' = NothingToDo
    /\ written' = {}
    /\ UNCHANGED <<log, committed, first, stamp, redis, now, reader>>

----------------------------------------------------------------------------
(* The reader.                                                             *)

\* The starts in the index whose windows are retained.  (The limit asked for
\* is at least their number.)
Query ==
    /\ rpc = "idle"
    /\ starts' = {w \in index : w > now - Retention - Length}
    /\ rpc' = "fetch"
    /\ UNCHANGED <<log, committed, consumer, redis, now, response, faults>>

\* One MULTI/EXEC for all of them; those that have expired are skipped.
Fetch ==
    /\ rpc = "fetch"
    /\ response' = [w \in Windows |-> IF w \in starts THEN window[w] ELSE NoWindow]
    /\ rpc' = "idle"
    /\ starts' = {}
    /\ UNCHANGED <<log, committed, consumer, redis, now, faults>>

----------------------------------------------------------------------------
Writer ==
    \/ Poll \/ Script \/ Applied \/ Commit \/ Announce

Next ==
    \/ Writer \/ RedisFails \/ CommitFails \/ Crash
    \/ Query \/ Fetch \/ Tick

Spec == Init /\ [][Next]_vars

\* The writer polls for as long as it runs.
FairSpec == Spec /\ WF_vars(Writer)

----------------------------------------------------------------------------
(* Properties.                                                             *)

\* Every variable holds a value of its kind.
WindowTypes == [generation : -1..MaxGeneration, counts : [Pages -> 0..MaxViews]]
TypeOK ==
    /\ committed \in [Pages -> 0..MaxResults]
    /\ pc \in {"poll", "write", "commit", "announce"}
    /\ position \in [Pages -> 0..MaxResults]
    /\ first \in [Pages -> 0..MaxResults]
    /\ stamp \in 0..now
    /\ todo \in [Pages -> SUBSET (1..MaxResults)]
    /\ written \subseteq Windows
    /\ window \in [Windows -> WindowTypes]
    /\ index \subseteq Windows
    /\ now \in 0..MaxNow
    /\ rpc \in {"idle", "fetch"}
    /\ starts \subseteq Windows
    /\ response \in [Windows -> WindowTypes]
    /\ faults \in 0..MaxFaults

Retained(w) == now < ExpireAt(w)

\* windows.latest, for one window: the newest generation that reached it, and
\* the last result of each page within that generation.
Of(w, p) == {i \in DOMAIN log[p] : log[p][i].start = w}
Latest(w) ==
    LET newest == Max({-1} \cup UNION {{log[p][i].generation : i \in Of(w, p)} :
                                       p \in Pages})
        last(p) == Max({0} \cup {i \in Of(w, p) : log[p][i].generation = newest})
    IN  [generation |-> newest,
         counts |-> [p \in Pages |->
                        IF last(p) = 0 THEN 0 ELSE log[p][last(p)].views]]

\* "Read the way the windows writer leaves Redis": once the writer has written
\* every result, each retained window is what windows.latest makes of the
\* topic, whatever was retried, repeated or redelivered on the way.
Converged ==
    pc = "poll" /\ (\A p \in Pages : position[p] = Len(log[p]))
      => \A w \in Windows : Retained(w) => window[w] = Latest(w)

\* "For each retained window, results cannot move back from a generation Redis
\* has already accepted."
GenerationNeverBack ==
    [][\A w \in Windows :
           Retained(w)' => window'[w].generation >= window[w].generation]_vars

\* A response never shows a page's count under a generation that did not
\* produce it, nor a window whole that is a mix of two.
OneGeneration ==
    \A w \in Windows, p \in Pages :
        response[w].counts[p] # 0
          => \E i \in Of(w, p) :
                /\ log[p][i].generation = response[w].generation
                /\ log[p][i].views = response[w].counts[p]

\* "A hint is a reason to read, and the read must find it": a window announced
\* is in Redis, and in the index a reader would start from, until it expires.
HintsFindTheirWindow ==
    pc = "announce"
      => \A w \in written : Retained(w) => window[w] # NoWindow /\ w \in index

\* Types hold, and hints find their window.
WindowInvariant == TypeOK /\ HintsFindTheirWindow

\* Every result is written in the end; a misshapen record does not block its
\* partition.
CatchesUp == <>[](\A p \in Pages : position[p] = Len(log[p]))
=============================================================================
