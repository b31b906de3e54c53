----------------------------- MODULE Statistics -----------------------------
(***************************************************************************)
(* The counters of the resolver: queries add to them while they run, one   *)
(* atomic addition at a time; stats reads them and reset_statistics stores *)
(* zero in all but current_transactions, one by one.  All accesses are     *)
(* Relaxed, so that a reader and a reset may take the counters in any      *)
(* order.  No counter's value depends on another's, so an instance may     *)
(* follow some of them only.                                               *)
(***************************************************************************)
EXTENDS Integers, Sequences, FiniteSets

CONSTANTS
    Queries,              \* query_on_link calls
    Totals,               \* the counters reset_statistics clears, or some of them
    MaxQueries, MaxResets \* bounds: calls by each, and resets

AllTotals == {"transactions", "timeouts", "timeouts_served_stale", "failures_served_stale",
              "cache_hits", "cache_misses", "failures", "local_answers"}
Counters == Totals \union {"current_transactions"}

VARIABLES
    counter,  \* Counters
    query,    \* per call: where it is and what it has still to count
    reset,    \* reset_statistics: the counters it has still to clear
    report,   \* stats: the counters still to load, and those loaded
    resets,   \* resets so far
    during,   \* what was counted since the last reset began ...
    after     \* ... and since it ended

vars == <<counter, query, reset, report, resets, during, after>>

Zero == [c \in Counters |-> 0]
Init ==
    /\ counter = Zero
    /\ query = [q \in Queries |-> [pc |-> "idle", todo |-> <<>>, n |-> 0]]
    /\ reset = {}
    /\ report = [left |-> {}, loaded |-> Zero]
    /\ resets = 0 /\ during = Zero /\ after = Zero

\* What one query counts after it has begun: answered locally, from the cache,
\* by a flight of its own or of another; no server at all; a failure or a
\* timeout, with or without an old entry of the cache in its place.  Without a
\* cache there are neither hits nor misses.
Uncached ==
    {<<"local_answers">>, <<>>, <<"failures">>, <<"timeouts", "failures">>}
Cached ==
    {<<"cache_hits">>, <<"cache_misses">>, <<"cache_misses", "failures">>,
     <<"cache_misses", "timeouts", "failures">>,
     <<"cache_misses", "cache_hits", "timeouts", "timeouts_served_stale">>,
     <<"cache_misses", "cache_hits", "failures_served_stale">>}

Add(c, n) ==
    /\ counter' = [counter EXCEPT ![c] = @ + n]
    /\ during' = [during EXCEPT ![c] = @ + n]
    /\ after' = [after EXCEPT ![c] = @ + n]

Begin(q) ==
    /\ query[q].pc = "idle" /\ query[q].n < MaxQueries
    /\ IF "transactions" \in Totals THEN Add("transactions", 1) ELSE UNCHANGED <<counter, during, after>>
    /\ query' = [query EXCEPT ![q].pc = "enter", ![q].n = @ + 1]
    /\ UNCHANGED <<reset, report, resets>>

\* The guard of _active_transaction is made here; whatever way the call ends
\* drops it.
Enter(q) ==
    /\ query[q].pc = "enter"
    /\ Add("current_transactions", 1)
    /\ \E path \in Cached \union Uncached :
          query' = [query EXCEPT ![q].pc = "active", ![q].todo = SelectSeq(path, LAMBDA c : c \in Totals)]
    /\ UNCHANGED <<reset, report, resets>>

Count(q) ==
    /\ query[q].pc = "active" /\ query[q].todo # <<>>
    /\ Add(Head(query[q].todo), 1)
    /\ query' = [query EXCEPT ![q].todo = Tail(@)]
    /\ UNCHANGED <<reset, report, resets>>

Leave(q) ==
    /\ query[q].pc = "active" /\ query[q].todo = <<>>
    /\ Add("current_transactions", -1)
    /\ query' = [query EXCEPT ![q].pc = "idle"]
    /\ UNCHANGED <<reset, report, resets>>

\* monitor_reset_statistics, for a caller that may: the stores of
\* reset_statistics, each on its own.
StartReset ==
    /\ reset = {} /\ resets < MaxResets
    /\ resets' = resets + 1
    /\ reset' = Totals
    /\ during' = Zero
    /\ UNCHANGED <<counter, query, report, after>>

Store(c) ==
    /\ c \in reset
    /\ counter' = [counter EXCEPT ![c] = 0]
    /\ reset' = reset \ {c}
    /\ after' = IF reset = {c} THEN Zero ELSE after
    /\ UNCHANGED <<query, report, resets, during>>

\* stats, behind monitor_dump_statistics and statistics.
StartReport ==
    /\ report.left = {}
    /\ report' = [left |-> Counters, loaded |-> Zero]
    /\ UNCHANGED <<counter, query, reset, resets, during, after>>

Load(c) ==
    /\ c \in report.left
    /\ report' = [left |-> report.left \ {c}, loaded |-> [report.loaded EXCEPT ![c] = counter[c]]]
    /\ UNCHANGED <<counter, query, reset, resets, during, after>>

Next ==
    \/ \E q \in Queries : Begin(q) \/ Enter(q) \/ Count(q) \/ Leave(q)
    \/ StartReset \/ (\E c \in Totals : Store(c))
    \/ StartReport \/ (\E c \in Counters : Load(c))
Spec == Init /\ [][Next]_vars

-----------------------------------------------------------------------------
TypeOK ==
    /\ Totals \subseteq AllTotals
    /\ counter \in [Counters -> Int]
    /\ reset \subseteq Totals /\ report.left \subseteq Counters
    /\ resets \in 0 .. MaxResets

\* current_transactions is the number of calls that run: a reset leaves it
\* alone, or the calls it caught running would take it below zero (a u64).
ActiveExact ==
    /\ counter["current_transactions"] = Cardinality({q \in Queries : query[q].pc = "active"})
    /\ report.loaded["current_transactions"] \in 0 .. Cardinality(Queries)

\* Between two resets a total holds everything counted since the last one
\* ended, and nothing from before it began.
ResetForgets ==
    reset = {} => \A c \in Totals : after[c] <= counter[c] /\ counter[c] <= during[c]
=============================================================================
