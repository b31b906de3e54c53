---------------------------- MODULE GlobalCache ----------------------------
(***************************************************************************)
(* GlobalCache of cache_x.rs: the sharded answer cache below DnsCache, and *)
(* its single flight get_or_fetch.  Concurrent tasks interleave between    *)
(* the locks: the shard's lock, the lock of the flights, and fetch().await *)
(* at which a task may also be cancelled (its future dropped).             *)
(*                                                                         *)
(* Time is a clock that advances in steps; an answer is the number of the  *)
(* fetch that brought it.  TTLs are small numbers in place of seconds,     *)
(* within the bounds of clamp_ttl.                                         *)
(***************************************************************************)
EXTENDS Naturals, FiniteSets, FiniteSetsExt, Functions

CONSTANTS
    Tasks,          \* concurrent callers of get_or_fetch
    Keys,           \* owner, type, class
    ShardOf,        \* shard_idx
    max_per_shard,
    Ttls,           \* clamped TTLs of fetched answers
    stale_window,
    MaxTime,        \* bound: the clock
    MaxFetches,     \* bound: fetches begun
    Cancellable     \* whether a leader may be dropped at fetch().await

Shards == {ShardOf[k] : k \in Keys}
Budget == max_per_shard \div 16 + 1

VARIABLES
    now,      \* the clock
    map,      \* per shard: key -> entry
    live,     \* per shard: the counter that len() sums
    gen,      \* the generation counter
    flights,  \* key -> number of the flight
    task,     \* per task: where it is in get_or_fetch
    fetches,  \* fetches begun; the number of the last one
    said      \* per flight: what was sent to its subscribers

vars == <<now, map, live, gen, flights, task, fetches, said>>

Idle == [at |-> "idle"]
is_fresh(e, t) == t < e.expires_at
is_servable_stale(e, t) == t >= e.expires_at /\ t < e.stale_until
Dead(e, t) == ~is_fresh(e, t) /\ ~is_servable_stale(e, t)

Init ==
    /\ now = 0
    /\ map = [s \in Shards |-> <<>>]
    /\ live = [s \in Shards |-> 0]
    /\ gen = 1
    /\ flights = <<>>
    /\ task = [t \in Tasks |-> Idle]
    /\ fetches = 0
    /\ said = <<>>

(***************************************************************************)
(* insert                                                                  *)
(***************************************************************************)

\* evict_expired_or_oldest: what may be left of a shard.  Expired entries go
\* first, in the order of the hash map (any), then the lowest generations.
evict_expired_or_oldest(m) ==
    LET dead == {k \in DOMAIN m : Dead(m[k], now)}
        Removable == {D \in SUBSET dead : Cardinality(D) = IF Cardinality(dead) < Budget
                                                          THEN Cardinality(dead) ELSE Budget}
        Oldest(S, n) == CHOOSE R \in SUBSET S :
                            /\ Cardinality(R) = IF Cardinality(S) < n THEN Cardinality(S) ELSE n
                            /\ \A x \in R, y \in S \ R : m[x].insert_gen < m[y].insert_gen
    IN  {Restrict(m, (DOMAIN m \ D) \ Oldest(DOMAIN m \ D, Budget - Cardinality(D))) : D \in Removable}

\* The room that insert makes in a full shard.
Room(m) == IF Cardinality(DOMAIN m) >= max_per_shard THEN evict_expired_or_oldest(m) ELSE {m}

\* A shard's lock is taken and released in one step, except by an insert
\* between a new entry and its count: len() reads the counters without it.
Counting(s) == {t \in Tasks : task[t].at = "count" /\ ShardOf[task[t].key] = s}
Unlocked(s) == Counting(s) = {}

(***************************************************************************)
(* get_or_fetch                                                            *)
(***************************************************************************)

\* lookup with the caller's time.
lookup(k, at) ==
    LET m == map[ShardOf[k]] IN
    IF k \in DOMAIN m /\ ~Dead(m[k], at) THEN {m[k].answer} ELSE {}

Done(outcome) == [at |-> "done", outcome |-> outcome]

\* Fresh and stale answers are returned at once.
Lookup(t, k) ==
    /\ task[t] = Idle
    /\ Unlocked(ShardOf[k])
    /\ task' = [task EXCEPT ![t] = IF lookup(k, now) # {} THEN Done("hit")
                                   ELSE [at |-> "missed", key |-> k]]
    /\ UNCHANGED <<now, map, live, gen, flights, fetches, said>>

\* Mutant: the flights are not asked, every miss leads.
MutantJoinOrLead(t) ==
    /\ task[t].at = "missed"
    /\ LET k == task[t].key IN
       /\ fetches < MaxFetches
       /\ fetches' = fetches + 1
       /\ flights' = [x \in DOMAIN flights \cup {k} |-> IF x = k THEN fetches' ELSE flights[x]]
       /\ said' = [f \in 1 .. fetches' |-> IF f = fetches' THEN "nothing" ELSE said[f]]
       /\ task' = [task EXCEPT ![t] = [at |-> "fetching", key |-> k, flight |-> fetches']]
    /\ UNCHANGED <<now, map, live, gen>>

\* Join the key's flight, or lead a new one and begin the fetch.
JoinOrLead(t) ==
    /\ task[t].at = "missed"
    /\ LET k == task[t].key IN
       \/ /\ k \in DOMAIN flights
          /\ task' = [task EXCEPT ![t] = [at |-> "waiting", key |-> k, flight |-> flights[k]]]
          /\ UNCHANGED <<flights, fetches, said>>
       \/ /\ k \notin DOMAIN flights
          /\ fetches < MaxFetches
          /\ fetches' = fetches + 1
          /\ flights' = [x \in DOMAIN flights \cup {k} |-> IF x = k THEN fetches' ELSE flights[x]]
          /\ said' = [f \in 1 .. fetches' |-> IF f = fetches' THEN "nothing" ELSE said[f]]
          /\ task' = [task EXCEPT ![t] = [at |-> "fetching", key |-> k, flight |-> fetches']]
    /\ UNCHANGED <<now, map, live, gen>>

\* The fetch ends, with an answer or an error, and the flight is removed.
FetchEnds(t, outcome) ==
    /\ task[t].at = "fetching"
    /\ flights' = Restrict(flights, DOMAIN flights \ {task[t].key})
    /\ task' = [task EXCEPT ![t] = [@ EXCEPT !.at = IF outcome = "ok" THEN "stamp" ELSE "fail"]]
    /\ UNCHANGED <<now, map, live, gen, fetches, said>>

\* insert takes its generation before the shard's lock ...
TakeGeneration(t) ==
    /\ task[t].at = "stamp"
    /\ gen' = gen + 1
    /\ task' = [task EXCEPT ![t] = [at |-> "insert", key |-> @.key, flight |-> @.flight, gen |-> gen]]
    /\ UNCHANGED <<now, map, live, flights, fetches, said>>

\* ... the entry goes in under it ...
insert(t) ==
    /\ task[t].at = "insert"
    /\ LET k == task[t].key
           s == ShardOf[k]
       IN  /\ Unlocked(s)
           /\ \E ttl \in Ttls, m \in Room(map[s]) :
                 LET e == [answer |-> task[t].flight, expires_at |-> now + ttl,
                           stale_until |-> now + ttl + stale_window, insert_gen |-> task[t].gen]
                     new == k \notin DOMAIN m
                 IN  /\ map' = [map EXCEPT ![s] = [x \in DOMAIN m \cup {k} |-> IF x = k THEN e ELSE m[x]]]
                     /\ task' = [task EXCEPT ![t] = [at |-> IF new THEN "count" ELSE "publish",
                                                     key |-> k, flight |-> @.flight]]
    /\ UNCHANGED <<now, live, gen, flights, fetches, said>>

\* ... and a new one is counted before the lock is released.
Count(t) ==
    /\ task[t].at = "count"
    /\ live' = [live EXCEPT ![ShardOf[task[t].key]] = @ + 1]
    /\ task' = [task EXCEPT ![t].at = "publish"]
    /\ UNCHANGED <<now, map, gen, flights, fetches, said>>

\* Mutant: a leader that failed sends nothing.
MutantPublish(t) ==
    /\ task[t].at \in {"publish", "fail"}
    /\ said' = [said EXCEPT ![task[t].flight] = IF task[t].at = "publish" THEN "ok" ELSE @]
    /\ task' = [task EXCEPT ![t] = Done(IF @.at = "publish" THEN "fetched" ELSE "failed")]
    /\ UNCHANGED <<now, map, live, gen, flights, fetches>>

\* The leader tells the subscribers of the flight it removed, and returns.
Publish(t) ==
    /\ task[t].at \in {"publish", "fail"}
    /\ said' = [said EXCEPT ![task[t].flight] = IF task[t].at = "publish" THEN "ok" ELSE "failed"]
    /\ task' = [task EXCEPT ![t] = Done(IF @.at = "publish" THEN "fetched" ELSE "failed")]
    /\ UNCHANGED <<now, map, live, gen, flights, fetches>>

\* A follower gets what its flight's leader sent.
Hear(t) ==
    /\ task[t].at = "waiting" /\ said[task[t].flight] # "nothing"
    /\ task' = [task EXCEPT ![t] = Done(IF said[task[t].flight] = "ok" THEN "joined" ELSE "failed")]
    /\ UNCHANGED <<now, map, live, gen, flights, fetches, said>>

\* The caller of the leader drops the future while it awaits the fetch: nothing
\* runs after the await, and the flight stays.
Cancel(t) ==
    /\ Cancellable
    /\ task[t].at = "fetching"
    /\ task' = [task EXCEPT ![t] = Done("cancelled")]
    /\ UNCHANGED <<now, map, live, gen, flights, fetches, said>>

\* The caller takes the result.
Return(t) ==
    /\ task[t].at = "done"
    /\ task' = [task EXCEPT ![t] = Idle]
    /\ UNCHANGED <<now, map, live, gen, flights, fetches, said>>

(***************************************************************************)
(* flush, and time                                                         *)
(***************************************************************************)

\* One shard at a time, its counter with it.
flush(s) ==
    /\ map[s] # <<>> /\ Unlocked(s)
    /\ map' = [map EXCEPT ![s] = <<>>]
    /\ live' = [live EXCEPT ![s] = 0]
    /\ UNCHANGED <<now, gen, flights, task, fetches, said>>

Tick ==
    /\ now < MaxTime
    /\ now' = now + 1
    /\ UNCHANGED <<map, live, gen, flights, task, fetches, said>>

TaskStep(t) ==
    \/ JoinOrLead(t)
    \/ FetchEnds(t, "ok") \/ FetchEnds(t, "error")
    \/ TakeGeneration(t)
    \/ insert(t) \/ Count(t)
    \/ Publish(t)
    \/ Hear(t)
    \/ Return(t)

Next ==
    \/ \E t \in Tasks : (\E k \in Keys : Lookup(t, k)) \/ TaskStep(t) \/ Cancel(t)
    \/ \E s \in Shards : flush(s)
    \/ Tick

\* The runtime polls every task, and a fetch ends: it has a timeout.
Spec == Init /\ [][Next]_vars /\ \A t \in Tasks : WF_vars(TaskStep(t))

(***************************************************************************)
(* Properties.                                                             *)
(***************************************************************************)
TypeOK ==
    /\ now \in 0 .. MaxTime /\ fetches \in 0 .. MaxFetches /\ gen \in 1 .. MaxFetches + 1
    /\ \A s \in Shards : DOMAIN map[s] \subseteq {k \in Keys : ShardOf[k] = s}
    /\ DOMAIN flights \subseteq Keys
    /\ \A t \in Tasks : task[t].at \in {"idle", "missed", "waiting", "fetching", "stamp", "fail",
                                        "insert", "count", "publish", "done"}

\* No shard holds more than max_per_shard entries: eviction makes room before
\* every insertion, whatever mixture of expired, stale and fresh entries and of
\* generations taken out of order it meets (insert 207-216).
ShardsBounded == \A s \in Shards : Cardinality(DOMAIN map[s]) <= max_per_shard

\* len() never says less than what the cache holds, but for an entry whose
\* insert has not counted it yet, at most one for each shard: eviction removes
\* entries and leaves the counter, so otherwise it may only be too high
\* (insert 213-216, flush, len).
LenNeverBelow ==
    \A s \in Shards : /\ Cardinality(Counting(s)) <= 1
                      /\ Cardinality(DOMAIN map[s]) <= live[s] + Cardinality(Counting(s))

\* Single flight: at most one fetch of a key is in progress, and every follower
\* waits for a flight that was in progress when it joined (get_or_fetch 243-255).
OneFetchPerKey ==
    /\ \A t, u \in Tasks : task[t].at = "fetching" /\ task[u].at = "fetching" /\ t # u
          => task[t].key # task[u].key
    /\ \A t \in Tasks : task[t].at = "fetching" =>
          task[t].key \in DOMAIN flights /\ flights[task[t].key] = task[t].flight

\* A follower hears: "Subscribers get Ok(entry) or Err(()) if leader failed"
\* (cache_x.rs 111).
FollowersHear == \A t \in Tasks : task[t].at = "waiting" ~> task[t].at # "waiting"

=============================================================================
