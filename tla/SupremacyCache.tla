----------------------------- MODULE SupremacyCache -----------------------------
(***************************************************************************)
(* The cache and the resolve path of supremacy/: L2Cache with its shards,  *)
(* stale-while-revalidate, the answers made from cached NSEC ranges, the   *)
(* query budget and resolve_key, which puts them together.  fetch_upstream *)
(* always fails in this code; entries come from the ranges and from the    *)
(* callers of put.  A value is its DNSSEC mark; Instant is a tick.         *)
(***************************************************************************)
EXTENDS Naturals, FiniteSets

CONSTANTS
    Keys, Shards, idx,  \* idx: Keys -> Shards
    Tasks,              \* calls of resolve_key
    lookup,             \* Keys -> what AggressiveNsec::lookup answers
    Ttls,               \* lifetimes put is called with
    NsecTtl,            \* lifetime of an answer made from a range
    max_stale, total,   \* SwrConfig and QueryBudget
    cap,                \* entries of a shard
    MaxTime, MaxPuts    \* bounds

VARIABLES
    map,     \* Keys -> entry, or None
    now,     \* the clock
    task,    \* Tasks -> a call
    puts,    \* number of put so far
    flusher  \* a call of flush_all: the shards still to clear

vars == <<map, now, task, puts, flusher>>

Marks == {"Secure", "Insecure", "Bogus"}
None == [dnssec |-> "none", expires |-> 0, stale_until |-> 0, nth |-> 0]
Entries == [dnssec : Marks, expires : Nat, stale_until : Nat, nth : Nat]
Idle == [pc |-> "idle", key |-> "none", started |-> 0, result |-> None]

Init ==
    /\ map = [k \in Keys |-> None]
    /\ now = 0
    /\ task = [t \in Tasks |-> Idle]
    /\ puts = 0
    /\ flusher = [todo |-> {}, since |-> 0]

\* SwrEntry::freshness, with stale answers enabled and deny_on_bogus set.
freshness(e, at) ==
    CASE e # None /\ at < e.expires -> "Fresh"
      [] e # None /\ at >= e.expires /\ at < e.stale_until /\ e.dnssec # "Bogus" -> "StaleServable"
      [] OTHER -> "Dead"

\* put: a Secure entry that has not expired gives way to Secure ones only; a
\* full shard drops what is past serving, then some entries of its own choice.
Occupied(m, s) == {k \in Keys : idx[k] = s /\ m[k] # None}
Dropped(m, S) == [k \in Keys |-> IF k \in S THEN None ELSE m[k]]
SecureStable(k, mark, at) ==
    map[k].dnssec = "Secure" /\ mark # "Secure" /\ at < map[k].expires
Rooms(k, at) ==
    LET full == Occupied(map, idx[k])
        kept == {j \in full : at < map[j].stale_until}
        drop_n == (Cardinality(kept) \div 8) + 1
    IN  IF Cardinality(full) < cap THEN {map}
        ELSE IF Cardinality(kept) < cap THEN {Dropped(map, full \ kept)}
        ELSE {Dropped(map, (full \ kept) \union D) :
                 D \in {S \in SUBSET kept : Cardinality(S) = drop_n}}
Puts(k, mark, ttl, at) ==
    IF SecureStable(k, mark, at) THEN {map}
    ELSE {[m EXCEPT ![k] = [dnssec |-> mark, expires |-> at + ttl,
                            stale_until |-> at + ttl + max_stale, nth |-> puts + 1]] :
              m \in Rooms(k, at)}

put(k) ==
    /\ puts < MaxPuts
    /\ \E mark \in Marks, ttl \in Ttls : map' \in Puts(k, mark, ttl, now)
    /\ puts' = puts + 1
    /\ UNCHANGED <<now, task, flusher>>

Tick ==
    /\ now < MaxTime
    /\ now' = now + 1
    /\ UNCHANGED <<map, task, puts, flusher>>

\* flush_all: one shard after the other, each under its own lock.
StartFlush ==
    /\ flusher.todo = {} /\ flusher.since = 0
    /\ flusher' = [todo |-> Shards, since |-> puts + 1]
    /\ UNCHANGED <<map, now, task, puts>>
MutantFlushShard ==
    \E s \in flusher.todo :
        /\ map' = IF flusher.todo = {s} THEN map ELSE Dropped(map, Occupied(map, s))
        /\ flusher' = [flusher EXCEPT !.todo = @ \ {s}]
        /\ UNCHANGED <<now, task, puts>>
FlushShard ==
    \E s \in flusher.todo :
        /\ map' = Dropped(map, Occupied(map, s))
        /\ flusher' = [flusher EXCEPT !.todo = @ \ {s}]
        /\ UNCHANGED <<now, task, puts>>

\* resolve_key.  The instant is read once, before the entry.
Done(t, result) == task' = [task EXCEPT ![t].pc = "done", ![t].result = result]
Goto(t, pc) == task' = [task EXCEPT ![t].pc = pc]
Start(t) ==
    /\ task[t].pc = "idle"
    /\ \E k \in Keys : task' = [task EXCEPT ![t] = [Idle EXCEPT !.pc = "get_entry", !.key = k,
                                                                !.started = now]]
    /\ UNCHANGED <<map, now, puts, flusher>>
decide_swr(t) ==
    /\ task[t].pc = "get_entry"
    /\ IF freshness(map[task[t].key], task[t].started) = "Dead" THEN Goto(t, "nsec")
       ELSE Done(t, map[task[t].key])
    /\ UNCHANGED <<map, now, puts, flusher>>

\* The NSEC ranges: a denial of the name is cached as Secure, dated at the
\* start of the call; a denial of the type is not cached.
Aggregate(t) ==
    /\ task[t].pc = "nsec"
    /\ CASE lookup[task[t].key] = "NxDomain" ->
              /\ map' \in Puts(task[t].key, "Secure", NsecTtl, task[t].started)
              /\ puts' = puts + 1
              /\ Done(t, None)
         [] lookup[task[t].key] = "NoData" -> Done(t, None) /\ UNCHANGED <<map, puts>>
         [] OTHER -> Goto(t, "budget") /\ UNCHANGED <<map, puts>>
    /\ UNCHANGED <<now, flusher>>

\* The stale answer of get, or the error: a fresh entry does not count here.
Rescue(t, at) ==
    IF freshness(map[task[t].key], at) = "StaleServable"
    THEN Done(t, map[task[t].key]) ELSE Goto(t, "error")
Budget(t) ==
    /\ task[t].pc = "budget"
    /\ IF now - task[t].started >= total THEN Rescue(t, task[t].started)
       ELSE Goto(t, "fetch_upstream")
    /\ UNCHANGED <<map, now, puts, flusher>>
FetchFails(t) ==
    /\ task[t].pc = "fetch_upstream"
    /\ Rescue(t, now)
    /\ UNCHANGED <<map, now, puts, flusher>>

Next ==
    \/ Tick \/ StartFlush \/ FlushShard
    \/ \E k \in Keys : put(k)
    \/ \E t \in Tasks :
          Start(t) \/ decide_swr(t) \/ Aggregate(t) \/ Budget(t) \/ FetchFails(t)
Spec == Init /\ [][Next]_vars

\* ------------------------------------------------------------- properties
TypeOK ==
    /\ map \in [Keys -> Entries \union {None}]
    /\ now \in 0..MaxTime
    /\ \A t \in Tasks : task[t].pc \in {"idle", "get_entry", "nsec", "budget",
                                        "fetch_upstream", "error", "done"}
    /\ flusher.todo \subseteq Shards

\* Whichever of its three reads of the cache a call answers from, with other
\* calls putting and flushing in between: the answer was still to be served
\* when the call began, and one past its lifetime is never a bogus one.
ServedInTime ==
    \A t \in Tasks : (task[t].pc = "done" /\ task[t].result # None) =>
        /\ task[t].started < task[t].result.stale_until
        /\ task[t].result.dnssec = "Bogus" => task[t].started < task[t].result.expires

\* put never replaces a Secure answer that has not expired by another mark,
\* although resolve_key dates its entries back to the start of the call.
KeepsSecure ==
    \A k \in Keys : (map[k].dnssec = "Secure" /\ now < map[k].expires)
                     => map'[k].dnssec \in {"Secure", "none"}

\* A shard never holds more than cap entries, its drop of an eighth included.
ShardsBounded == \A s \in Shards : Cardinality(Occupied(map, s)) <= cap

\* Once flush_all is through, nothing is left that was put before it began.
FlushComplete ==
    (flusher.todo = {} /\ flusher.since # 0) =>
        \A k \in Keys : map[k] # None => map[k].nth >= flusher.since
=============================================================================
