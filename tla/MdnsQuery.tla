------------------------------ MODULE MdnsQuery ------------------------------
(***************************************************************************)
(* mDNS lookups: the record cache of mdns_full.rs and query_raw of         *)
(* mdns_runtime.rs, which answers from it or asks the links and fills it.  *)
(*                                                                         *)
(* Time is counted in steps of which MDNS_CACHE_FLUSH_GRACE (one second)   *)
(* has Grace.  A key is an interface and a name; type and class are those  *)
(* of the question.  The cache is global: threads that run query_raw at    *)
(* the same time insert what each of them receives under its mutex.  A     *)
(* datagram carries one record, and a socket either has one or is empty.   *)
(* said is a history variable: the records inserted under each key, in     *)
(* order.                                                                  *)
(***************************************************************************)
EXTENDS Naturals, Sequences, FiniteSets

CONSTANTS
    Queries,     \* threads that run query_raw
    Interfaces,
    Names,
    Data,        \* contents of records
    Ttls,        \* lifetimes of records, 0 for a goodbye
    Grace,       \* MDNS_CACHE_FLUSH_GRACE
    Timeout,     \* how long a query waits
    Settle,      \* RESPONSE_SETTLE_TIME
    MaxTime,     \* bound: when the clock stops
    MaxSaid      \* bound: records inserted

Keys == Interfaces \X Names

VARIABLES
    now,
    cache,   \* cache[k]: the records kept under k
    said,    \* said[k]: the records inserted under k, with their times
    query    \* query[q]: the state of a lookup

vars == <<now, cache, said, query>>

(* on are the interfaces of a lookup's sockets, heard those whose socket   *)
(* has a datagram, left those it has still to empty in this pass.          *)
Idle == [phase |-> "idle", name |-> CHOOSE n \in Names : TRUE, on |-> {}, deadline |-> 0,
         settle |-> 0, answers |-> {}, reply |-> {}, heard |-> {}, left |-> {}]

Live(records, t) == {r \in records : r.expires > t}

-----------------------------------------------------------------------------
MutantInsert(records, data, ttl, flush, t) ==
    LET live == Live(records, t)
        shortened(r) == [r EXCEPT !.expires = IF @ > t + Grace THEN t + Grace ELSE @]
        flushed == IF flush THEN {shortened(r) : r \in live} ELSE live
    IN  IF ttl = 0
        THEN {IF r.data = data THEN shortened(r) ELSE r : r \in live}
        ELSE {r \in flushed : r.data # data}
                \cup {[data |-> data, received |-> t, expires |-> t + ttl]}

(* MdnsCache::insert.                                                      *)
insert(records, data, ttl, flush, t) ==
    LET live == Live(records, t)
        shortened(r) == [r EXCEPT !.expires = IF @ > t + Grace THEN t + Grace ELSE @]
        flushed == IF ~flush THEN live
                   ELSE {IF r.data # data /\ t - r.received >= Grace THEN shortened(r) ELSE r :
                            r \in live}
    IN  IF ttl = 0
        THEN {IF r.data = data THEN shortened(r) ELSE r : r \in live}
        ELSE {r \in flushed : r.data # data}
                \cup {[data |-> data, received |-> t, expires |-> t + ttl]}

(* cached_records: what MdnsCache::lookup returns, which also drops what   *)
(* has expired.                                                            *)
cached_records(on, n) ==
    {[on |-> i, data |-> r.data] : <<i, r>> \in
        {<<i, r>> \in on \X UNION {cache[k] : k \in Keys} : r \in Live(cache[<<i, n>>], now)}}

Init ==
    /\ now = 0
    /\ cache = [k \in Keys |-> {}]
    /\ said = [k \in Keys |-> <<>>]
    /\ query = [q \in Queries |-> Idle]

Tick ==
    /\ now < MaxTime
    /\ now' = now + 1
    /\ UNCHANGED <<cache, said, query>>

(* query_raw up to the cached answer, or the multicast questions.  Some    *)
(* sockets may not open, and opening or sending may fail the query.        *)
Ask(q, n, on, opened) ==
    /\ query[q].phase = "idle"
    /\ cache' = [k \in Keys |-> IF k[1] \in on /\ k[2] = n THEN Live(cache[k], now) ELSE cache[k]]
    /\ LET cached == cached_records(on, n)
           asked == [Idle EXCEPT !.name = n, !.on = opened]
           becomes(state) == query' = [query EXCEPT ![q] = state]
       IN  \/ cached # {} /\ becomes([asked EXCEPT !.phase = "answered", !.reply = cached])
           \/ /\ cached = {}
              /\ \/ opened = {} /\ becomes([asked EXCEPT !.phase = "none"])
                 \/ opened # {} /\ becomes([asked EXCEPT !.phase = "waiting", !.deadline = now + Timeout])
                 \/ becomes([asked EXCEPT !.phase = "failed"])
    /\ UNCHANGED <<now, said>>

(* A datagram comes to one of the sockets.                                 *)
Arrive(q, i) ==
    /\ query[q].phase \in {"waiting", "draining"}
    /\ i \in query[q].on \ query[q].heard
    /\ query' = [query EXCEPT ![q].heard = @ \cup {i}]
    /\ UNCHANGED <<now, cache, said>>

(* The top of the loop: the deadline has not passed.                       *)
Pass(q) ==
    /\ query[q].phase = "waiting" /\ now < query[q].deadline
    /\ query' = [query EXCEPT ![q].phase = "draining", ![q].left = query[q].on]
    /\ UNCHANGED <<now, cache, said>>

(* The socket that is read, until it is empty and whatever the deadline.   *)
Reading(q, i) ==
    query[q].phase = "draining" /\ query[q].left # {} /\ i = CHOOSE j \in query[q].left : TRUE

Inserted == LET count[s \in SUBSET Keys] ==
                    IF s = {} THEN 0
                    ELSE LET k == CHOOSE k \in s : TRUE IN Len(said[k]) + count[s \ {k}]
            IN  count[Keys]

(* A valid response is read from the socket on interface i.                *)
Receive(q, i, n, data, ttl, flush) ==
    LET k == <<i, n>>
        match == n = query[q].name
        answers == IF match THEN query[q].answers \cup {[on |-> i, data |-> data]}
                   ELSE query[q].answers
    IN  /\ Reading(q, i) /\ i \in query[q].heard
        /\ Inserted < MaxSaid
        /\ cache' = [cache EXCEPT ![k] = insert(@, data, ttl, flush, now)]
        /\ said' = [said EXCEPT ![k] =
                        Append(@, [data |-> data, ttl |-> ttl, flush |-> flush, at |-> now])]
        /\ query' = [query EXCEPT ![q].answers = answers, ![q].heard = @ \ {i},
                                  ![q].settle = IF answers # {} THEN now + Settle ELSE @]
        /\ UNCHANGED now

(* What is read is no response, or not one that came in on this interface. *)
Ignore(q, i) ==
    /\ Reading(q, i) /\ i \in query[q].heard
    /\ query' = [query EXCEPT ![q].heard = @ \ {i}]
    /\ UNCHANGED <<now, cache, said>>

(* The socket is empty, and the next one is read.                          *)
Empty(q, i) ==
    /\ Reading(q, i) /\ i \notin query[q].heard
    /\ query' = [query EXCEPT ![q].left = @ \ {i}]
    /\ UNCHANGED <<now, cache, said>>

Result(q) ==
    [query[q] EXCEPT !.phase = IF query[q].answers = {} THEN "none" ELSE "answered",
                     !.reply = query[q].answers, !.answers = {}, !.heard = {}]

(* Every socket was empty once: the answers have settled, or another pass. *)
EndPass(q) ==
    /\ query[q].phase = "draining" /\ query[q].left = {}
    /\ query' = [query EXCEPT ![q] = IF query[q].answers # {} /\ now >= query[q].settle
                                     THEN Result(q) ELSE [@ EXCEPT !.phase = "waiting"]]
    /\ UNCHANGED <<now, cache, said>>

(* The top of the loop: the time is up.                                    *)
Return(q) ==
    /\ query[q].phase = "waiting" /\ now >= query[q].deadline
    /\ query' = [query EXCEPT ![q] = Result(q)]
    /\ UNCHANGED <<now, cache, said>>

(* A socket fails, or a response that passed validate_ingress does not     *)
(* parse: the query fails, whatever it has heard.                          *)
Fail(q) ==
    /\ query[q].phase = "draining" /\ query[q].left # {}
    /\ query' = [query EXCEPT ![q].phase = "failed", ![q].answers = {}, ![q].heard = {}]
    /\ UNCHANGED <<now, cache, said>>

(* flush_cache.                                                            *)
flush_cache ==
    /\ cache' = [k \in Keys |-> {}]
    /\ said' = [k \in Keys |-> <<>>]
    /\ UNCHANGED <<now, query>>

LoopStep(q) ==
    \/ Pass(q) \/ EndPass(q) \/ Return(q) \/ Fail(q)
    \/ \E i \in Interfaces :
          \/ Ignore(q, i) \/ Empty(q, i)
          \/ \E n \in Names, data \in Data, ttl \in Ttls, f \in BOOLEAN : Receive(q, i, n, data, ttl, f)

Next ==
    \/ Tick
    \/ \E q \in Queries :
          \/ \E n \in Names, on \in SUBSET Interfaces \ {{}} : \E opened \in SUBSET on : Ask(q, n, on, opened)
          \/ \E i \in Interfaces : Arrive(q, i)
          \/ LoopStep(q)
    \/ flush_cache

Spec == Init /\ [][Next]_vars

(* The clock goes on and so does the thread of a query.                    *)
Fairness == WF_vars(Tick) /\ \A q \in Queries : WF_vars(LoopStep(q))

-----------------------------------------------------------------------------
TypeOK ==
    /\ now \in 0..MaxTime
    /\ \A k \in Keys : \A r \in cache[k] : r.data \in Data /\ r.received <= now
    /\ \A q \in Queries : query[q].phase \in {"idle", "waiting", "draining", "answered", "none", "failed"}

(* RFC 6762's rule for a record, from everything said under its key: data  *)
(* is alive at t when it was last announced less than its TTL ago, was not *)
(* withdrawn a grace period ago and no other data was announced as the     *)
(* whole set a grace period ago by someone who had not just heard of it.   *)
Alive(s, data, t) ==
    \E j \in DOMAIN s :
        /\ s[j].data = data /\ s[j].ttl > 0
        /\ t < s[j].at + s[j].ttl
        /\ \A m \in (j + 1)..Len(s) :
              /\ s[m].data = data => s[m].ttl = 0 /\ t < s[m].at + Grace
              /\ s[m].data # data /\ s[m].flush /\ s[m].ttl > 0 /\ s[m].at - s[j].at >= Grace
                    => t < s[m].at + Grace

(* What the cache would answer at any time from now on, unless it hears    *)
(* more, is what the rule says: insert's three passes over the records,    *)
(* which forget what was said, lose nothing that matters and keep nothing  *)
(* that was flushed or withdrawn.                                          *)
CacheFollowsRule ==
    \A k \in Keys, t \in now..(MaxTime + 1) :
        {r.data : r \in Live(cache[k], t)} = {data \in Data : Alive(said[k], data, t)}

(* A query comes to an end, with an answer or without, if its deadline     *)
(* comes before the clock of the model stops, unless from some time on it  *)
(* finds a datagram whenever it reads: within a pass the deadline is not   *)
(* looked at (query_raw).                                                  *)
Waiting(q) == query[q].phase \in {"waiting", "draining"}
QueriesEnd ==
    \A q \in Queries :
        \/ <>[](query[q].phase = "draining" /\ query[q].left # {})
        \/ Waiting(q) /\ query[q].deadline <= MaxTime ~> ~Waiting(q)

(* Refuted: the deadline ends a query, whatever goes on arriving.          *)
QueriesEndInTime ==
    \A q \in Queries : Waiting(q) /\ query[q].deadline <= MaxTime ~> ~Waiting(q)
=============================================================================
