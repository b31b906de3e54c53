----------------------- MODULE SupremacyCache_proofs ------------------------
(***************************************************************************)
(* The cache of supremacy/, for any keys, shards, calls and lifetimes: put *)
(* keeps a Secure answer until it expires, no call serves an answer that   *)
(* was past serving when it began, no shard outgrows its bound, and a      *)
(* flush that is through has left nothing from before it.  What they share *)
(* is a lemma on what put may make of the cache (PutMakes).                *)
(***************************************************************************)
EXTENDS SupremacyCache, FiniteSetTheorems, TLAPS

(* Keys are finitely many, a shard has room for an entry, and the          *)
(* lifetimes and the bounds are numbers.                                   *)
CacheConstants ==
    /\ IsFiniteSet(Keys) /\ idx \in [Keys -> Shards]
    /\ cap \in Nat \ {0}
    /\ Ttls \subseteq Nat /\ NsecTtl \in Nat /\ max_stale \in Nat
    /\ MaxTime \in Nat

Values == Entries \cup {None}
Steps == {"idle", "get_entry", "nsec", "budget", "fetch_upstream", "error", "done"}
Calls == [pc : Steps, key : Keys \cup {"none"}, started : Nat, result : Values]

(* The types, and that a call has a key and began no later than now.       *)
Types ==
    /\ map \in [Keys -> Values]
    /\ now \in 0 .. MaxTime
    /\ task \in [Tasks -> Calls]
    /\ puts \in Nat
    /\ flusher \in [todo : SUBSET Shards, since : Nat]
    /\ \A t \in Tasks : task[t].pc # "idle" => task[t].key \in Keys /\ task[t].started <= now

-----------------------------------------------------------------------------
(* Dropping entries keeps the others as they are.                          *)
LEMMA DroppedEntries ==
    ASSUME NEW m \in [Keys -> Values], NEW S
    PROVE  /\ Dropped(m, S) \in [Keys -> Values]
           /\ \A j \in Keys : Dropped(m, S)[j] = IF j \in S THEN None ELSE m[j]
<1>1. None \in Values  BY DEF Values
<1> QED  BY <1>1 DEF Dropped

(* Making room only drops entries.                                         *)
LEMMA RoomDrops ==
    ASSUME Types, NEW k \in Keys, NEW at, NEW m \in Rooms(k, at)
    PROVE  /\ m \in [Keys -> Values]
           /\ \A j \in Keys : m[j] = map[j] \/ m[j] = None
<1>1. map \in [Keys -> Values]  BY DEF Types
<1>2. m = map \/ \E S : m = Dropped(map, S)  BY Zenon DEF Rooms
<1>3. ASSUME NEW S, m = Dropped(map, S)
      PROVE  m \in [Keys -> Values] /\ \A j \in Keys : m[j] = map[j] \/ m[j] = None
  BY <1>1, <1>3, DroppedEntries
<1> QED  BY <1>1, <1>2, <1>3, Zenon

(* The entry that put makes.                                               *)
Made(mark, ttl, at) ==
    [dnssec |-> mark, expires |-> at + ttl, stale_until |-> at + ttl + max_stale, nth |-> puts + 1]

(* What put may make of the cache: the key has the new entry, unless a     *)
(* Secure one that has not expired stays; the others stay or are dropped.  *)
Outcome(m, k, mark, ttl, at) ==
    /\ m \in [Keys -> Values]
    /\ \A j \in Keys : j # k => m[j] = map[j] \/ m[j] = None
    /\ \/ m = map /\ SecureStable(k, mark, at)
       \/ m[k] = Made(mark, ttl, at) /\ ~SecureStable(k, mark, at)
    /\ Made(mark, ttl, at) \in Entries

(* put has no other outcome.                                               *)
LEMMA PutMakes ==
    ASSUME CacheConstants, Types, NEW k \in Keys, NEW mark \in Marks, NEW ttl \in Nat, NEW at \in Nat,
           NEW m \in Puts(k, mark, ttl, at)
    PROVE  Outcome(m, k, mark, ttl, at)
<1>1. Made(mark, ttl, at) \in Entries  BY DEF Made, Entries, CacheConstants, Types
<1>2. CASE SecureStable(k, mark, at)
  <2>1. m = map  BY <1>2, Zenon DEF Puts
  <2> QED  BY <1>1, <1>2, <2>1, Zenon DEF Types, Outcome
<1>3. CASE ~SecureStable(k, mark, at)
  <2>1. PICK r \in Rooms(k, at) : m = [r EXCEPT ![k] = Made(mark, ttl, at)]
    BY <1>3, Zenon DEF Puts, Made
  <2>2. r \in [Keys -> Values] /\ \A j \in Keys : r[j] = map[j] \/ r[j] = None
    BY RoomDrops, Zenon
  <2>3. Made(mark, ttl, at) \in Values  BY <1>1, Zenon DEF Values
  <2>4. m \in [Keys -> Values] /\ m[k] = Made(mark, ttl, at) /\ \A j \in Keys : j # k => m[j] = r[j]
    BY <2>1, <2>2, <2>3, Zenon
  <2> QED  BY <1>1, <1>3, <2>2, <2>4, Zenon DEF Outcome
<1> QED  BY <1>2, <1>3

(* The two callers of put, and what they put.                              *)
LEMMA PutsOf ==
    ASSUME CacheConstants, Types, NEW k \in Keys, put(k)
    PROVE  \E mark \in Marks, ttl \in Nat : now \in Nat /\ map' \in Puts(k, mark, ttl, now)
<1>1. now \in Nat /\ Ttls \subseteq Nat  BY DEF Types, CacheConstants
<1> QED  BY <1>1, Zenon DEF put

LEMMA AggregatePuts ==
    ASSUME CacheConstants, Types, NEW t \in Tasks, Aggregate(t)
    PROVE  /\ task[t].key \in Keys /\ task[t].started \in Nat /\ NsecTtl \in Nat /\ "Secure" \in Marks
           /\ \/ map' \in Puts(task[t].key, "Secure", NsecTtl, task[t].started) /\ puts' = puts + 1
              \/ map' = map /\ puts' = puts
<1>1. task[t].pc # "idle"  BY DEF Aggregate
<1>2. task[t] \in Calls  BY DEF Types
<1>3. task[t].key \in Keys /\ task[t].started \in Nat  BY <1>1, <1>2, Zenon DEF Types, Calls
<1>4. NsecTtl \in Nat /\ "Secure" \in Marks  BY DEF CacheConstants, Marks
<1>5. CASE lookup[task[t].key] = "NxDomain"
  BY <1>3, <1>4, <1>5 DEF Aggregate
<1>6. CASE lookup[task[t].key] = "NoData"
  BY <1>3, <1>4, <1>6 DEF Aggregate
<1>7. CASE lookup[task[t].key] \notin {"NxDomain", "NoData"}
  BY <1>3, <1>4, <1>7 DEF Aggregate
<1> QED  BY <1>5, <1>6, <1>7

-----------------------------------------------------------------------------
(* Every step keeps the cache, drops entries, or puts one: dated now, or   *)
(* Secure.                                                                 *)
LEMMA CacheSteps ==
    ASSUME CacheConstants, Types, [Next]_vars
    PROVE  \/ map' = map
           \/ FlushShard
           \/ \E k \in Keys, mark \in Marks, ttl \in Nat, at \in Nat :
                /\ map' \in Puts(k, mark, ttl, at)
                /\ at = now \/ mark = "Secure"
                /\ puts' = puts + 1 /\ flusher' = flusher
<1> DEFINE Putting == \E k \in Keys, mark \in Marks, ttl \in Nat, at \in Nat :
                        /\ map' \in Puts(k, mark, ttl, at)
                        /\ at = now \/ mark = "Secure"
                        /\ puts' = puts + 1 /\ flusher' = flusher
<1>1. ASSUME NEW k \in Keys, put(k) PROVE Putting
  <2>1. puts' = puts + 1 /\ flusher' = flusher  BY <1>1, Zenon DEF put
  <2> QED  BY <1>1, <2>1, PutsOf, Zenon
<1>2. ASSUME NEW t \in Tasks, Aggregate(t) PROVE map' = map \/ Putting
  <2>1. flusher' = flusher  BY <1>2, Zenon DEF Aggregate
  <2> QED  BY <1>2, <2>1, AggregatePuts, Zenon
<1>3. ASSUME NEW t \in Tasks, Start(t) \/ decide_swr(t) \/ Budget(t) \/ FetchFails(t) PROVE map' = map
  BY <1>3, Zenon DEF Start, decide_swr, Budget, FetchFails
<1>4. Tick \/ StartFlush \/ UNCHANGED vars => map' = map  BY Zenon DEF Tick, StartFlush, vars
<1> QED  BY <1>1, <1>2, <1>3, <1>4, Zenon DEF Next

(* No step, whatever else it does, undoes a Secure answer.                 *)
LEMMA SecureStays ==
    ASSUME CacheConstants, Types, [Next]_vars
    PROVE  KeepsSecure
<1> SUFFICES ASSUME NEW j \in Keys, map[j].dnssec = "Secure", now < map[j].expires
             PROVE  map'[j].dnssec \in {"Secure", "none"}
  BY DEF KeepsSecure
<1>1. map \in [Keys -> Values] /\ None.dnssec = "none"  BY DEF Types, None
<1>2. CASE map' = map  BY <1>2
<1>3. CASE FlushShard
  <2>1. PICK S : map' = Dropped(map, S)  BY <1>3, Zenon DEF FlushShard
  <2>2. map'[j] = map[j] \/ map'[j] = None  BY <1>1, <2>1, DroppedEntries
  <2> QED  BY <1>1, <2>2
<1>4. ASSUME NEW k \in Keys, NEW mark \in Marks, NEW ttl \in Nat, NEW at \in Nat,
             map' \in Puts(k, mark, ttl, at), at = now \/ mark = "Secure"
      PROVE  map'[j].dnssec \in {"Secure", "none"}
  <2>1. Outcome(map', k, mark, ttl, at)  BY <1>4, PutMakes
  <2>2. CASE j # k \/ map' = map  BY <1>1, <2>1, <2>2 DEF Outcome
  <2>3. CASE j = k /\ map'[k] = Made(mark, ttl, at) /\ ~SecureStable(k, mark, at)
    <3>1. mark = "Secure"  BY <1>4, <2>3, Zenon DEF SecureStable
    <3>2. map'[j].dnssec = mark  BY <2>3 DEF Made
    <3> QED  BY <3>1, <3>2
  <2> QED  BY <2>1, <2>2, <2>3, Zenon DEF Outcome
<1> QED  BY <1>2, <1>3, <1>4, CacheSteps, Zenon

-----------------------------------------------------------------------------
(* A step of a call leaves it with a place, its key and its start.         *)
LEMMA CallTyped ==
    ASSUME Types, NEW t \in Tasks, NEW c \in Calls, task' = [task EXCEPT ![t] = c],
           c.pc # "idle" => c.key \in Keys /\ c.started <= now, now' = now
    PROVE  /\ task' \in [Tasks -> Calls]
           /\ \A u \in Tasks : task'[u].pc # "idle" => task'[u].key \in Keys /\ task'[u].started <= now'
<1>1. task \in [Tasks -> Calls]  BY DEF Types
<1>2. task' \in [Tasks -> Calls] /\ task'[t] = c /\ \A u \in Tasks : u # t => task'[u] = task[u]
  BY <1>1, Zenon
<1>3. ASSUME NEW u \in Tasks, task'[u].pc # "idle" PROVE task'[u].key \in Keys /\ task'[u].started <= now'
  <2>1. CASE u = t  BY <1>2, <1>3, <2>1
  <2>2. CASE u # t
    <3>1. task'[u] = task[u]  BY <1>2, <2>2, Zenon
    <3> QED  BY <1>3, <3>1, Zenon DEF Types
  <2> QED  BY <2>1, <2>2
<1> QED  BY <1>2, <1>3, Zenon

(* The steps of a call after its start change its place, and its result.   *)
LEMMA CallSteps ==
    ASSUME CacheConstants, Types, NEW t \in Tasks,
           decide_swr(t) \/ Aggregate(t) \/ Budget(t) \/ FetchFails(t)
    PROVE  /\ task[t] \in Calls /\ task[t].pc # "idle" /\ task[t].key \in Keys
           /\ task[t].pc # "done"
           /\ \/ \E pc \in Steps \ {"idle", "done"} : Goto(t, pc)
              \/ \E r \in Values : Done(t, r)
<1>1. task[t] \in Calls  BY DEF Types
<1>2. task[t].pc \in {"get_entry", "nsec", "budget", "fetch_upstream"}
  BY DEF decide_swr, Aggregate, Budget, FetchFails
<1>3. task[t].key \in Keys  BY <1>2 DEF Types
<1>4. map[task[t].key] \in Values /\ None \in Values  BY <1>3 DEF Types, Values
<1>5. {"nsec", "budget", "fetch_upstream", "error"} \subseteq Steps \ {"idle", "done"}  BY DEF Steps
<1> DEFINE Moves == \/ \E pc \in Steps \ {"idle", "done"} : Goto(t, pc)
                    \/ \E r \in Values : Done(t, r)
<1>6. decide_swr(t) => Moves  BY <1>4, <1>5 DEF decide_swr
<1>7. Rescue(t, task[t].started) => Moves  BY <1>4, <1>5 DEF Rescue
<1>8. Budget(t) => Moves  BY <1>5, <1>7 DEF Budget
<1>9. FetchFails(t) => Moves  BY <1>4, <1>5 DEF FetchFails, Rescue
<1>10. Aggregate(t) => Moves
  <2>1. Aggregate(t) => Done(t, None) \/ Goto(t, "budget")  BY DEF Aggregate
  <2> QED  BY <1>4, <1>5, <2>1
<1> HIDE DEF Moves
<1>11. Moves  BY <1>6, <1>8, <1>9, <1>10
<1> QED  BY <1>1, <1>2, <1>3, <1>11 DEF Moves

(* What these two make of a call.                                          *)
Goes(c, pc) == [c EXCEPT !.pc = pc]
Ends(c, r) == [c EXCEPT !.pc = "done", !.result = r]

(* They are calls again, with the key and the start they had.              *)
LEMMA MovedCall ==
    ASSUME NEW c \in Calls, NEW pc \in Steps, NEW r \in Values
    PROVE  /\ Goes(c, pc) \in Calls /\ Goes(c, pc).pc = pc
           /\ Goes(c, pc).key = c.key /\ Goes(c, pc).started = c.started
           /\ Ends(c, r) \in Calls /\ Ends(c, r).pc = "done" /\ Ends(c, r).result = r
           /\ Ends(c, r).key = c.key /\ Ends(c, r).started = c.started
BY DEF Goes, Ends, Calls, Steps

(* The steps of a call, as a change of that call.                          *)
LEMMA GotoCall ==
    ASSUME Types, NEW t \in Tasks, NEW pc, Goto(t, pc)
    PROVE  task' = [task EXCEPT ![t] = Goes(task[t], pc)]
BY DEF Goto, Goes, Types

LEMMA DoneCall ==
    ASSUME Types, NEW t \in Tasks, NEW r, Done(t, r)
    PROVE  task' = [task EXCEPT ![t] = Ends(task[t], r)]
BY DEF Done, Ends, Types, Calls

(* A call that begins.                                                     *)
LEMMA StartedCall ==
    ASSUME Types, NEW t \in Tasks, Start(t)
    PROVE  \E c \in Calls : /\ task' = [task EXCEPT ![t] = c]
                            /\ c.pc = "get_entry" /\ c.key \in Keys /\ c.started = now
<1>1. PICK k \in Keys : task' = [task EXCEPT ![t] = [Idle EXCEPT !.pc = "get_entry", !.key = k, !.started = now]]
  BY Zenon DEF Start
<1>2. PICK c : c = [Idle EXCEPT !.pc = "get_entry", !.key = k, !.started = now]  OBVIOUS
<1>3. c = [pc |-> "get_entry", key |-> k, started |-> now, result |-> None]  BY <1>2 DEF Idle
<1>4. now \in Nat /\ None \in Values /\ "get_entry" \in Steps  BY DEF Types, Values, Steps
<1>5. c \in Calls  BY <1>3, <1>4 DEF Calls
<1>6. c.pc = "get_entry" /\ c.key \in Keys /\ c.started = now  BY <1>3
<1> QED  BY <1>1, <1>2, <1>5, <1>6, Zenon

(* Calls keep their types.                                                 *)
LEMMA CallsTyped ==
    ASSUME CacheConstants, Types, NEW t \in Tasks,
           Start(t) \/ decide_swr(t) \/ Aggregate(t) \/ Budget(t) \/ FetchFails(t)
    PROVE  /\ task' \in [Tasks -> Calls]
           /\ \A u \in Tasks : task'[u].pc # "idle" => task'[u].key \in Keys /\ task'[u].started <= now'
<1>1. now' = now /\ now <= now
  <2>1. now' = now  BY Zenon DEF Start, decide_swr, Aggregate, Budget, FetchFails
  <2>2. now <= now  BY DEF Types
  <2> QED  BY <2>1, <2>2
<1>2. CASE Start(t)
  <2>1. PICK c \in Calls : /\ task' = [task EXCEPT ![t] = c]
                           /\ c.pc = "get_entry" /\ c.key \in Keys /\ c.started = now
    BY <1>2, StartedCall
  <2> QED  BY <1>1, <2>1, CallTyped, Zenon
<1>3. CASE decide_swr(t) \/ Aggregate(t) \/ Budget(t) \/ FetchFails(t)
  <2>1. task[t] \in Calls /\ task[t].key \in Keys /\ task[t].started <= now
    BY <1>3, CallSteps, Zenon DEF Types
  <2>2. ASSUME NEW pc \in Steps \ {"idle", "done"}, Goto(t, pc)
        PROVE  \E c \in Calls : /\ task' = [task EXCEPT ![t] = c]
                                /\ c.key \in Keys /\ c.started <= now
    <3>1. None \in Values  BY DEF Values
    <3>2. LET c == Goes(task[t], pc)
          IN  c \in Calls /\ c.key = task[t].key /\ c.started = task[t].started
      BY <2>1, <3>1, MovedCall, Zenon
    <3> QED  BY <2>1, <2>2, <3>2, GotoCall
  <2>3. ASSUME NEW r \in Values, Done(t, r)
        PROVE  \E c \in Calls : /\ task' = [task EXCEPT ![t] = c]
                                /\ c.key \in Keys /\ c.started <= now
    <3>1. "done" \in Steps  BY DEF Steps
    <3>2. LET c == Ends(task[t], r)
          IN  c \in Calls /\ c.key = task[t].key /\ c.started = task[t].started
      BY <2>1, <3>1, MovedCall, Zenon
    <3> QED  BY <2>1, <2>3, <3>2, DoneCall
  <2>4. \E c \in Calls : task' = [task EXCEPT ![t] = c] /\ c.key \in Keys /\ c.started <= now
    BY <1>3, <2>2, <2>3, CallSteps, Zenon
  <2> QED  BY <1>1, <2>4, CallTyped, Zenon
<1> QED  BY <1>2, <1>3

(* put is counted, also when a Secure entry stays.                         *)
LEMMA PutsCounted ==
    ASSUME CacheConstants, Types, [Next]_vars
    PROVE  puts' = puts \/ puts' = puts + 1
<1>1. ASSUME NEW t \in Tasks, Aggregate(t) PROVE puts' = puts \/ puts' = puts + 1
  BY <1>1, AggregatePuts, Zenon
<1>2. ASSUME NEW t \in Tasks, Start(t) \/ decide_swr(t) \/ Budget(t) \/ FetchFails(t) PROVE puts' = puts
  BY <1>2, Zenon DEF Start, decide_swr, Budget, FetchFails
<1>3. Tick \/ StartFlush \/ FlushShard \/ UNCHANGED vars => puts' = puts
  BY Zenon DEF Tick, StartFlush, FlushShard, vars
<1>4. ASSUME NEW k \in Keys, put(k) PROVE puts' = puts + 1  BY <1>4, Zenon DEF put
<1> QED  BY <1>1, <1>2, <1>3, <1>4, Zenon DEF Next

(* Only flush_all moves the flush.                                         *)
LEMMA FlusherStays ==
    ASSUME [Next]_vars, ~StartFlush, ~FlushShard
    PROVE  flusher' = flusher
BY Zenon DEF Next, Tick, put, Start, decide_swr, Aggregate, Budget, FetchFails, vars

(* The types are kept.                                                     *)
LEMMA TypesKept ==
    ASSUME CacheConstants, Types, [Next]_vars
    PROVE  Types'
<1>1. map' \in [Keys -> Values]
  <2>1. map \in [Keys -> Values]  BY DEF Types
  <2>2. ASSUME FlushShard PROVE map' \in [Keys -> Values]
    <3>1. PICK S : map' = Dropped(map, S)  BY <2>2, Zenon DEF FlushShard
    <3> QED  BY <2>1, <3>1, DroppedEntries
  <2>3. ASSUME NEW k \in Keys, NEW mark \in Marks, NEW ttl \in Nat, NEW at \in Nat, map' \in Puts(k, mark, ttl, at)
        PROVE  map' \in [Keys -> Values]
    <3>1. Outcome(map', k, mark, ttl, at)  BY <2>3, PutMakes
    <3> QED  BY <3>1, Zenon DEF Outcome
  <2> QED  BY <2>1, <2>2, <2>3, CacheSteps, Zenon
<1>2. puts' \in Nat
  BY PutsCounted DEF Types
<1>3. flusher' \in [todo : SUBSET Shards, since : Nat]
  <2>1. flusher \in [todo : SUBSET Shards, since : Nat] /\ puts + 1 \in Nat  BY DEF Types
  <2>2. CASE StartFlush
    <3>1. flusher' = [todo |-> Shards, since |-> puts + 1]  BY <2>2, Zenon DEF StartFlush
    <3> QED  BY <2>1, <3>1
  <2>3. CASE FlushShard
    <3>1. PICK s : flusher' = [flusher EXCEPT !.todo = @ \ {s}]  BY <2>3, Zenon DEF FlushShard
    <3> QED  BY <2>1, <3>1
  <2>4. CASE ~StartFlush /\ ~FlushShard
    <3>1. flusher' = flusher  BY <2>4, FlusherStays
    <3> QED  BY <2>1, <3>1
  <2> QED  BY <2>2, <2>3, <2>4
<1>4. /\ now' \in 0 .. MaxTime
      /\ task' \in [Tasks -> Calls]
      /\ \A u \in Tasks : task'[u].pc # "idle" => task'[u].key \in Keys /\ task'[u].started <= now'
  <2>1. now \in 0 .. MaxTime /\ MaxTime \in Nat  BY DEF Types, CacheConstants
  <2>2. CASE \E t \in Tasks : Start(t) \/ decide_swr(t) \/ Aggregate(t) \/ Budget(t) \/ FetchFails(t)
    <3>1. now' = now  BY <2>2, Zenon DEF Start, decide_swr, Aggregate, Budget, FetchFails
    <3> QED  BY <2>1, <2>2, <3>1, CallsTyped
  <2>3. CASE Tick
    <3>1. now' = now + 1 /\ now < MaxTime /\ task' = task  BY <2>3, Zenon DEF Tick
    <3>2. now' \in 0 .. MaxTime  BY <2>1, <3>1
    <3>3. ASSUME NEW u \in Tasks, task[u].pc # "idle" PROVE task[u].key \in Keys /\ task[u].started <= now'
      <4>1. task[u].key \in Keys /\ task[u].started <= now  BY <3>3, Zenon DEF Types
      <4>2. task[u].started \in Nat  BY DEF Types, Calls
      <4> QED  BY <2>1, <3>1, <4>1, <4>2
    <3> QED  BY <3>1, <3>2, <3>3, Zenon DEF Types
  <2>4. CASE StartFlush \/ FlushShard \/ (\E k \in Keys : put(k)) \/ UNCHANGED vars
    <3>1. now' = now /\ task' = task  BY <2>4, Zenon DEF StartFlush, FlushShard, put, vars
    <3> QED  BY <3>1, Zenon DEF Types
  <2> QED  BY <2>2, <2>3, <2>4, Zenon DEF Next
<1> QED  BY <1>1, <1>2, <1>3, <1>4, Zenon DEF Types

(* The cache is empty and no call has begun.                               *)
LEMMA InitTypes ==
    ASSUME CacheConstants, Init
    PROVE  Types
<1>1. None \in Values /\ Idle \in Calls /\ Idle.pc = "idle"
  BY DEF None, Idle, Calls, Values, Steps
<1>2. map \in [Keys -> Values]  BY <1>1, Zenon DEF Init
<1>3. task \in [Tasks -> Calls] /\ \A t \in Tasks : task[t].pc = "idle"  BY <1>1, Zenon DEF Init
<1>4. now \in 0 .. MaxTime /\ puts \in Nat  BY DEF Init, CacheConstants
<1>5. flusher \in [todo : SUBSET Shards, since : Nat]  BY DEF Init
<1> QED  BY <1>2, <1>3, <1>4, <1>5, Zenon DEF Types

(* The types hold throughout.                                              *)
LEMMA TypesAlways == ASSUME CacheConstants PROVE Spec => []Types
BY InitTypes, TypesKept, PTL DEF Spec

(* put (supremacy/): until it expires, a Secure answer is never replaced   *)
(* by one of another mark, whichever calls put and flush in between.       *)
THEOREM SecureKept == ASSUME CacheConstants PROVE Spec => [][KeepsSecure]_vars
<1>1. Types /\ [Next]_vars => [KeepsSecure]_vars  BY SecureStays
<1> QED  BY <1>1, TypesAlways, PTL DEF Spec

-----------------------------------------------------------------------------
(* What may be served at an instant was to be served at every earlier one. *)
LEMMA ServableEarlier ==
    ASSUME NEW e \in Values, NEW at \in Nat, NEW started \in Nat, started <= at,
           \/ freshness(e, at) = "StaleServable"
           \/ freshness(e, at) = "Fresh" /\ e.expires <= e.stale_until
    PROVE  /\ started < e.stale_until
           /\ e.dnssec = "Bogus" => started < e.expires
<1>1. e # None
  <2>1. e = None => freshness(e, at) = "Dead"  BY DEF freshness, None
  <2> QED  BY <2>1
<1>2. e.expires \in Nat /\ e.stale_until \in Nat  BY <1>1 DEF Values, Entries
<1>3. freshness(e, at) = "StaleServable" => at < e.stale_until /\ e.dnssec # "Bogus"  BY DEF freshness
<1>4. freshness(e, at) = "Fresh" => at < e.expires  BY DEF freshness
<1> QED  BY <1>2, <1>3, <1>4

(* Every entry may be served at least as long as it lives.                 *)
Ordered == \A k \in Keys : map[k].expires <= map[k].stale_until

(* put makes such entries.                                                 *)
LEMMA OrderKept ==
    ASSUME CacheConstants, Types, Ordered, [Next]_vars
    PROVE  Ordered'
<1> SUFFICES ASSUME NEW j \in Keys PROVE map'[j].expires <= map'[j].stale_until
  BY DEF Ordered
<1>1. map \in [Keys -> Values] /\ None.expires <= None.stale_until  BY DEF Types, None
<1>2. map[j].expires <= map[j].stale_until  BY DEF Ordered
<1>3. CASE map' = map  BY <1>2, <1>3
<1>4. CASE FlushShard
  <2>1. PICK S : map' = Dropped(map, S)  BY <1>4, Zenon DEF FlushShard
  <2>2. map'[j] = map[j] \/ map'[j] = None  BY <1>1, <2>1, DroppedEntries
  <2> QED  BY <1>1, <1>2, <2>2
<1>5. ASSUME NEW k \in Keys, NEW mark \in Marks, NEW ttl \in Nat, NEW at \in Nat, map' \in Puts(k, mark, ttl, at)
      PROVE  map'[j].expires <= map'[j].stale_until
  <2>1. Outcome(map', k, mark, ttl, at)  BY <1>5, PutMakes
  <2>2. map'[j] = map[j] \/ map'[j] = None \/ map'[j] = Made(mark, ttl, at)
    BY <2>1, Zenon DEF Outcome
  <2>3. Made(mark, ttl, at).expires <= Made(mark, ttl, at).stale_until
    BY DEF Made, CacheConstants
  <2> QED  BY <1>1, <1>2, <2>2, <2>3
<1> QED  BY <1>3, <1>4, <1>5, CacheSteps, Zenon

(* An answer that was to be served when the call began, and not a bogus    *)
(* one past its lifetime.                                                  *)
InTime(c) ==
    (c.pc = "done" /\ c.result # None) =>
        /\ c.started < c.result.stale_until
        /\ c.result.dnssec = "Bogus" => c.started < c.result.expires

(* A call that ends, ends with such an answer.                             *)
LEMMA EndsInTime ==
    ASSUME CacheConstants, Types, Ordered, NEW t \in Tasks,
           decide_swr(t) \/ Aggregate(t) \/ Budget(t) \/ FetchFails(t)
    PROVE  \E c : task' = [task EXCEPT ![t] = c] /\ InTime(c)
<1>1. task[t] \in Calls /\ task[t].key \in Keys /\ task[t].started <= now
  BY CallSteps, Zenon DEF Types
<1>2. PICK e \in Values : e = map[task[t].key]  BY <1>1 DEF Types
<1>3. task[t].started \in Nat /\ now \in Nat /\ e.expires <= e.stale_until
  BY <1>1, <1>2 DEF Types, Calls, Ordered
<1>4. ASSUME NEW pc \in Steps \ {"idle", "done"}, Goto(t, pc)
      PROVE  \E c : task' = [task EXCEPT ![t] = c] /\ InTime(c)
  <2>1. None \in Values  BY DEF Values
  <2>2. Goes(task[t], pc).pc = pc  BY <1>1, <2>1, MovedCall, Zenon
  <2>3. InTime(Goes(task[t], pc))  BY <1>4, <2>2 DEF InTime
  <2> QED  BY <1>4, <2>3, GotoCall
<1>5. ASSUME NEW r \in Values, Done(t, r),
             r = None \/ (/\ task[t].started < r.stale_until
                          /\ r.dnssec = "Bogus" => task[t].started < r.expires)
      PROVE  \E c : task' = [task EXCEPT ![t] = c] /\ InTime(c)
  <2>1. "done" \in Steps  BY DEF Steps
  <2>2. Ends(task[t], r).result = r /\ Ends(task[t], r).started = task[t].started
    BY <1>1, <2>1, MovedCall, Zenon
  <2>3. InTime(Ends(task[t], r))  BY <1>5, <2>2, Zenon DEF InTime
  <2> QED  BY <1>5, <2>3, DoneCall
<1>6. {"nsec", "budget", "fetch_upstream", "error"} \subseteq Steps \ {"idle", "done"} /\ None \in Values
  BY DEF Steps, Values
<1>7. ASSUME NEW at \in Nat, task[t].started <= at, Rescue(t, at)
      PROVE  \E c : task' = [task EXCEPT ![t] = c] /\ InTime(c)
  <2>1. CASE Goto(t, "error")  BY <1>4, <1>6, <2>1, Zenon
  <2>2. CASE freshness(e, at) = "StaleServable" /\ Done(t, e)
    BY <1>3, <1>5, <1>7, <2>2, ServableEarlier, Zenon
  <2> QED  BY <1>2, <1>7, <2>1, <2>2, Zenon DEF Rescue
<1>8. CASE decide_swr(t)
  <2>1. CASE Goto(t, "nsec")  BY <1>4, <1>6, <2>1, Zenon
  <2>2. CASE freshness(e, task[t].started) # "Dead" /\ Done(t, e)
    <3>1. freshness(e, task[t].started) \in {"Dead", "Fresh", "StaleServable"}  BY DEF freshness
    <3>2. task[t].started <= task[t].started  BY <1>3
    <3>3. /\ task[t].started < e.stale_until
          /\ e.dnssec = "Bogus" => task[t].started < e.expires
      BY <1>3, <2>2, <3>1, <3>2, ServableEarlier
    <3> QED  BY <1>5, <2>2, <3>3, Zenon
  <2> QED  BY <1>2, <1>8, <2>1, <2>2, Zenon DEF decide_swr
<1>9. CASE Budget(t)
  <2>1. CASE Goto(t, "fetch_upstream")  BY <1>4, <1>6, <2>1, Zenon
  <2>2. CASE Rescue(t, task[t].started)
    <3>1. task[t].started <= task[t].started  BY <1>3
    <3> QED  BY <1>3, <1>7, <2>2, <3>1, Zenon
  <2> QED  BY <1>9, <2>1, <2>2, Zenon DEF Budget
<1>10. CASE FetchFails(t)  BY <1>1, <1>3, <1>7, <1>10, Zenon DEF FetchFails
<1>11. CASE Aggregate(t)
  <2>1. Done(t, None) \/ Goto(t, "budget")  BY <1>11 DEF Aggregate
  <2> QED  BY <1>4, <1>5, <1>6, <2>1, Zenon
<1> QED  BY <1>8, <1>9, <1>10, <1>11

(* What holds of the answers of calls, and of the entries they come from.  *)
Served == Types /\ Ordered /\ \A t \in Tasks : InTime(task[t])

(* resolve_key (supremacy/): an answer was still to be served when its     *)
(* call began, and none past its lifetime is a bogus one, whichever of its *)
(* reads of the cache the call answers from.                               *)
THEOREM AnswersServedInTime == ASSUME CacheConstants PROVE Spec => []ServedInTime
<1>1. Init => Served
  <2> SUFFICES ASSUME Init PROVE Ordered /\ \A t \in Tasks : InTime(task[t])
    BY InitTypes DEF Served
  <2>1. Ordered  BY DEF Init, Ordered, None
  <2>2. \A t \in Tasks : InTime(task[t])  BY DEF Init, InTime, Idle
  <2> QED  BY <2>1, <2>2
<1>2. Served /\ [Next]_vars => Served'
  <2> SUFFICES ASSUME Served, [Next]_vars PROVE Served'  OBVIOUS
  <2>1. Types' /\ Ordered'  BY TypesKept, OrderKept DEF Served
  <2>2. ASSUME NEW t \in Tasks, NEW c, task' = [task EXCEPT ![t] = c], InTime(c)
        PROVE  \A u \in Tasks : InTime(task'[u])
    <3>1. task \in [Tasks -> Calls]  BY DEF Served, Types
    <3>2. task'[t] = c /\ \A u \in Tasks : u # t => task'[u] = task[u]  BY <2>2, <3>1, Zenon
    <3> QED  BY <2>2, <3>2, Zenon DEF Served
  <2>3. ASSUME NEW t \in Tasks, Start(t) PROVE \A u \in Tasks : InTime(task'[u])
    <3>1. PICK c \in Calls : task' = [task EXCEPT ![t] = c] /\ c.pc = "get_entry"
      BY <2>3, StartedCall, Zenon DEF Served
    <3>2. InTime(c)  BY <3>1 DEF InTime
    <3> QED  BY <2>2, <3>1, <3>2, Zenon
  <2>4. ASSUME NEW t \in Tasks, decide_swr(t) \/ Aggregate(t) \/ Budget(t) \/ FetchFails(t)
        PROVE  \A u \in Tasks : InTime(task'[u])
    BY <2>2, <2>4, EndsInTime, Zenon DEF Served
  <2>5. ASSUME task' = task PROVE \A u \in Tasks : InTime(task'[u])  BY <2>5, Zenon DEF Served
  <2>6. Tick \/ StartFlush \/ FlushShard \/ (\E k \in Keys : put(k)) \/ UNCHANGED vars => task' = task
    BY Zenon DEF Tick, StartFlush, FlushShard, put, vars
  <2>7. \A u \in Tasks : InTime(task'[u])  BY <2>3, <2>4, <2>5, <2>6, Zenon DEF Next
  <2>8. (\A u \in Tasks : InTime(task[u]))'  BY <2>7, Zenon
  <2> QED  BY <2>1, <2>8, Zenon DEF Served
<1>3. Served => ServedInTime  BY Zenon DEF Served, InTime, ServedInTime
<1> QED  BY <1>1, <1>2, <1>3, PTL DEF Spec

-----------------------------------------------------------------------------
(* What the flush has left so far: in the shards it is through with,       *)
(* nothing from before it began.                                           *)
FlushedSoFar ==
    flusher.since # 0 =>
        \A k \in Keys : idx[k] \notin flusher.todo /\ map[k] # None => map[k].nth >= flusher.since

(* No entry is younger than the number of put, nor is the flush.           *)
Counted == flusher.since <= puts + 1

Flushed == Types /\ Counted /\ FlushedSoFar

(* A step that puts, puts something younger than the flush.                *)
LEMMA PutAfterFlush ==
    ASSUME CacheConstants, Flushed, NEW k \in Keys, NEW mark \in Marks, NEW ttl \in Nat, NEW at \in Nat,
           map' \in Puts(k, mark, ttl, at), puts' = puts + 1, flusher' = flusher
    PROVE  Counted' /\ FlushedSoFar'
<1>1. Types /\ flusher.since \in Nat /\ puts \in Nat /\ flusher.since <= puts + 1
  BY DEF Flushed, Types, Counted
<1>2. Counted'  BY <1>1 DEF Counted
<1>3. Outcome(map', k, mark, ttl, at)  BY <1>1, PutMakes
<1>4. Made(mark, ttl, at).nth >= flusher.since  BY <1>1 DEF Made
<1>5. ASSUME flusher.since # 0, NEW j \in Keys, idx[j] \notin flusher.todo, map'[j] # None
      PROVE  map'[j].nth >= flusher.since
  <2>1. map'[j] = map[j] \/ map'[j] = Made(mark, ttl, at)  BY <1>3, <1>5, Zenon DEF Outcome
  <2>2. map[j] # None => map[j].nth >= flusher.since  BY <1>5, Zenon DEF Flushed, FlushedSoFar
  <2> QED  BY <1>4, <1>5, <2>1, <2>2
<1>6. FlushedSoFar'  BY <1>5, Zenon DEF FlushedSoFar
<1> QED  BY <1>2, <1>6

(* flush_all (supremacy/): once it is through, nothing is left that was    *)
(* put before it began, whatever is put into other shards meanwhile.       *)
THEOREM FlushesComplete == ASSUME CacheConstants PROVE Spec => []FlushComplete
<1>1. Init => Flushed
  <2> SUFFICES ASSUME Init PROVE Counted /\ FlushedSoFar  BY InitTypes DEF Flushed
  <2>1. flusher.since = 0 /\ puts = 0  BY DEF Init
  <2> QED  BY <2>1 DEF Counted, FlushedSoFar
<1>2. Flushed /\ [Next]_vars => Flushed'
  <2> SUFFICES ASSUME Flushed, [Next]_vars PROVE Counted' /\ FlushedSoFar'
    BY TypesKept DEF Flushed
  <2>1. /\ Types /\ flusher.since \in Nat /\ puts \in Nat /\ flusher.since <= puts + 1
        /\ map \in [Keys -> Values] /\ idx \in [Keys -> Shards]
        /\ flusher \in [todo : SUBSET Shards, since : Nat]
    BY DEF Flushed, Types, Counted, CacheConstants
  <2>2. CASE StartFlush
    <3>1. puts' = puts /\ flusher' = [todo |-> Shards, since |-> puts + 1]  BY <2>2, Zenon DEF StartFlush
    <3>2. flusher'.since = puts + 1 /\ flusher'.todo = Shards  BY <3>1
    <3>3. Counted'  BY <2>1, <3>1, <3>2 DEF Counted
    <3>4. \A k \in Keys : idx[k] \in flusher'.todo  BY <2>1, <3>2
    <3>5. FlushedSoFar'  BY <3>4, Zenon DEF FlushedSoFar
    <3> QED  BY <3>3, <3>5
  <2>3. CASE FlushShard
    <3>1. PICK s \in flusher.todo : /\ map' = Dropped(map, Occupied(map, s))
                                    /\ flusher' = [flusher EXCEPT !.todo = @ \ {s}]
                                    /\ puts' = puts
      BY <2>3, Zenon DEF FlushShard
    <3>2. flusher'.since = flusher.since /\ flusher'.todo = flusher.todo \ {s}  BY <2>1, <3>1
    <3>3. Counted'  BY <2>1, <3>1, <3>2 DEF Counted
    <3>4. ASSUME flusher.since # 0, NEW j \in Keys, idx[j] \notin flusher'.todo, map'[j] # None
          PROVE  map'[j].nth >= flusher.since
      <4>1. j \notin Occupied(map, s) /\ map'[j] = map[j]  BY <2>1, <3>1, <3>4, DroppedEntries
      <4>2. idx[j] # s  BY <3>4, <4>1 DEF Occupied
      <4>3. idx[j] \notin flusher.todo  BY <3>2, <3>4, <4>2
      <4> QED  BY <3>4, <4>1, <4>3, Zenon DEF Flushed, FlushedSoFar
    <3>5. FlushedSoFar'  BY <3>2, <3>4, Zenon DEF FlushedSoFar
    <3> QED  BY <3>3, <3>5
  <2>4. CASE map' = map /\ flusher' = flusher
    <3>1. puts' = puts \/ puts' = puts + 1  BY PutsCounted, <2>1
    <3>2. Counted'  BY <2>1, <2>4, <3>1 DEF Counted
    <3>3. FlushedSoFar'  BY <2>4, Zenon DEF Flushed, FlushedSoFar
    <3> QED  BY <3>2, <3>3
  <2>5. ~StartFlush /\ ~FlushShard => flusher' = flusher  BY FlusherStays
  <2>6. ASSUME NEW k \in Keys, NEW mark \in Marks, NEW ttl \in Nat, NEW at \in Nat,
               map' \in Puts(k, mark, ttl, at), puts' = puts + 1, flusher' = flusher
        PROVE  Counted' /\ FlushedSoFar'
    BY <2>6, PutAfterFlush
  <2> QED  BY <2>1, <2>2, <2>3, <2>4, <2>5, <2>6, CacheSteps, Zenon
<1>3. Flushed => FlushComplete
  BY DEF Flushed, FlushedSoFar, FlushComplete
<1> QED  BY <1>1, <1>2, <1>3, PTL DEF Spec

-----------------------------------------------------------------------------
(* The entries of a shard, and room for one more.                          *)
Bounded == Types /\ \A s \in Shards : Cardinality(Occupied(map, s)) <= cap

(* The entries of a shard are finitely many.                               *)
LEMMA OccupiedFinite ==
    ASSUME CacheConstants, NEW m, NEW s
    PROVE  IsFiniteSet(Occupied(m, s)) /\ Cardinality(Occupied(m, s)) \in Nat
<1>1. Occupied(m, s) \subseteq Keys  BY DEF Occupied
<1>2. IsFiniteSet(Occupied(m, s))  BY <1>1, FS_Subset DEF CacheConstants
<1> QED  BY <1>2, FS_CardinalityType

(* Entries that are gone do not count.                                     *)
LEMMA FewerOccupied ==
    ASSUME CacheConstants, NEW m, NEW s, NEW T, IsFiniteSet(T), Occupied(m, s) \subseteq T
    PROVE  Cardinality(Occupied(m, s)) <= Cardinality(T)
BY FS_Subset

(* A shard that is full is brought below its bound: by what is past        *)
(* serving, or by an eighth and one of the rest.                           *)
LEMMA RoomMade ==
    ASSUME CacheConstants, Bounded, NEW k \in Keys, NEW at \in Nat, NEW r \in Rooms(k, at)
    PROVE  Cardinality(Occupied(r, idx[k])) < cap
<1> DEFINE s == idx[k]
           full == Occupied(map, s)
           kept == {j \in full : at < map[j].stale_until}
           drop_n == (Cardinality(kept) \div 8) + 1
<1>1. map \in [Keys -> Values] /\ s \in Shards /\ cap \in Nat \ {0}  BY DEF Bounded, Types, CacheConstants
<1>2. IsFiniteSet(full) /\ Cardinality(full) \in Nat /\ Cardinality(full) <= cap
  BY <1>1, OccupiedFinite DEF Bounded
<1>3. IsFiniteSet(kept) /\ Cardinality(kept) \in Nat /\ Cardinality(kept) <= cap
  <2>1. kept \subseteq full  OBVIOUS
  <2>2. IsFiniteSet(kept) /\ Cardinality(kept) <= Cardinality(full)  BY <1>2, <2>1, FS_Subset
  <2>3. Cardinality(kept) \in Nat  BY <2>2, FS_CardinalityType
  <2> HIDE DEF full, kept
  <2> QED  BY <1>1, <1>2, <2>2, <2>3
<1>4. \A S : Occupied(Dropped(map, S), s) \subseteq full \ S
  <2> SUFFICES ASSUME NEW S, NEW j \in Occupied(Dropped(map, S), s) PROVE j \in full \ S
    OBVIOUS
  <2>1. j \in Keys /\ idx[j] = s /\ Dropped(map, S)[j] # None  BY DEF Occupied
  <2>2. j \notin S /\ map[j] # None  BY <1>1, <2>1, DroppedEntries
  <2> QED  BY <2>1, <2>2 DEF Occupied
<1>5. CASE Cardinality(full) < cap
  <2>1. r = map  BY <1>5, Zenon DEF Rooms
  <2> QED  BY <1>5, <2>1
<1>6. CASE ~(Cardinality(full) < cap) /\ Cardinality(kept) < cap
  <2>1. r = Dropped(map, full \ kept)  BY <1>6, Zenon DEF Rooms
  <2>2. Occupied(r, s) \subseteq kept  BY <1>4, <2>1, Zenon
  <2>3. Cardinality(Occupied(r, s)) <= Cardinality(kept)  BY <1>3, <2>2, FewerOccupied, Zenon
  <2>4. Cardinality(Occupied(r, s)) \in Nat  BY OccupiedFinite
  <2> HIDE DEF s, full, kept
  <2>5. Cardinality(Occupied(r, s)) < cap  BY <1>1, <1>3, <1>6, <2>3, <2>4
  <2> QED  BY <2>5 DEF s
<1>7. CASE ~(Cardinality(full) < cap) /\ ~(Cardinality(kept) < cap)
  <2>1. PICK D \in {S \in SUBSET kept : Cardinality(S) = drop_n} : r = Dropped(map, (full \ kept) \cup D)
    BY <1>7, Zenon DEF Rooms
  <2>2. D \subseteq kept /\ Cardinality(D) = drop_n  BY <2>1, Zenon
  <2>3. Occupied(r, s) \subseteq kept \ D
    <3>1. Occupied(r, s) \subseteq full \ ((full \ kept) \cup D)  BY <1>4, <2>1, Zenon
    <3> HIDE DEF full, kept
    <3> QED  BY <3>1
  <2>4. IsFiniteSet(kept \ D) /\ Cardinality(kept \ D) = Cardinality(kept) - Cardinality(D)
    <3>1. kept \cap D = D  BY <2>2, Zenon
    <3>2. /\ IsFiniteSet(kept \ D)
          /\ Cardinality(kept \ D) = Cardinality(kept) - Cardinality(kept \cap D)
      <4> HIDE DEF kept
      <4> QED  BY <1>3, FS_Difference, Zenon
    <3> QED  BY <3>1, <3>2, Zenon
  <2>5. Cardinality(Occupied(r, s)) <= Cardinality(kept \ D)  BY <2>3, <2>4, FewerOccupied, Zenon
  <2>6. Cardinality(Occupied(r, s)) \in Nat  BY OccupiedFinite
  <2> HIDE DEF s, full, kept
  <2>7. drop_n \in Nat /\ drop_n >= 1
    <3>1. PICK n \in Nat : n = Cardinality(kept)  BY <1>3
    <3>2. (n \div 8) + 1 \in Nat /\ (n \div 8) + 1 >= 1  OBVIOUS
    <3> QED  BY <3>1, <3>2
  <2>8. Cardinality(Occupied(r, s)) < cap
    <3> HIDE DEF drop_n
    <3> QED  BY <1>1, <1>3, <2>2, <2>4, <2>5, <2>6, <2>7
  <2> QED  BY <2>8 DEF s
<1> QED  BY <1>5, <1>6, <1>7

(* put keeps every shard within its bound.                                 *)
LEMMA PutWithinBound ==
    ASSUME CacheConstants, Bounded, NEW k \in Keys, NEW mark \in Marks, NEW ttl \in Nat, NEW at \in Nat,
           NEW m \in Puts(k, mark, ttl, at), NEW s \in Shards
    PROVE  Cardinality(Occupied(m, s)) <= cap
<1>1. Types /\ Cardinality(Occupied(map, s)) <= cap  BY DEF Bounded
<1>2. CASE m = map  BY <1>1, <1>2
<1>3. ASSUME NEW r \in Rooms(k, at), NEW e, m = [r EXCEPT ![k] = e]
      PROVE  Cardinality(Occupied(m, s)) <= cap
  <2>1. r \in [Keys -> Values] /\ \A j \in Keys : r[j] = map[j] \/ r[j] = None  BY <1>1, RoomDrops, Zenon
  <2>2. \A j \in Keys : j # k => m[j] = r[j]  BY <1>3, <2>1, Zenon
  <2>3. CASE s # idx[k]
    <3>1. Occupied(m, s) \subseteq Occupied(map, s)  BY <2>1, <2>2, <2>3 DEF Occupied
    <3>2. Cardinality(Occupied(m, s)) <= Cardinality(Occupied(map, s))
      BY <3>1, OccupiedFinite, FewerOccupied, Zenon
    <3>3. Cardinality(Occupied(m, s)) \in Nat /\ Cardinality(Occupied(map, s)) \in Nat  BY OccupiedFinite
    <3>4. cap \in Nat  BY DEF CacheConstants
    <3> QED  BY <1>1, <3>2, <3>3, <3>4
  <2>4. CASE s = idx[k]
    <3>1. Occupied(m, s) \subseteq Occupied(r, s) \cup {k}  BY <2>2 DEF Occupied
    <3>2. Cardinality(Occupied(r, s)) < cap  BY <2>4, RoomMade
    <3>3. IsFiniteSet(Occupied(r, s)) /\ Cardinality(Occupied(r, s)) \in Nat  BY OccupiedFinite
    <3>4. IsFiniteSet(Occupied(r, s) \cup {k})
          /\ Cardinality(Occupied(r, s) \cup {k}) <= Cardinality(Occupied(r, s)) + 1
      <4>1. PICK T : T = Occupied(r, s)  OBVIOUS
      <4>2. /\ IsFiniteSet(T \cup {k})
            /\ Cardinality(T \cup {k}) = IF k \in T THEN Cardinality(T) ELSE Cardinality(T) + 1
        BY <3>3, <4>1, FS_AddElement, Zenon
      <4>3. IsFiniteSet(T \cup {k}) /\ Cardinality(T \cup {k}) <= Cardinality(T) + 1  BY <3>3, <4>1, <4>2
      <4> QED  BY <4>1, <4>3, Zenon
    <3>5. Cardinality(Occupied(m, s)) <= Cardinality(Occupied(r, s) \cup {k})
      BY <3>1, <3>4, FewerOccupied, Zenon
    <3>6. Cardinality(Occupied(m, s)) \in Nat /\ Cardinality(Occupied(r, s) \cup {k}) \in Nat /\ cap \in Nat
      BY <3>4, OccupiedFinite, FS_CardinalityType DEF CacheConstants
    <3> QED  BY <3>2, <3>3, <3>4, <3>5, <3>6
  <2> QED  BY <2>3, <2>4
<1>4. m = map \/ \E r \in Rooms(k, at) : \E e : m = [r EXCEPT ![k] = e]  BY Zenon DEF Puts
<1> QED  BY <1>2, <1>3, <1>4, Zenon

(* put (supremacy/): a shard never holds more than cap entries, whatever   *)
(* mixture of fresh, stale and dead ones it has to make room among.        *)
THEOREM ShardsStayBounded == ASSUME CacheConstants PROVE Spec => []ShardsBounded
<1>1. Init => Bounded
  <2> SUFFICES ASSUME Init, NEW s \in Shards PROVE Cardinality(Occupied(map, s)) <= cap
    BY InitTypes, Zenon DEF Bounded
  <2>1. Occupied(map, s) = {}  BY Zenon DEF Init, Occupied
  <2> QED  BY <2>1, FS_EmptySet DEF CacheConstants
<1>2. Bounded /\ [Next]_vars => Bounded'
  <2> SUFFICES ASSUME Bounded, [Next]_vars, NEW s \in Shards PROVE Cardinality(Occupied(map', s)) <= cap
    BY TypesKept DEF Bounded
  <2>1. Types /\ Cardinality(Occupied(map, s)) <= cap /\ map \in [Keys -> Values]  BY DEF Bounded, Types
  <2>2. CASE map' = map  BY <2>1, <2>2
  <2>3. CASE FlushShard
    <3>1. PICK S : map' = Dropped(map, S)  BY <2>3, Zenon DEF FlushShard
    <3>2. Occupied(map', s) \subseteq Occupied(map, s)  BY <2>1, <3>1, DroppedEntries DEF Occupied
    <3>3. Cardinality(Occupied(map', s)) <= Cardinality(Occupied(map, s))
      <4>1. IsFiniteSet(Occupied(map, s))  BY OccupiedFinite
      <4> QED  BY <3>2, <4>1, FewerOccupied, Zenon
    <3>4. Cardinality(Occupied(map', s)) \in Nat /\ Cardinality(Occupied(map, s)) \in Nat /\ cap \in Nat
      BY OccupiedFinite DEF CacheConstants
    <3> QED  BY <2>1, <3>3, <3>4
  <2>4. ASSUME NEW k \in Keys, NEW mark \in Marks, NEW ttl \in Nat, NEW at \in Nat, map' \in Puts(k, mark, ttl, at)
        PROVE  Cardinality(Occupied(map', s)) <= cap
    BY <2>4, PutWithinBound
  <2> QED  BY <2>1, <2>2, <2>3, <2>4, CacheSteps, Zenon
<1>3. Bounded => ShardsBounded  BY Zenon DEF Bounded, ShardsBounded
<1> QED  BY <1>1, <1>2, <1>3, PTL DEF Spec
=============================================================================
