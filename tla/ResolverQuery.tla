---------------------------- MODULE ResolverQuery ----------------------------
(***************************************************************************)
(* Resolver::query_on_link (resolver_query_on_link.rs) run by several      *)
(* threads at once, with what it shares: the answer cache, the table of    *)
(* exchanges in flight (Inflight, resolver_prelude.rs) and the routing     *)
(* state with its generation counter, which other threads change           *)
(* (finish_routing_change, resolver_methods_01.rs).                        *)
(*                                                                         *)
(* A step of a thread is what it does under one lock or with one atomic    *)
(* operation; everything may happen between two steps.  Packets are        *)
(* abstracted to where they come from: a packet records the question, the  *)
(* checking-disabled flag, the link and the routing version its exchange   *)
(* was made for.  floor, since, announced, returned and version are        *)
(* history variables: no guard reads them.                                 *)
(***************************************************************************)
EXTENDS Integers, FiniteSets

CONSTANTS
    Threads,        \* threads that call query_on_link
    Writers,        \* threads that change the routing state or flush
    Questions,      \* (name, type, class)
    Links,          \* the ifindex argument: 0 stands for None
    Queries,        \* a subset of QueryType: what clients send
    Ids,            \* transaction IDs clients choose
    RefusedTypes,   \* questions whose type is in config.refuse_record_types
    Entries,        \* identities of Arc<InflightEntry> allocations
    None,           \* no entry
    Cache,          \* config.cache
    StaleRetention, \* config.stale_retention is not zero
    NShards,        \* shards of the cache
    ShardOf,        \* GlobalCache::shard_idx
    MaxPerShard,    \* max_per_shard
    MaxQueries,     \* bound: queries each thread makes
    MaxChanges      \* bound: changes of the routing state

NeutralId == 0
QueryType == [question : Questions, cd : BOOLEAN, link : Links,
              mode : {"Full", "Proxy"}]
Shards == 1 .. NShards

ASSUME QueriesAssumption == Queries \subseteq QueryType
ASSUME LinksAssumption == 0 \in Links
ASSUME IdsAssumption == Ids \subseteq Nat
ASSUME NoneAssumption == None \notin Entries
ASSUME ConfigAssumption == Cache \in BOOLEAN /\ StaleRetention \in BOOLEAN
ASSUME ShardsAssumption ==
    NShards \in Nat \ {0} /\ ShardOf \in [Questions -> Shards] /\ MaxPerShard \in Nat \ {0}
ASSUME BoundsAssumption == MaxQueries \in Nat /\ MaxChanges \in Nat

Asks == {[question |-> q.question, cd |-> q.cd, link |-> q.link,
          mode |-> q.mode, id |-> i] : q \in Queries, i \in Ids}

(***************************************************************************)
(* A packet.  source tells a packet an exchange just fetched from one that *)
(* was read from the cache; stale, that it was served after its expiry     *)
(* (with zeroed TTLs); scopes is the routing version it was fetched        *)
(* under; late, that it entered the cache, or was taken from it after a    *)
(* failed exchange, when a newer version had already been announced.       *)
(***************************************************************************)
Answers == [kind : {"answer"}, id : Nat, question : Questions, cd : BOOLEAN,
            link : Links, scopes : Nat, source : {"upstream", "cache"},
            stale : BOOLEAN, late : BOOLEAN]

Nothing  == [kind |-> "none"]
Refused  == [kind |-> "refused"]
Local    == [kind |-> "local"]
Failed   == [kind |-> "error"]
Verdicts == {Refused, Local, Failed}

VARIABLES
    pc,         \* pc[t]: the step thread t takes next
    query,      \* query[t]: the query t works on, or worked on last
    reply,      \* reply[t]: what t returns, once it has it
    gen,        \* gen[t]: route_generation as t loaded it
    scopes,     \* scopes[t]: the routing version t selected its scopes from
    entry,      \* entry[t]: the InflightEntry t leads or follows
    asked,      \* asked[t]: how many queries t has made
    flight,     \* flight[e]: the InflightEntry e and its slot in Inflight.entries
    cache,      \* cache[q]: the entry of question q, or Nothing
    table,      \* version of the routing state that select() reads
    generation, \* routing_generation
    wpc,        \* wpc[w]: the step writer w takes next
    wshard,     \* wshard[w]: the shard w flushes next
    version,    \* version[w]: the routing version w made
    announced,  \* the version generation was last bumped for
    returned,   \* the newest version whose writer has returned
    floor,      \* floor[t]: announced, when t loaded the generation
    since       \* since[t]: returned, when t's query began

threadVars == <<pc, query, reply, gen, scopes, entry, asked, floor, since>>
writerVars == <<wpc, wshard, version, returned>>
routeVars  == <<table, generation, announced>>
vars == <<threadVars, flight, cache, routeVars, writerVars>>

(***************************************************************************)
(* Inflight.  flight[e] holds the InflightState of entry e, the key it was *)
(* allocated for, and whether Inflight.entries maps that key to it.        *)
(***************************************************************************)
NoKey == [gen |-> 0]
Keys == [gen : Nat, link : Links, question : Questions, cd : BOOLEAN]
Unused == [listed |-> FALSE, running |-> FALSE, key |-> NoKey, response |-> Nothing]
Flights == [listed : BOOLEAN, running : BOOLEAN, key : Keys \cup {NoKey},
            response : Answers \cup {Nothing}]

(* InflightKey::new: the route (generation and link) and the query bytes   *)
(* with the transaction ID cleared.                                        *)
KeyOf(t) == [gen |-> gen[t], link |-> query[t].link,
             question |-> query[t].question, cd |-> query[t].cd]

Listed(k) == {e \in Entries : flight[e].listed /\ flight[e].key = k}

(* flight without thread t's reference to e: the last Arc frees the entry. *)
Released(t, f) ==
    LET e == entry[t]
    IN  IF f[e].listed \/ \E u \in Threads \ {t} : entry[u] = e
        THEN f
        ELSE [f EXCEPT ![e] = Unused]

(* query_on_link returns r and its locals go out of scope.                 *)
Finish(t, r) ==
    /\ pc' = [pc EXCEPT ![t] = "idle"]
    /\ reply' = [reply EXCEPT ![t] = r]
    /\ gen' = [gen EXCEPT ![t] = 0]
    /\ scopes' = [scopes EXCEPT ![t] = 0]
    /\ entry' = [entry EXCEPT ![t] = None]
    /\ UNCHANGED <<query, asked, floor, since>>

GoTo(t, label) == pc' = [pc EXCEPT ![t] = label]

Init ==
    /\ pc = [t \in Threads |-> "idle"]
    /\ query = [t \in Threads |-> Nothing]
    /\ reply = [t \in Threads |-> Nothing]
    /\ gen = [t \in Threads |-> 0]
    /\ scopes = [t \in Threads |-> 0]
    /\ entry = [t \in Threads |-> None]
    /\ asked = [t \in Threads |-> 0]
    /\ floor = [t \in Threads |-> 0]
    /\ since = [t \in Threads |-> 0]
    /\ flight = [e \in Entries |-> Unused]
    /\ cache = [q \in Questions |-> Nothing]
    /\ table = 0
    /\ generation = 1
    /\ announced = 0
    /\ wpc = [w \in Writers |-> "idle"]
    /\ wshard = [w \in Writers |-> 1]
    /\ version = [w \in Writers |-> 0]
    /\ returned = 0

(***************************************************************************)
(* query_on_link                                                           *)
(***************************************************************************)
Begin(t) ==
    /\ pc[t] = "idle"
    /\ asked[t] < MaxQueries
    /\ asked' = [asked EXCEPT ![t] = @ + 1]
    /\ \E a \in Asks : query' = [query EXCEPT ![t] = a]
    /\ reply' = [reply EXCEPT ![t] = Nothing]
    /\ since' = [since EXCEPT ![t] = returned]
    /\ GoTo(t, "local")
    /\ UNCHANGED <<gen, scopes, entry, floor, flight, cache, routeVars, writerVars>>

(* A query that does not parse or names a negative ifindex fails.  Refused *)
(* record types come next, then static records and /etc/hosts in Full      *)
(* mode; what those two answer changes as their files do.                  *)
AnswerLocally(t) ==
    /\ pc[t] = "local"
    /\ \/ Finish(t, Failed)
       \/ query[t].question \in RefusedTypes /\ Finish(t, Refused)
       \/ /\ query[t].question \notin RefusedTypes
          /\ query[t].mode = "Full"
          /\ Finish(t, Local)
       \/ /\ query[t].question \notin RefusedTypes
          /\ GoTo(t, "route")
          /\ UNCHANGED <<query, reply, gen, scopes, entry, asked, floor, since>>
    /\ UNCHANGED <<flight, cache, routeVars, writerVars>>

LoadGeneration(t) ==
    /\ pc[t] = "route"
    /\ gen' = [gen EXCEPT ![t] = generation]
    /\ floor' = [floor EXCEPT ![t] = announced]
    /\ GoTo(t, IF Cache THEN "lookup" ELSE "select")
    /\ UNCHANGED <<query, reply, scopes, entry, asked, since, flight, cache, routeVars, writerVars>>

(* Cache::get: a copy of the cached packet with the client's ID.           *)
Cached(t) == [cache[query[t].question] EXCEPT !.id = query[t].id]

LookupCache(t) ==
    /\ pc[t] = "lookup"
    /\ LET c == cache[query[t].question]
       IN  IF c # Nothing /\ ~c.stale
           THEN Finish(t, Cached(t))
           ELSE /\ GoTo(t, "select")
                /\ UNCHANGED <<query, reply, gen, scopes, entry, asked, floor, since>>
    /\ UNCHANGED <<flight, cache, routeVars, writerVars>>

(* RoutingTable::select and the networkd filter, under the routing lock.   *)
(* An unknown link or an empty selection ends the query.                   *)
SelectScopes(t) ==
    /\ pc[t] = "select"
    /\ \/ Finish(t, Failed)
       \/ /\ scopes' = [scopes EXCEPT ![t] = table]
          /\ GoTo(t, "begin")
          /\ UNCHANGED <<query, reply, gen, entry, asked, floor, since>>
    /\ UNCHANGED <<flight, cache, routeVars, writerVars>>

(* Inflight::begin, under the lock of Inflight.entries.                    *)
BeginFlight(t) ==
    /\ pc[t] = "begin"
    /\ \/ \E e \in Listed(KeyOf(t)) :
             /\ entry' = [entry EXCEPT ![t] = e]
             /\ GoTo(t, "wait")
             /\ UNCHANGED flight
       \/ /\ Listed(KeyOf(t)) = {}
          /\ \E e \in Entries :
                /\ flight[e] = Unused
                /\ flight' = [flight EXCEPT ![e] = [listed |-> TRUE, running |-> TRUE,
                                                    key |-> KeyOf(t), response |-> Nothing]]
                /\ entry' = [entry EXCEPT ![t] = e]
          /\ GoTo(t, "exchange")
    /\ UNCHANGED <<query, reply, gen, scopes, asked, floor, since, cache, routeVars, writerVars>>

(* query_scopes returns.  Fetched packets that Cache::insert turns down,   *)
(* and those of a loopback server, skip the cache.                         *)
Fetched(t) == [kind |-> "answer", id |-> query[t].id, question |-> query[t].question,
               cd |-> query[t].cd, link |-> query[t].link, scopes |-> scopes[t],
               source |-> "upstream", stale |-> FALSE, late |-> FALSE]

Exchange(t) ==
    /\ pc[t] = "exchange"
    /\ \/ /\ reply' = [reply EXCEPT ![t] = Fetched(t)]
          /\ \/ Cache /\ GoTo(t, "insert")
             \/ GoTo(t, "publish")
       \/ /\ reply' = [reply EXCEPT ![t] = Failed]
          /\ GoTo(t, IF Cache THEN "stale" ELSE "publish")
    /\ UNCHANGED <<query, gen, scopes, entry, asked, floor, since, flight, cache, routeVars,
                   writerVars>>

(* Cache::insert and GlobalCache::insert.  to_xkey keeps the question      *)
(* only.  A full shard first loses max_per_shard / 16 + 1 entries; those   *)
(* past their stale window, Nothing here, count towards that limit and go  *)
(* first, so the others may lose any number up to it.                      *)
Neighbours(q) == {n \in Questions : ShardOf[n] = ShardOf[q] /\ cache[n] # Nothing}

InsertCache(t) ==
    /\ pc[t] = "insert"
    /\ LET q == query[t].question
           packet == [reply[t] EXCEPT !.id = NeutralId, !.source = "cache",
                                      !.late = scopes[t] < announced]
       IN  \E evicted \in SUBSET Neighbours(q) :
              /\ Cardinality(evicted) <= MaxPerShard \div 16 + 1
              /\ cache' = [n \in Questions |-> IF n = q THEN packet
                                               ELSE IF n \in evicted THEN Nothing
                                               ELSE cache[n]]
    /\ GoTo(t, "publish")
    /\ UNCHANGED <<query, reply, gen, scopes, entry, asked, floor, since, flight, routeVars,
                   writerVars>>

(* After a failed exchange: Cache::get with allow_stale.                   *)
ServeStale(t) ==
    /\ pc[t] = "stale"
    /\ reply' = [reply EXCEPT ![t] =
                    IF cache[query[t].question] # Nothing
                    THEN [Cached(t) EXCEPT !.late = @ \/ Cached(t).scopes < announced]
                    ELSE Failed]
    /\ GoTo(t, "publish")
    /\ UNCHANGED <<query, gen, scopes, entry, asked, floor, since, flight, cache, routeVars,
                   writerVars>>

PublishStillRunning(t) ==
    /\ pc[t] = "publish"
    /\ flight' = [flight EXCEPT ![entry[t]].response =
                     IF reply[t].kind = "answer" THEN [reply[t] EXCEPT !.id = NeutralId] ELSE Nothing]
    /\ GoTo(t, "remove")
    /\ UNCHANGED <<query, reply, gen, scopes, entry, asked, floor, since, cache, routeVars,
                   writerVars>>

(* Inflight::finish, its first half: under the entry's lock, hand the      *)
(* normalized packet (or None after a failure) to the followers.           *)
Publish(t) ==
    /\ pc[t] = "publish"
    /\ LET shared == IF reply[t].kind = "answer"
                     THEN [reply[t] EXCEPT !.id = NeutralId] ELSE Nothing
       IN  flight' = [flight EXCEPT ![entry[t]].response = shared,
                                    ![entry[t]].running = FALSE]
    /\ GoTo(t, "remove")
    /\ UNCHANGED <<query, reply, gen, scopes, entry, asked, floor, since, cache, routeVars,
                   writerVars>>

(* Its second half: under the lock of Inflight.entries, forget the entry.  *)
Remove(t) ==
    /\ pc[t] = "remove"
    /\ flight' = Released(t, [flight EXCEPT ![entry[t]].listed = FALSE])
    /\ Finish(t, reply[t])
    /\ UNCHANGED <<cache, routeVars, writerVars>>

WaitForPacket(t) ==
    /\ pc[t] = "wait"
    /\ flight[entry[t]].response # Nothing
    /\ flight' = Released(t, flight)
    /\ Finish(t, [flight[entry[t]].response EXCEPT !.id = query[t].id])
    /\ UNCHANGED <<cache, routeVars, writerVars>>

WaitKeepsNeutralId(t) ==
    /\ pc[t] = "wait"
    /\ ~flight[entry[t]].running
    /\ flight' = Released(t, flight)
    /\ LET shared == flight[entry[t]].response
       IN  IF shared # Nothing
           THEN Finish(t, shared)
           ELSE /\ GoTo(t, "begin")
                /\ entry' = [entry EXCEPT ![t] = None]
                /\ UNCHANGED <<query, reply, gen, scopes, asked, floor, since>>
    /\ UNCHANGED <<cache, routeVars, writerVars>>

(* InflightEntry::wait: blocked while running; a leader that failed sends  *)
(* its followers back to Inflight::begin.                                  *)
Wait(t) ==
    /\ pc[t] = "wait"
    /\ ~flight[entry[t]].running
    /\ flight' = Released(t, flight)
    /\ LET shared == flight[entry[t]].response
       IN  IF shared # Nothing
           THEN Finish(t, [shared EXCEPT !.id = query[t].id])
           ELSE /\ GoTo(t, "begin")
                /\ entry' = [entry EXCEPT ![t] = None]
                /\ UNCHANGED <<query, reply, gen, scopes, asked, floor, since>>
    /\ UNCHANGED <<cache, routeVars, writerVars>>

(***************************************************************************)
(* The threads that change what select() reads: set_link_*, revert_link,   *)
(* sync_kernel_links, sync_networkd_links; and flush_cache.                *)
(***************************************************************************)
ChangeRouting(w) ==
    /\ wpc[w] = "idle"
    /\ table < MaxChanges
    /\ table' = table + 1
    /\ version' = [version EXCEPT ![w] = table + 1]
    /\ wpc' = [wpc EXCEPT ![w] = "bump"]
    /\ UNCHANGED <<threadVars, flight, cache, generation, announced, wshard, returned>>

(* sync_networkd_links replaces networkd_links, which the filter by        *)
(* networkd_link_relevant reads, without counting that as a change.        *)
ChangeSilently(w) ==
    /\ wpc[w] = "idle"
    /\ table < MaxChanges
    /\ table' = table + 1
    /\ UNCHANGED <<threadVars, flight, cache, generation, announced, writerVars>>

(* finish_routing_change: first the generation, then the cache.            *)
BumpGeneration(w) ==
    /\ wpc[w] = "bump"
    /\ generation' = generation + 1
    /\ announced' = table
    /\ wpc' = [wpc EXCEPT ![w] = "flush"]
    /\ UNCHANGED <<threadVars, flight, cache, table, wshard, version, returned>>

FlushCache(w) ==
    /\ wpc[w] = "idle"
    /\ version' = [version EXCEPT ![w] = 0]
    /\ wpc' = [wpc EXCEPT ![w] = "flush"]
    /\ UNCHANGED <<threadVars, flight, cache, routeVars, wshard, returned>>

FlushFromTo(w, last) ==
    /\ wpc[w] = "flush"
    /\ cache' = [q \in Questions |-> IF ShardOf[q] = wshard[w] THEN Nothing ELSE cache[q]]
    /\ IF wshard[w] < last
       THEN /\ wshard' = [wshard EXCEPT ![w] = @ + 1]
            /\ UNCHANGED <<wpc, returned>>
       ELSE /\ wshard' = [wshard EXCEPT ![w] = 1]
            /\ wpc' = [wpc EXCEPT ![w] = "idle"]
            /\ returned' = IF version[w] > returned THEN version[w] ELSE returned
    /\ UNCHANGED <<threadVars, flight, routeVars, version>>

FlushAllButLastShard(w) == FlushFromTo(w, NShards - 1)

(* GlobalCache::flush takes the shards' locks one after the other.         *)
FlushShard(w) ==
    /\ wpc[w] = "flush"
    /\ cache' = [q \in Questions |-> IF ShardOf[q] = wshard[w] THEN Nothing ELSE cache[q]]
    /\ IF wshard[w] < NShards
       THEN /\ wshard' = [wshard EXCEPT ![w] = @ + 1]
            /\ UNCHANGED <<wpc, returned>>
       ELSE /\ wshard' = [wshard EXCEPT ![w] = 1]
            /\ wpc' = [wpc EXCEPT ![w] = "idle"]
            /\ returned' = IF version[w] > returned THEN version[w] ELSE returned
    /\ UNCHANGED <<threadVars, flight, routeVars, version>>

(* Time passes: a cached packet expires, then leaves its stale window.     *)
Expire(q) ==
    /\ cache[q] # Nothing
    /\ cache' = [cache EXCEPT ![q] = IF StaleRetention /\ ~@.stale
                                     THEN [@ EXCEPT !.stale = TRUE] ELSE Nothing]
    /\ UNCHANGED <<threadVars, flight, routeVars, writerVars>>

(* Nothing is under way and the bounds are used up: the daemon listens on. *)
Quiescent ==
    /\ \A t \in Threads : pc[t] = "idle"
    /\ \A w \in Writers : wpc[w] = "idle"
    /\ UNCHANGED vars

Step(t) ==
    \/ AnswerLocally(t) \/ LoadGeneration(t) \/ LookupCache(t) \/ SelectScopes(t)
    \/ BeginFlight(t) \/ Exchange(t) \/ InsertCache(t) \/ ServeStale(t)
    \/ Publish(t) \/ Remove(t) \/ Wait(t)

Write(w) ==
    ChangeRouting(w) \/ ChangeSilently(w) \/ BumpGeneration(w) \/ FlushCache(w) \/ FlushShard(w)

Next ==
    \/ \E t \in Threads : Begin(t) \/ Step(t)
    \/ \E w \in Writers : Write(w)
    \/ \E q \in Questions : Expire(q)
    \/ Quiescent

Spec == Init /\ [][Next]_vars

(* Threads are preempted but not forever, and query_scopes gives up at its *)
(* deadline: a thread in the middle of a query keeps taking steps.         *)
FairSpec == Spec /\ \A t \in Threads : WF_vars(Step(t))

-----------------------------------------------------------------------------
LeaderSteps == {"exchange", "insert", "stale", "publish", "remove"}
RoutedSteps == LeaderSteps \cup {"lookup", "select", "begin", "wait"}
Steps == RoutedSteps \cup {"idle", "local", "route"}

(* Every variable has its type.                                            *)
TypeOK ==
    /\ pc \in [Threads -> Steps]
    /\ query \in [Threads -> Asks \cup {Nothing}]
    /\ reply \in [Threads -> Answers \cup Verdicts \cup {Nothing}]
    /\ gen \in [Threads -> Nat]
    /\ scopes \in [Threads -> Nat]
    /\ entry \in [Threads -> Entries \cup {None}]
    /\ asked \in [Threads -> Nat]
    /\ floor \in [Threads -> Nat]
    /\ since \in [Threads -> Nat]
    /\ flight \in [Entries -> Flights]
    /\ cache \in [Questions -> Answers \cup {Nothing}]
    /\ table \in Nat
    /\ generation \in Nat
    /\ announced \in Nat
    /\ wpc \in [Writers -> {"idle", "bump", "flush"}]
    /\ wshard \in [Writers -> Shards]
    /\ version \in [Writers -> Nat]
    /\ returned \in Nat

(***************************************************************************)
(* "Concurrent identical transaction coalescing": of all the threads with  *)
(* the same route and query bytes, at most one is between Inflight::begin  *)
(* and the end of Inflight::finish as a leader.  Holds across the window   *)
(* where a finished entry is still listed, and across followers that       *)
(* retry after a failed leader.                                            *)
(***************************************************************************)
SingleFlight ==
    \A t, u \in Threads :
        pc[t] \in LeaderSteps /\ pc[u] \in LeaderSteps /\ KeyOf(t) = KeyOf(u) => t = u

(***************************************************************************)
(* A follower in InflightEntry::wait never waits for nobody: while its     *)
(* entry is running, a leader of the same key is on its way to publish to  *)
(* that very entry.  And no entry stays listed without a leader that will  *)
(* remove it, so no key is locked out of upstream queries.                 *)
(***************************************************************************)
WaitersHaveLeader ==
    /\ \A t \in Threads :
          pc[t] = "wait" /\ flight[entry[t]].running =>
              \E u \in Threads : /\ pc[u] \in LeaderSteps \ {"remove"}
                                 /\ entry[u] = entry[t]
                                 /\ KeyOf(u) = KeyOf(t)
    /\ \A e \in Entries :
          flight[e].listed =>
              \E u \in Threads : pc[u] \in LeaderSteps /\ entry[u] = e

(* Coalescing shares every exchange and strands nobody.                    *)
Coalescing == SingleFlight /\ WaitersHaveLeader

(***************************************************************************)
(* A routing change that has returned (finish_routing_change has bumped    *)
(* the generation and flushed every shard) is reflected in the reply to    *)
(* every query that begins afterwards, whether fetched, shared by a leader *)
(* or cached; except for a packet whose exchange was under way when the    *)
(* change was announced, and for one that a failed exchange took from the  *)
(* cache between the announcement and the flush.                           *)
(***************************************************************************)
RepliesReflectRouting ==
    \A t \in Threads :
        pc[t] = "idle" /\ reply[t].kind = "answer" =>
            reply[t].scopes >= since[t] \/ reply[t].late

(***************************************************************************)
(* "Longest-suffix routing integrated with per-link scopes": a query for   *)
(* one link is never answered with what the scopes of another link said.   *)
(***************************************************************************)
RepliesKeepToTheirLink ==
    \A t \in Threads :
        pc[t] = "idle" /\ reply[t].kind = "answer" => reply[t].link = query[t].link

(***************************************************************************)
(* Every query gets the one reply QueryService allows: own transaction ID, *)
(* own question and, if it was fetched for it or for the leader it         *)
(* followed, own link, own CD flag and scopes no older than the generation *)
(* the query loaded.                                                       *)
(***************************************************************************)
Service == INSTANCE QueryService WITH
    pending <- [t \in Threads |-> pc[t] # "idle"],
    reply <- [t \in Threads |-> IF pc[t] = "idle" THEN reply[t] ELSE Nothing]

ImplementsService == Service!Spec

(***************************************************************************)
(* Every query ends: the leader's, its followers', and those of followers  *)
(* that had to retry because their leader failed.                          *)
(***************************************************************************)
QueriesEnd == \A t \in Threads : (pc[t] # "idle") ~> (pc[t] = "idle")

-----------------------------------------------------------------------------
(***************************************************************************)
(* The inductive invariant behind SingleFlight, WaitersHaveLeader,         *)
(* RepliesReflectRouting and ImplementsService.                            *)
(***************************************************************************)
HasFlight(t) == pc[t] \in LeaderSteps \cup {"wait"}

ThreadInv ==
    \A t \in Threads :
        /\ pc[t] # "idle" => query[t] \in Asks
        /\ HasFlight(t) => entry[t] \in Entries
        /\ ~HasFlight(t) => entry[t] = None
        /\ pc[t] \in RoutedSteps => gen[t] >= 1 /\ gen[t] <= generation

(* The entry a leader or a follower holds is the one of its own key.       *)
KeyInv == \A t \in Threads : HasFlight(t) => flight[entry[t]].key = KeyOf(t)

LeaderInv ==
    \A t \in Threads :
        pc[t] \in LeaderSteps => /\ flight[entry[t]].listed
                                 /\ flight[entry[t]].running <=> pc[t] # "remove"

WaitInv ==
    \A t \in Threads :
        pc[t] = "wait" /\ flight[entry[t]].running =>
            \E u \in Threads : pc[u] \in LeaderSteps \ {"remove"} /\ entry[u] = entry[t]

ListedInv ==
    \A e \in Entries :
        flight[e].listed => \E u \in Threads : pc[u] \in LeaderSteps /\ entry[u] = e

OneLeader ==
    \A t, u \in Threads :
        pc[t] \in LeaderSteps /\ pc[u] \in LeaderSteps /\ entry[t] = entry[u] => t = u

OneEntry ==
    \A e, f \in Entries :
        flight[e].listed /\ flight[f].listed /\ flight[e].key = flight[f].key => e = f

FlightInv == KeyInv /\ LeaderInv /\ WaitInv /\ ListedInv /\ OneLeader /\ OneEntry

VersionInv ==
    /\ generation >= 1 /\ returned <= announced /\ announced <= table
    /\ \A w \in Writers : /\ version[w] <= table
                          /\ wpc[w] = "flush" => version[w] <= announced
                          /\ wpc[w] # "flush" => wshard[w] = 1

(* Scopes are chosen after the generation is loaded.                       *)
FloorInv ==
    \A t \in Threads :
        /\ since[t] <= returned
        /\ pc[t] \in RoutedSteps => /\ since[t] <= floor[t] /\ floor[t] <= announced
                                    /\ gen[t] = generation => floor[t] = announced
        /\ HasFlight(t) \/ pc[t] = "begin" => floor[t] <= scopes[t] /\ scopes[t] <= table

(* Threads with equal generations have seen equal announcements.           *)
SameFloor ==
    \A t, u \in Threads :
        pc[t] \in RoutedSteps /\ pc[u] \in RoutedSteps /\ gen[t] = gen[u] => floor[t] = floor[u]

RouteInv == VersionInv /\ FloorInv /\ SameFloor

(* An entry that did not go in late is as new as every change whose writer *)
(* has returned, or has already flushed the entry's shard.                 *)
CacheInv ==
    \A q \in Questions :
        cache[q] # Nothing =>
            /\ cache[q].question = q /\ cache[q].source = "cache"
            /\ ~cache[q].late => /\ returned <= cache[q].scopes
                                 /\ \A w \in Writers : ShardOf[q] < wshard[w] =>
                                                           version[w] <= cache[q].scopes

(* Packet a may be handed to thread t, but for its transaction ID.         *)
Suits(a, t) ==
    /\ a.question = query[t].question
    /\ a.source = "upstream" => /\ a.link = query[t].link /\ a.cd = query[t].cd
                                /\ floor[t] <= a.scopes /\ a.scopes <= table
    /\ a.late \/ floor[t] <= a.scopes

(* What t is about to return, what its leader has published, and what it   *)
(* has returned, all suit t.                                               *)
PacketOK(t) ==
    /\ pc[t] = "insert" => reply[t] = Fetched(t)
    /\ pc[t] \in {"publish", "remove"} /\ reply[t] # Failed =>
          reply[t] \in Answers /\ reply[t].id = query[t].id /\ Suits(reply[t], t)
    /\ HasFlight(t) /\ ~flight[entry[t]].running /\ flight[entry[t]].response # Nothing =>
          flight[entry[t]].response \in Answers /\ Suits(flight[entry[t]].response, t)
    /\ pc[t] = "idle" /\ reply[t].kind = "answer" =>
          reply[t].late \/ since[t] <= reply[t].scopes

PacketInv == CacheInv /\ \A t \in Threads : PacketOK(t)

IInv == TypeOK /\ ThreadInv /\ FlightInv /\ RouteInv /\ PacketInv
=============================================================================
