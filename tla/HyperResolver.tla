--------------------------- MODULE HyperResolver ---------------------------
(***************************************************************************)
(* hyper_resolver.rs: HyperResolver::resolve with its cache, its single    *)
(* flight, the CNAME chase of resolve_lead and the speculative race of     *)
(* SpeculativePool, whose attempts are tasks of their own.                 *)
(*                                                                         *)
(* Every await and every lock is a step, and at an await the caller may    *)
(* drop the future.  An attempt ends with an answer, with a packet that is *)
(* no response (or has another id), or with an error.  An answer has its   *)
(* AD bit, its rcode and an answer section that holds what Cname says, or  *)
(* that cannot be read.  A key is a name and a type.  An entry ages from   *)
(* fresh to stale to dead.  One shard stands for all.                      *)
(***************************************************************************)
EXTENDS Naturals, FiniteSets, FiniteSetsExt, SequencesExt, Functions

CONSTANTS
    Tasks,               \* callers of resolve
    Asked,               \* keys they ask for: <<name, qtype>>
    Cname,               \* name -> the target of its CNAME, or "none"
    Configurations,      \* [ups: upstream ids, scores: sequence of [id, reachable]]
    RaceIds,             \* names of races in progress
    k,                   \* SpeculativePool.k
    max_inflight,        \* permits of the semaphore
    max_per_shard,
    DNS_MAX_CNAME_DEPTH,
    Mode,                \* DnssecMode: "No", "AllowDowngrade", "Yes"
    Rcodes,              \* of the answers
    Cancellable,         \* whether callers drop the futures of resolve
    MaxSets              \* bound: calls of set_upstreams

Keys == (DOMAIN Cname) \X {key[2] : key \in Asked}
Packets == [ad : BOOLEAN, rcode : Rcodes, readable : BOOLEAN]
Upstreams == UNION {ToSet(c.ups) : c \in Configurations}

VARIABLES
    cache,      \* key -> [name, rcode, dnssec, age]: the name that was answered last
    flights,    \* key -> its leader
    permits,    \* of inflight_sem
    task,       \* per caller: where it is in resolve
    attempts,   \* the spawned tasks of races: [race, up, at, got, cancelled]
    open,       \* races that have not returned
    channel,    \* per race: the mpsc channel of capacity 1
    upstreams, scores, setting, sets

shared == <<cache, flights, permits>>
racing == <<attempts, open, channel>>
config == <<upstreams, scores, setting, sets>>
vars == <<shared, task, racing, config>>

Idle == [at |-> "idle"]

Init ==
    /\ cache = <<>> /\ flights = <<>> /\ permits = max_inflight
    /\ task = [t \in Tasks |-> Idle]
    /\ attempts = {} /\ open = {} /\ channel = [r \in RaceIds |-> <<>>]
    /\ \E c \in Configurations : upstreams = c.ups /\ scores = c.scores
    /\ setting = <<>> /\ sets = 0

(***************************************************************************)
(* set_upstreams: two locks, one after the other                           *)
(***************************************************************************)

set_upstreams(c) ==
    /\ setting = <<>> /\ sets < MaxSets
    /\ sets' = sets + 1
    /\ upstreams' = c.ups /\ setting' = <<c.scores>>
    /\ UNCHANGED <<shared, task, racing, scores>>

SetScores ==
    /\ setting # <<>>
    /\ scores' = setting[1] /\ setting' = <<>>
    /\ UNCHANGED <<shared, task, racing, upstreams, sets>>

(***************************************************************************)
(* HierarchicalCache                                                       *)
(***************************************************************************)

\* get: a fresh or a stale entry.
get(n) == n \in DOMAIN cache /\ cache[n].age # "dead"

\* Mutant: the old entry's state is not looked at.
MutantSecureStable(n, meta) == FALSE

\* put leaves a fresh Secure entry alone when the new one is not Secure.
SecureStable(n, meta) ==
    n \in DOMAIN cache /\ cache[n].dnssec = "Secure" /\ meta.dnssec # "Secure" /\ cache[n].age = "fresh"

\* What put may leave of a full shard: first the dead entries go, and if that is
\* not enough an eighth, and at least one, of the others, whichever they are.
Room(c) ==
    LET live == {n \in DOMAIN c : c[n].age # "dead"}
        drop == Cardinality(live) \div 8 + 1
    IN  IF Cardinality(DOMAIN c) < max_per_shard THEN {c}
        ELSE IF Cardinality(live) < max_per_shard THEN {Restrict(c, live)}
        ELSE {Restrict(c, live \ D) : D \in kSubset(drop, live)}

put(n, meta) ==
    IF SecureStable(n, meta) THEN cache' = cache
    ELSE \E c \in Room(cache) :
            cache' = [m \in DOMAIN c \cup {n} |-> IF m = n THEN meta ELSE c[m]]

Age(n) ==
    /\ n \in DOMAIN cache /\ cache[n].age # "dead"
    /\ cache' = [cache EXCEPT ![n].age = IF @ = "fresh" THEN "stale" ELSE "dead"]
    /\ UNCHANGED <<flights, permits, task, racing, config>>

(***************************************************************************)
(* resolve                                                                 *)
(***************************************************************************)

resolve(t, key) ==
    /\ task[t] = Idle
    /\ task' = [task EXCEPT ![t] = [at |-> "acquire", key |-> key]]
    /\ UNCHANGED <<shared, racing, config>>

\* The permit, held until the call returns.
Acquire(t) ==
    /\ task[t].at = "acquire" /\ permits > 0
    /\ permits' = permits - 1
    /\ task' = [task EXCEPT ![t].at = "lookup"]
    /\ UNCHANGED <<cache, flights, racing, config>>

Done(outcome) == [at |-> "done", outcome |-> outcome]

Lookup(t) ==
    /\ task[t].at = "lookup"
    /\ task' = [task EXCEPT ![t] = IF get(@.key) THEN Done("hit") ELSE [@ EXCEPT !.at = "join"]]
    /\ UNCHANGED <<shared, racing, config>>

join_or_lead(t) ==
    /\ task[t].at = "join"
    /\ IF task[t].key \in DOMAIN flights
       THEN /\ task' = [task EXCEPT ![t] = [at |-> "follow", key |-> @.key, leader |-> flights[@.key]]]
            /\ UNCHANGED flights
       ELSE /\ flights' = [n \in DOMAIN flights \cup {task[t].key} |->
                              IF n = task[t].key THEN t ELSE flights[n]]
            /\ task' = [task EXCEPT ![t] = [at |-> "chase", key |-> @.key, current |-> @.key[1], chain |-> <<>>]]
    /\ UNCHANGED <<cache, permits, racing, config>>

\* The call returns, and its permit with it.
Return(t) ==
    /\ task[t].at = "done"
    /\ permits' = permits + 1
    /\ task' = [task EXCEPT ![t] = Idle]
    /\ UNCHANGED <<cache, flights, racing, config>>

(***************************************************************************)
(* resolve_lead                                                            *)
(***************************************************************************)

\* finish, with the error or the answer of resolve_lead; the flight goes first.
Fail(t) == [at |-> "finish", key |-> task[t].key, outcome |-> "failed"]

Finish(t) ==
    /\ task[t].at = "finish"
    /\ flights' = Restrict(flights, DOMAIN flights \ {task[t].key})
    /\ task' = [task EXCEPT ![t].at = "send"]
    /\ UNCHANGED <<cache, permits, racing, config>>

\* tx.send: every follower of the flight gets the answer or the failure.
Publish(t) ==
    /\ task[t].at = "send"
    /\ LET heard == {u \in Tasks : /\ task[u].at = "follow"
                                   /\ task[u].leader = t /\ task[u].key = task[t].key} IN
       task' = [u \in Tasks |-> IF u = t \/ u \in heard THEN Done(task[t].outcome) ELSE task[u]]
    /\ UNCHANGED <<shared, racing, config>>

\* The top of the loop: the limits, then the upstreams are read ...
Chase(t) ==
    /\ task[t].at = "chase"
    /\ LET T == task[t] IN
       task' = [task EXCEPT ![t] =
           IF Len(T.chain) > DNS_MAX_CNAME_DEPTH \/ Contains(T.chain, T.current) THEN Fail(t)
           ELSE [at |-> "scores", key |-> T.key, current |-> T.current,
                 chain |-> Append(T.chain, T.current), ups |-> upstreams]]
    /\ UNCHANGED <<shared, racing, config>>

\* The k best reachable upstreams by score, or else the first k.
Ranked(ups, sc) ==
    LET best == SelectSeq(sc, LAMBDA s : s.reachable /\ Contains(ups, s.id)) IN
    IF best # <<>> THEN {best[i].id : i \in {j \in 1 .. Len(best) : j <= k}}
    ELSE {ups[i] : i \in {j \in 1 .. Len(ups) : j <= k}}

\* ... and the scores, in another lock: race spawns its attempts, or fails.
StartRace(t) ==
    /\ task[t].at = "scores"
    /\ LET T == task[t]
           ranked == Ranked(T.ups, scores)
           free == RaceIds \ (open \cup {a.race : a \in attempts})
       IN  IF ranked = {}
           THEN /\ task' = [task EXCEPT ![t] = [Fail(t) EXCEPT !.outcome = IF T.ups = <<>> THEN "failed" ELSE "unasked"]]
                /\ UNCHANGED racing
           ELSE /\ free # {}
                /\ LET r == CHOOSE x \in free : TRUE IN
                   /\ open' = open \cup {r}
                   /\ channel' = [channel EXCEPT ![r] = <<>>]
                   /\ attempts' = attempts \cup {[race |-> r, up |-> u, at |-> "stagger", got |-> "nothing",
                                                cancelled |-> FALSE] : u \in ranked}
                   /\ task' = [task EXCEPT ![t] = [at |-> "race", key |-> T.key, current |-> T.current,
                                                  chain |-> T.chain, race |-> r]]
    /\ UNCHANGED <<shared, config>>

(***************************************************************************)
(* The attempts                                                            *)
(***************************************************************************)

Becomes(a, b) == attempts' = (attempts \ {a}) \cup b

\* The stagger, and the test of the token.
Launch(a) ==
    /\ a.at = "stagger"
    /\ Becomes(a, {[a EXCEPT !.at = "exchange"]})
    /\ UNCHANGED <<shared, task, open, channel, config>>

\* transport.exchange ends by itself ...
Exchanged(a) ==
    /\ a.at = "exchange"
    /\ \/ Becomes(a, {[a EXCEPT !.at = "validate", !.got = "answer"]})
       \/ Becomes(a, {[a EXCEPT !.at = "send", !.got = "error"]})
    /\ UNCHANGED <<shared, task, open, channel, config>>

\* ... or the token is cancelled, and there is nobody to tell.
Cancelled(a) ==
    /\ a.at = "exchange" /\ a.cancelled
    /\ Becomes(a, {})
    /\ UNCHANGED <<shared, task, open, channel, config>>

\* The id and the caller's validate closure, through the raw pointer: another id
\* or a packet that is no response is an error.
Validate(a) ==
    /\ a.at = "validate"
    /\ \/ Becomes(a, {[a EXCEPT !.at = "send"]})
       \/ Becomes(a, {[a EXCEPT !.at = "send", !.got = "error"]})
    /\ UNCHANGED <<shared, task, open, channel, config>>

\* tx.send: waits for room; it fails once the receiver is gone.
Send(a) ==
    /\ a.at = "send"
    /\ \/ a.race \notin open /\ UNCHANGED channel
       \/ /\ a.race \in open /\ channel[a.race] = <<>>
          /\ channel' = [channel EXCEPT ![a.race] = <<a.got>>]
    /\ Becomes(a, {})
    /\ UNCHANGED <<shared, task, open, config>>

\* race returns: the token is cancelled and the receiver dropped, so attempts
\* that wait for their turn or for room in the channel end.
Close(r) ==
    /\ open' = open \ {r}
    /\ channel' = [channel EXCEPT ![r] = <<>>]
    /\ attempts' = {IF a.race = r THEN [a EXCEPT !.cancelled = TRUE] ELSE a :
                       a \in {b \in attempts : b.race = r => b.at \in {"exchange", "validate"}}}

(***************************************************************************)
(* The end of a race, and the answer                                       *)
(***************************************************************************)

\* rx.recv: an error is remembered, an answer cancels the others and returns.
Receive(t) ==
    /\ task[t].at = "race" /\ channel[task[t].race] # <<>>
    /\ LET r == task[t].race
           got == channel[r][1]
       IN  \/ /\ got = "answer"
              /\ Close(r)
              /\ task' = [task EXCEPT ![t] = [at |-> "answer", key |-> @.key, current |-> @.current,
                                             chain |-> @.chain]]
           \/ /\ got = "error"
              /\ channel' = [channel EXCEPT ![r] = <<>>]
              /\ UNCHANGED <<task, attempts, open>>
    /\ UNCHANGED <<shared, config>>

\* Every sender is gone, or the overall timeout: the race returns its error.
RaceFails(t) ==
    /\ task[t].at = "race"
    /\ Close(task[t].race)
    /\ task' = [task EXCEPT ![t] = Fail(t)]
    /\ UNCHANGED <<shared, config>>

\* TrustAdValidator; "Bogus" is its error.
validate(packet) ==
    CASE Mode = "No" -> "Insecure"
      [] Mode = "AllowDowngrade" -> IF packet.ad THEN "Secure" ELSE "Insecure"
      [] Mode = "Yes" -> IF packet.ad THEN "Secure"
                         ELSE IF packet.rcode = "SERVFAIL" THEN "Bogus" ELSE "Indeterminate"

\* The answers extract_cname_target is called for.
LooksForCname(key, packet) == key[2] # "CNAME" /\ packet.rcode = "NOERROR"

\* The answer is bogus or cannot be read, and the lead fails; or it has a CNAME,
\* which is followed; or it is cached under the key asked for and then under the
\* name it was found at.
Answered(t, packet) ==
    /\ task[t].at = "answer"
    /\ LET T == task[t]
           looks == LooksForCname(T.key, packet)
           meta == [name |-> T.current, rcode |-> packet.rcode, dnssec |-> validate(packet), age |-> "fresh"]
       IN  \/ /\ validate(packet) = "Bogus" \/ (looks /\ ~packet.readable)
              /\ task' = [task EXCEPT ![t] = Fail(t)]
              /\ UNCHANGED cache
           \/ /\ validate(packet) # "Bogus" /\ looks /\ packet.readable /\ Cname[T.current] # "none"
              /\ task' = [task EXCEPT ![t] = [at |-> "chase", key |-> T.key,
                                             current |-> Cname[T.current], chain |-> T.chain]]
              /\ UNCHANGED cache
           \/ /\ validate(packet) # "Bogus"
              /\ looks => packet.readable /\ Cname[T.current] = "none"
              /\ put(T.key, meta)
              /\ task' = [task EXCEPT ![t] =
                     IF T.current # T.key[1] THEN [at |-> "put2", key |-> T.key, meta |-> meta]
                     ELSE [at |-> "finish", key |-> T.key, outcome |-> "ok"]]
    /\ UNCHANGED <<flights, permits, racing, config>>

PutCurrent(t) ==
    /\ task[t].at = "put2"
    /\ put(<<task[t].meta.name, task[t].key[2]>>, task[t].meta)
    /\ task' = [task EXCEPT ![t] = [at |-> "finish", key |-> @.key, outcome |-> "ok"]]
    /\ UNCHANGED <<flights, permits, racing, config>>

(***************************************************************************)
(* The future of resolve is dropped at an await                            *)
(***************************************************************************)

\* The permit goes back.  Nobody calls finish, so a leader's flight stays, with
\* the sender it holds; nobody cancels the token of its race, whose receiver is
\* gone.
Drop(t) ==
    /\ Cancellable /\ task[t].at \in {"acquire", "follow", "race"}
    /\ permits' = IF task[t].at = "acquire" THEN permits ELSE permits + 1
    /\ task' = [task EXCEPT ![t] = Idle]
    /\ IF task[t].at = "race"
       THEN /\ open' = open \ {task[t].race}
            /\ channel' = [channel EXCEPT ![task[t].race] = <<>>]
       ELSE UNCHANGED <<open, channel>>
    /\ UNCHANGED <<cache, flights, attempts, config>>

TaskStep(t) ==
    \/ Acquire(t) \/ Lookup(t) \/ join_or_lead(t) \/ Return(t)
    \/ Chase(t) \/ StartRace(t) \/ Receive(t) \/ RaceFails(t)
    \/ (\E packet \in Packets : Answered(t, packet)) \/ PutCurrent(t)
    \/ Finish(t) \/ Publish(t)
AttemptStep(a) == Launch(a) \/ Exchanged(a) \/ Cancelled(a) \/ Validate(a) \/ Send(a)

Next ==
    \/ \E t \in Tasks : TaskStep(t) \/ Drop(t) \/ \E key \in Asked : resolve(t, key)
    \/ \E a \in attempts : AttemptStep(a)
    \/ \E key \in Keys : Age(key)
    \/ (\E c \in Configurations : set_upstreams(c)) \/ SetScores

\* The runtime polls every task; the semaphore serves its waiters in turn.
\* RaceIds is a bound of the model only, so waiting for one ends too.
Fairness ==
    /\ \A t \in Tasks : WF_vars(TaskStep(t)) /\ SF_vars(Acquire(t)) /\ SF_vars(StartRace(t))
    /\ WF_vars(\E a \in attempts : AttemptStep(a))

Spec == Init /\ [][Next]_vars /\ Fairness

(***************************************************************************)
(* Properties                                                              *)
(***************************************************************************)

\* Every permit is in the semaphore or with a call, and every flight has its
\* leader in resolve_lead, unless leaders are dropped.
TypeOK ==
    /\ permits = max_inflight - Cardinality({t \in Tasks : task[t].at \notin {"idle", "acquire"}})
    /\ ~Cancellable => \A n \in DOMAIN flights : task[flights[n]].at \in {"chase", "scores", "race", "answer", "put2", "finish"}
    /\ \A n \in DOMAIN cache : cache[n].dnssec \in {"Secure", "Insecure", "Indeterminate"}
    /\ attempts \subseteq [race : RaceIds, up : Upstreams, got : {"nothing", "answer", "error"},
                           cancelled : BOOLEAN,
                           at : {"stagger", "exchange", "validate", "send"}]

\* The shard stays within max_per_shard, whatever put finds dead or alive
\* (HierarchicalCache::put).
CacheBounded == Cardinality(DOMAIN cache) <= max_per_shard

\* "secure-stable: never overwrite Secure with Insecure/Bogus": while an entry is
\* fresh, no leader's answer, under the asked name or the chased one, takes its
\* Secure state away.
KeepsSecure ==
    \A n \in DOMAIN cache \cap DOMAIN cache' :
        cache[n].dnssec = "Secure" /\ cache[n].age = "fresh" => cache'[n].dnssec = "Secure"
SecureNeverOverwritten == [][KeepsSecure]_vars

\* The end of the CNAME chain from a name, if it has one.
RECURSIVE EndOf(_, _)
EndOf(n, seen) ==
    IF Cname[n] = "none" THEN {n} ELSE IF Cname[n] \in seen THEN {} ELSE EndOf(Cname[n], seen \cup {Cname[n]})

\* The names on the chain.
RECURSIVE ChainOf(_, _)
ChainOf(n, seen) == IF n = "none" \/ n \in seen THEN seen ELSE ChainOf(Cname[n], seen \cup {n})

\* What is cached under a name is the answer at the end of its CNAME chain,
\* whichever call chased it from wherever, for a query of another type that was
\* answered without error; a CNAME query is answered by the name itself, and an
\* error is cached as it was met, at some name of the chain (resolve_lead's test
\* of qtype and rcode and its two puts).
CachedAtEndOfChain ==
    \A key \in DOMAIN cache :
        LET n == cache[key].name IN
        CASE key[2] = "CNAME" -> n = key[1]
          [] key[2] # "CNAME" /\ cache[key].rcode = "NOERROR" -> n \in EndOf(key[1], {key[1]})
          [] OTHER -> n \in ChainOf(key[1], {})

\* A lead that has upstreams asks at least one, even when it read the upstreams
\* and the scores on both sides of a set_upstreams (race's fallback).
SomebodyIsAsked == \A t \in Tasks : task[t].at = "finish" => task[t].outcome # "unasked"

\* Every call returns: followers hold permits, and still no leader waits for one
\* (resolve, the semaphore, the single flight and the race's timeout).  Refuted
\* when Cancellable: the flight of a dropped leader stays, and everyone who asks
\* for its key follows it for ever.
CallsReturn == \A t \in Tasks : task[t].at = "acquire" ~> task[t].at = "idle"

\* "SAFETY: transport lives for the race scope; we await all before return": no
\* attempt calls the closure of a race that has returned.
AttemptsInsideRace == \A a \in attempts : a.at = "validate" => a.race \in open

=============================================================================
