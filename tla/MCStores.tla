------------------------------ MODULE MCStores ------------------------------
(***************************************************************************)
(* Small instances of the components that keep answers and of those that   *)
(* speak multicast: the shared-memory table, the sharded cache, the racing *)
(* resolver, the supremacy cache, the mDNS responder and query runtime,    *)
(* the DNS-SD registry and catalogue, and LLMNR.                           *)
(***************************************************************************)
EXTENDS MCSlots

\* Two keys that share a bucket; the arena wraps at every publication but the first.
Table == INSTANCE SharedTable WITH
    Keys <- {"k", "l"}, BucketOf <- [key \in {"k", "l"} |-> 0], Sizes <- {2}, ArenaSize <- 3,
    Attempts <- 2, Publications <- 3, Files <- 1,
    mem <- s1, path <- s2, files <- s3, writer <- s4, published <- s5, reader <- s6, current <- s7

\* Two callers, two keys in a shard that holds one.
Cache == INSTANCE GlobalCache WITH
    Tasks <- {"t", "u"}, Keys <- {"k", "l"}, ShardOf <- [key \in {"k", "l"} |-> 0],
    max_per_shard <- 1, Ttls <- {1}, stale_window <- 1, MaxTime <- 2, MaxFetches <- 3,
    Cancellable <- TRUE,
    now <- s1, map <- s2, live <- s3, gen <- s4, flights <- s5, task <- s6, fetches <- s7, said <- s8

\* Two callers of which one asks for the end of the other's CNAME chain; then
\* one caller whose answers may be errors or unreadable and who may drop its
\* call; then one that races two upstreams while they are replaced.
Cnames == [a |-> "d", c |-> "c", d |-> "none"]
Score(id, reachable) == [id |-> id, reachable |-> reachable]
Upstreams ==
    {[ups |-> <<1, 2>>, scores |-> <<Score(2, TRUE)>>], [ups |-> <<1>>, scores |-> <<Score(1, FALSE)>>]}
Flight == INSTANCE HyperResolver WITH
    Tasks <- {"t", "u"}, Asked <- {<<"a", "A">>, <<"d", "A">>}, Cname <- Cnames,
    Configurations <- {[ups |-> <<1>>, scores |-> <<Score(1, FALSE)>>]},
    RaceIds <- {"r", "s"}, k <- 1, max_inflight <- 2, max_per_shard <- 1, DNS_MAX_CNAME_DEPTH <- 1,
    Mode <- "AllowDowngrade", Rcodes <- {"NOERROR"}, Cancellable <- FALSE, MaxSets <- 0,
    cache <- s1, flights <- s2, permits <- s3, task <- s4, attempts <- s5, open <- s6, channel <- s7,
    upstreams <- s8, scores <- s9, setting <- s10, sets <- s11
Chain == INSTANCE HyperResolver WITH
    Tasks <- {"t"}, Asked <- {<<"a", "A">>, <<"a", "CNAME">>}, Cname <- Cnames,
    Configurations <- {[ups |-> <<1>>, scores |-> <<>>]},
    RaceIds <- {"r"}, k <- 1, max_inflight <- 1, max_per_shard <- 2, DNS_MAX_CNAME_DEPTH <- 1,
    Mode <- "AllowDowngrade", Rcodes <- {"NOERROR", "SERVFAIL"}, Cancellable <- TRUE, MaxSets <- 0,
    cache <- s1, flights <- s2, permits <- s3, task <- s4, attempts <- s5, open <- s6, channel <- s7,
    upstreams <- s8, scores <- s9, setting <- s10, sets <- s11
Race == INSTANCE HyperResolver WITH
    Tasks <- {"t"}, Asked <- {<<"d", "A">>}, Cname <- Cnames, Configurations <- Upstreams,
    RaceIds <- {"r", "s"}, k <- 2, max_inflight <- 2, max_per_shard <- 1, DNS_MAX_CNAME_DEPTH <- 1,
    Mode <- "Yes", Rcodes <- {"NOERROR", "SERVFAIL"}, Cancellable <- FALSE, MaxSets <- 1,
    cache <- s1, flights <- s2, permits <- s3, task <- s4, attempts <- s5, open <- s6, channel <- s7,
    upstreams <- s8, scores <- s9, setting <- s10, sets <- s11

\* Three keys in two shards of one entry each, with ranges that deny two.
Supreme == INSTANCE SupremacyCache WITH
    Keys <- {"a", "b", "c"}, Shards <- {1, 2}, idx <- [a |-> 1, b |-> 1, c |-> 2], Tasks <- {"t"},
    lookup <- [a |-> "Miss", b |-> "NxDomain", c |-> "NoData"], Ttls <- {1}, NsecTtl <- 1,
    max_stale <- 1, total <- 1, cap <- 1, MaxTime <- 2, MaxPuts <- 2,
    map <- s1, now <- s2, task <- s3, puts <- s4, flusher <- s5

\* Two hosts that want one name on one interface, with faults; then the same
\* on two interfaces.
Responders == INSTANCE MdnsResponder WITH
    Hosts <- {"a", "b"}, Interfaces <- {"i"}, Addresses <- [a |-> [i |-> {1, 3}], b |-> [i |-> {2}]],
    MaxOrdinal <- 2, MaxChanges <- 1, MaxInFlight <- 2, Faulty <- TRUE,
    kernel <- s1, changes <- s2, running <- s3, name <- s4, state <- s5, net <- s6, lossy <- s7, trail <- s8
Interfaces2 == INSTANCE MdnsResponder WITH
    Hosts <- {"a", "b"}, Interfaces <- {"i", "j"},
    Addresses <- [a |-> [i |-> {1}, j |-> {1}], b |-> [i |-> {2}, j |-> {}]],
    MaxOrdinal <- 2, MaxChanges <- 1, MaxInFlight <- 2, Faulty <- FALSE,
    kernel <- s1, changes <- s2, running <- s3, name <- s4, state <- s5, net <- s6, lossy <- s7, trail <- s8

\* One question; records, goodbyes and flushes.
Question == INSTANCE MdnsQuery WITH
    Queries <- {"q"}, Interfaces <- {"i"}, Names <- {"n"}, Data <- {1, 2}, Ttls <- {0, 2}, Grace <- 1,
    Timeout <- 2, Settle <- 1, MaxTime <- 3, MaxSaid <- 3,
    now <- s1, cache <- s2, said <- s3, query <- s4

\* Three registrations that collide, on two interfaces, and a subscriber.
Registry == INSTANCE DnsSdRegistry WITH
    Interfaces <- {"i", "j"}, Types <- {"t"}, Bases <- {"x"}, Bodies <- {"p"}, BadBody <- "bad",
    Anywhere <- "any", MaxOrdinal <- 2, MaxId <- 3, MaxSubscriptions <- 1, MaxPending <- 3,
    next_registration_id <- s1, next_subscription_id <- s2, registrations <- s3, keys <- s4,
    subscriptions <- s5, pending <- s6, view <- s7

\* Two files in two directories that offer one service.
Catalog == INSTANCE DnsSdCatalog WITH
    Files <- {"f", "g"}, Directories <- 2, Services <- {"s"}, Bodies <- {"p"}, RELOAD_INTERVAL <- 1,
    RETIRED_RETENTION <- 2, MaxEdits <- 2, MaxCalls <- 1,
    files <- s1, edits <- s2, calls <- s3, catalog <- s4, until_reload <- s5, retired <- s6, loaded <- s7

\* Two links, two names, two callers that may draw the same id.
Local == INSTANCE Llmnr WITH
    Links <- {"i", "j"}, Names <- {"a", "b"}, Tasks <- {"t", "u"}, Ids <- {"1"}, MaxChanges <- 1,
    MaxReceived <- 1, MaxQueued <- 1,
    links <- s1, writer <- s2, inflight <- s3, socket <- s4, listener <- s5, query <- s6, conflicts <- s7,
    changes <- s8, received <- s9

Init ==
    /\ world \in Worlds
    /\ \/ world = "table" /\ Table!Init /\ Blank(7)
       \/ world = "cache" /\ Cache!Init /\ Blank(8)
       \/ world = "flight" /\ Flight!Init /\ Blank(11)
       \/ world = "chain" /\ Chain!Init /\ Blank(11)
       \/ world = "race" /\ Race!Init /\ Blank(11)
       \/ world = "supreme" /\ Supreme!Init /\ Blank(5)
       \/ world = "responders" /\ Responders!Init /\ Blank(8)
       \/ world = "interfaces" /\ Interfaces2!Init /\ Blank(8)
       \/ world = "question" /\ Question!Init /\ Blank(4)
       \/ world = "registry" /\ Registry!Init /\ Blank(7)
       \/ world = "catalog" /\ Catalog!Init /\ Blank(7)
       \/ world = "llmnr" /\ Local!Init /\ Blank(9)
Next ==
    \/ world = "table" /\ Table!Next /\ Keep(7)
    \/ world = "cache" /\ Cache!Next /\ Keep(8)
    \/ world = "flight" /\ Flight!Next /\ Keep(11)
    \/ world = "chain" /\ Chain!Next /\ Keep(11)
    \/ world = "race" /\ Race!Next /\ Keep(11)
    \/ world = "supreme" /\ Supreme!Next /\ Keep(5)
    \/ world = "responders" /\ Responders!Next /\ Keep(8)
    \/ world = "interfaces" /\ Interfaces2!Next /\ Keep(8)
    \/ world = "question" /\ Question!Next /\ Keep(4)
    \/ world = "registry" /\ Registry!Next /\ Keep(7)
    \/ world = "catalog" /\ Catalog!Next /\ Keep(7)
    \/ world = "llmnr" /\ Local!Next /\ Keep(9)
Spec == Init /\ [][Next]_all

-----------------------------------------------------------------------------
\* A reader of the shared memory returns the entry its bucket holds at that
\* moment, whatever the publisher does meanwhile, and undisturbed it finds what
\* is there (SharedTable: lookup).
AnswersAreCurrent ==
    /\ [][world = "table" => Table!AnswersCurrently]_all
    /\ [](world = "table" => Table!TypeOK /\ Table!QuietLookupsHit)

\* One fetch for a key at a time, and with the puts of two callers interleaved a
\* shard keeps to its limit and len() never says less than is there, but for the
\* one entry of a shard that an insert has added and not yet counted
\* (GlobalCache: get_or_fetch, insert, len).
OneFetchPerKey ==
    world = "cache" => /\ Cache!TypeOK /\ Cache!OneFetchPerKey
                       /\ Cache!ShardsBounded /\ Cache!LenNeverBelow

\* "secure-stable: never overwrite Secure with Insecure/Bogus": while a Secure
\* answer is fresh, neither cache replaces it by one with another mark
\* (HyperResolver and SupremacyCache: put).  What the racing resolver caches
\* without error under a name is the end of its CNAME chain, or the name itself
\* for a CNAME query, and an error is one met on the chain; the shard keeps to
\* its limit, and a leader with upstreams asks one, also around set_upstreams
\* and when callers drop their calls (HyperResolver: resolve_lead, put).
SecureNeverOverwritten ==
    /\ [][/\ world = "flight" => Flight!KeepsSecure
          /\ world = "chain" => Chain!KeepsSecure
          /\ world = "race" => Race!KeepsSecure
          /\ world = "supreme" => Supreme!KeepsSecure]_all
    /\ [](/\ world = "flight" => /\ Flight!TypeOK /\ Flight!CachedAtEndOfChain
                                 /\ Flight!CacheBounded /\ Flight!SomebodyIsAsked
          /\ world = "chain" => /\ Chain!TypeOK /\ Chain!CachedAtEndOfChain
                                /\ Chain!CacheBounded /\ Chain!SomebodyIsAsked
          /\ world = "race" => /\ Race!TypeOK /\ Race!CachedAtEndOfChain
                               /\ Race!CacheBounded /\ Race!SomebodyIsAsked)

\* An answer was still to be served when its call began, and flush_all leaves
\* nothing that was put before it began, in shards that keep to their limit
\* (SupremacyCache).
ServedInTime ==
    world = "supreme" => /\ Supreme!TypeOK /\ Supreme!ServedInTime
                         /\ Supreme!FlushComplete /\ Supreme!ShardsBounded

\* Without loss, and once nothing is in flight, two hosts of a link do not both
\* have one name established; and a host
\* speaks for a name on an interface only after three probes for it with its
\* present address there (MdnsResponder: poll, detect_conflict, rename).
NamesAreUnique ==
    /\ world = "responders" =>
          Responders!TypeOK /\ Responders!NamesAreUnique /\ Responders!ClaimsWereProbed
    /\ world = "interfaces" =>
          Interfaces2!TypeOK /\ Interfaces2!NamesAreUnique /\ Interfaces2!ClaimsWereProbed

\* The cache is what the rules make of the records heard: lifetimes, goodbyes
\* and the grace of a flush (MdnsQuery: insert).
CacheFollowsRule == world = "question" => Question!TypeOK /\ Question!CacheFollowsRule

\* A subscriber that takes its updates knows the services, also those that move
\* out of a filter, and the registry's two indexes agree after every update,
\* renames and failed ones included (DnsSdRegistry: notify, update).
SubscribersConverge ==
    world = "registry" => Registry!TypeOK /\ Registry!SubscribersConverge /\ Registry!IndexesAgree

\* A rename survives every reload that finds the service's file again, though
\* not the service's absence from the catalog, and what a call withdraws can
\* still be said goodbye to (DnsSdCatalog: reconcile, retire).
RenamesSurviveReload ==
    /\ [][world = "catalog" => Catalog!KeepsRenames /\ Catalog!RetiresWithdrawn]_all
    /\ [](world = "catalog" => Catalog!TypeOK)

\* The table of outstanding queries has the calls that wait and are not yet
\* answered, unless two have drawn one id, and besides them only calls whose send
\* failed.  Conflicts are recorded on the links that claim a name and no others,
\* after a peer has replied to our query for it (Llmnr: query, handle_response).
InflightAccounted ==
    world = "llmnr" => Local!TypeOK /\ Local!InflightAccounted /\ Local!ConflictsHaveCause
=============================================================================
