# systemd-resolved-rs: a TLA+ verification project

TLA+ models of the resolver daemon, its clients and the libraries beside it; TLC
configurations that check them on small instances; TLAPS proofs of what matters
most. Every definition is translated from the source; `PROJECT.json` maps each
one to its lines, lists the hazards of the code with the properties that would
catch them, and gives each property a mutant of the model that breaks it.

## The system

The daemon is one process of operating-system threads that share an
`Arc<Resolver>`; its state is behind mutexes, read-write locks, a condition
variable and atomics. Clients reach it over the DNS stub, Varlink and D-Bus, the
NSS module also through a table in shared memory.

| Part | State | Operations | Talks to |
|---|---|---|---|
| Query path (`query_on_link`, `Inflight`) | flights by route and query bytes | look up, select, lead or follow, publish | cache, routing, servers |
| Answer cache (`cache.rs`, `cache_x.rs`) | shards of entries, live counter, flights | get, get stale, insert, evict, flush, fetch once | query path, routing changes |
| Server walk (`query_servers`, `DnsAttemptBudget`) | attempted servers, budget, deadline | next server, conclude | exchange |
| Exchange (`exchange_with_features`) | per server: feature level, transport, TLS capability, missing RRSIG | negotiate, retry, downgrade, recover | connections |
| Connections (`resolver_methods_04.rs`, `native.c`, `tls.c`) | sockets, streams, pools, server specs | connect, send, receive, pool, drop | servers |
| Link routing (`routing.rs`, link methods) | routing table, `networkd_links`, `link_server_specs`, generation | setters, revert, two synchronizations, select | D-Bus, kernel, networkd |
| Monitors (`netlink.rs`, `networkd.rs`) | descriptors, snapshots | open, wait, synchronize | kernel, networkd's files |
| Lookups and redirects | candidates, visited names, SRV targets | ask in parallel, follow CNAME/DNAME, resolve a service | query path |
| Local records (`static_records*.rs`, `hosts.rs`) | tables, file stamps | refresh, reload | files, query path |
| Stub daemon, lifecycle | listeners, worker queues, stop and reload flags | dispatch, serve, reload, stop | query path |
| Varlink and D-Bus services | connections, bus objects | frame, authorise, convert, reply | lookups, link setters |
| NSS module | one call, its buffers | ask table, Varlink, stub; pack the result | daemon |
| Configuration and publication | configuration files, two `resolv.conf` files | read, merge, write by rename, read back | files |
| mDNS, DNS-SD, LLMNR | probes, record caches, registry, catalogue | probe, announce, defend, rename, browse | network, files |
| Shared memory, hyper and supremacy libraries | seqlock table, caches, races, denials | publish, look up, refresh, race | |

The sources of mDNS (`mdns_full.rs`, `mdns_responder.rs`, `mdns_runtime.rs`) and
DNS-SD (`dnssd_*.rs`) are in the tree but `lib.rs` does not compile them; the LLMNR
engine is compiled and called by nothing, as `docs/COMPATIBILITY.md` says; the
hyper and supremacy libraries are reached only from `landing_glue.rs`, which
`main.rs` does not call. They are modelled as they are written.

### What is hard in it

- a routing change is published in two steps (generation, then the cache, shard
  by shard) under queries that read generation, cache and table one by one;
- leaders fail, followers retry, finished flights stay listed for a moment;
- several threads negotiate with one server on shared state that other threads
  downgrade, reset or recover, and link modes change under them;
- three budgets (tries, attempts, deadline) bound a walk with six kinds of retry;
- late answers arrive on sockets and streams that serve the next query;
- link state is in three tables under three locks, written by the kernel
  monitor, the networkd monitor and D-Bus, and read across two of them;
- events get lost between a read and the next watch, files change between their
  stamp and their load, and processes die between two writes;
- requests arrive in pieces, queues fill up, and a stop must end every thread;
- readers in other processes copy what a publisher is replacing;
- hosts on a link probe for one name while datagrams are lost.

## Modules

A step of a thread is what it does under one lock, with one atomic operation or
between two awaits. Control state is called `pc`, `at` or `phase` and names the
step that comes next. Operators named `Mutant...` (and, in the three oldest
modules, names that say what they do wrong) are faulty forms of the definition
behind them; no specification uses them. Modules state their liveness properties
and fairness on their own variables; `MCProgress` and `MCEndings` restate them for
one world of several.

| Module | Models | Runs |
|---|---|---|
| `QueryService` | what `query_on_link` promises: one fitting reply per query | `queries` |
| `ResolverQuery` | `query_on_link`, `Inflight`, the cache as it uses it, `finish_routing_change` | `queries`, `progress`, `crosslink` |
| `ServerExchange` | `query_servers`, `exchange_with_features`, the state kept per server | `exchange`, `modes`, `progress` |
| `LinkRouting` | the link tables, both monitors, the D-Bus setters, scope selection | `links`, `lock_order` |
| `ServerConnections` | sockets and streams to one server, their pools, matching of answers | `services`, `progress` |
| `Lookups` | search candidates, parallel queries, redirect loop, service resolution | `services`, `progress` |
| `LocalRecords` | record files and `/etc/hosts`, read while they change | `services`, `progress` |
| `StubDaemon` | listeners, dispatch, workers, signals, start and end of the process | `services`, `progress` |
| `Varlink` | connections, framing, size limit, authorisation, replies | `services`, `progress` |
| `DbusService` | the object loop, calls on links, their conversions | `services`, `progress` |
| `NssLookup` | one NSS call over shared table, Varlink and stub, with a daemon that fails | `services`, `progress`, `gaih_tuples` |
| `Statistics` | the resolver's counters, read and reset while queries add to them | `services` |
| `Monitor` | the three dumps of the Varlink monitor, taken while links and cache change | `services` |
| `Startup` | configuration, publication and read-back across restarts and crashes | `services` |
| `GlobalCache` | shards, eviction, live counter, single flight `get_or_fetch` | `stores`, `endings` |
| `SharedTable` | publisher and both readers of the shared table, one access per step | `stores`, `endings` |
| `HyperResolver` | cache, flights, permits, CNAME chase and races of the racing resolver | `stores`, `endings` |
| `SupremacyCache` | sharded cache with stale windows, refresh and flush | `stores` |
| `MdnsResponder` | probing, announcing, conflicts and renames of several hosts | `stores`, `endings` |
| `MdnsQuery` | multicast queries and the record cache they fill | `stores`, `endings` |
| `DnsSdRegistry` | registrations, renames, subscribers | `stores` |
| `DnsSdCatalog` | configured services: reload, rename, retire | `stores`, `endings` |
| `Llmnr` | the LLMNR engine with its two locks | `stores`, `endings` |
| `NameCodec` | eleven readers and the writers of names | `algorithms` |
| `Messages` | walks over sections, local answers, TTLs, scans | `algorithms` |
| `Redirects` | CNAME and DNAME chains inside one response | `algorithms` |
| `AggressiveNsec` | type bitmaps, denials from cached ranges | `algorithms` |
| `Signatures` | DNSSEC records, canonical form, `verify_rrsig`, `ds_matches_dnskey` | `algorithms` |
| `ResolverQuery_proofs` | proofs about `ResolverQuery` | |
| `ServerExchange_proofs` | proofs about `ServerExchange` | |
| `SharedTable_steps`, `_proofs` | proofs about `SharedTable` | |
| `LinkRouting_proofs` | proofs about `LinkRouting` | |
| `StubDaemon_proofs` | proofs about `StubDaemon` | |
| `LocalRecords_proofs` | proofs about `LocalRecords` | |
| `SupremacyCache_proofs` | proofs about `SupremacyCache` | |

The header comment of each module says what its data stand for. Some points
beyond them:

**ResolverQuery.** A thread's path is `local` (validation, refused types, static
records), `route` (load the generation), `lookup`, `select`, `begin`, then as a
leader `exchange`, `insert` or `stale`, `publish`, `remove`, or as a follower
`wait`. `flight[e]` is one `InflightEntry` with its slot in `Inflight.entries`.
Writers change the table, bump the generation and flush shard after shard.

**ServerExchange.** `walk[t]` holds the locals of `query_servers`, `ex[t]` those
of `exchange_with_features`, `budget[t]` the `DnsAttemptBudget`. A date is
`never`, `ahead` or `due`. Which server `choose_server` prefers is left open.

**LinkRouting.** Two locks are held between steps: `networkd_links` while
`npc = "table"`, the routing table while `qpc[q] = "filter"`. The kernel and
networkd are the environment; they set off the descriptors only if these are open.
A file may be `refused`: a setter rejects its domains, and `sync_networkd_links`
returns early, with its link (`abandoned`) and its changes (`lost`) half done.
A snapshot of the kernel may fail, and both monitors end by requesting a stop when
their descriptors fail.

**Varlink.** A reply is dispatched and written in two steps; a write ends, fails
and ends the connection, or waits for a client that reads no more.

**StubDaemon.** The process joins its listeners, workers, servers and monitors. A
monitor may block for good on the locks of `lock_order`.

**LocalRecords.** A stamp, a directory or a file may fail to be read; `unread` are
the files the last load could not read.

**Lookups.** A name is `absolute` if it came with a final dot. An answer may have
an address record of the wrong length, and one such record aborts the lookup.

**GlobalCache.** `insert` adds the entry under the lock of its shard and adds to
the live counter in a later step that still holds it.

**HyperResolver.** After a race the leader fails if the answer is bogus
(`DnssecMode::Yes`) or its CNAME cannot be read; copying the answer into the arena
cannot fail for messages of 64 KiB. At an await the caller may drop the call: its
permit goes back, its flight stays listed, and the tasks of its race go on. A CNAME
is looked for only in answers without error to queries of another type.

**MdnsQuery.** A pass of `query_raw` reads each socket until it is empty; the
deadline is looked at between passes.

**Monitor.** A dump copies the links and then asks for each link's servers under
other locks, so an entry may show settings of one moment and servers of another;
the property says that each half was true while the dump ran.
`DumpDNSConfiguration` lists the global servers as configured, `DumpServerState`
leaves out the stub's own addresses.

**Signatures.** Digests and signature algorithms are ideal: a digest is a given
function, and a key has signed what the zone of the instance says. Records are put
in order by all their octets, `rdlength` before `rdata` (`canonical.rs` 41), where
RFC 4034, 6.3 orders by `rdata`, as the reference signer does. `VerifiedExactly` is
therefore stated for RRsets in which shorter data sort first (`ShorterFirst`): in
others, such as the NS records `a.long.example` and `bb.example`, a valid signature
does not verify. No
document of the repository states the order, so this is not a finding; `verify_rrsig`
is called only by the tests of `dnssec.rs`. Times beyond 32 bits are clamped by the
code, and the inputs stay below.

**How the models fit together.** `Lookups` takes a query as one step, which is
what `QueryService` allows; `ResolverQuery` takes an exchange as one step, which
`ServerExchange` refines, and `ServerExchange` takes a send and receive as one
step, which is `ServerConnections`. `StubDaemon`, `Varlink` and `DbusService` take
a lookup as one step. `NssLookup` has a reply as the daemon writes it, so the
order of the members of a JSON object is part of it.

## Runs

Several components share a run: the `MC` module has one set of slots as
variables, instantiates each component on them, and `world` says which of the
instances a behaviour is about. The instances never mix, so a run of several
worlds is the sum of its parts. A property of such a run names what it says of
each world, and includes the type invariants of the components it is about.

| Run | Instance | Property | Says |
|---|---|---|---|
| `queries` | 2 threads with 2 queries each that differ in CD flag and link, stale window, 2 shards, 1 routing change | `RepliesReflectRouting` | a change whose writer has returned is in every reply to a later query, but for packets that were late |
| | | `ImplementsService` | refinement of `QueryService` |
| | | `Coalescing` | one leader per key, and no follower or entry without one |
| `exchange` | 2 threads, 1 server, 2 attempts each, transports given up after 2 failures | `Recoverable` | a server below its best level has a date to try it again |
| | | `StrictAsksForDnssec` | strict mode never asks below the DO level |
| | | `ActiveTransportBelowLimit` | the transport in use is never one that has reached its limit |
| `modes` | 1 thread, 1 mode change during an exchange, TSIG or not | `StrictTlsStaysEncrypted` | an exchange begun in strict mode sends nothing in the clear |
| | | `ForcedLevelNeverRises` | a level given up is not tried again in the exchange |
| `links` | 2 links, one networkd's and one not, 1 setter, 2 events; 2 links that change owners, 1 query, 3 events | `EveryChangePublished` | no change of table or specs without `finish_routing_change`, but for what an early return of `sync_networkd_links` gives up |
| | | `TablesFollowSources` | table and kernel agree when the monitor sleeps after a successful snapshot; specs belong to the servers beside them, except on links an early return left half done |
| | | `ManagedLinksConfigured` | managed links have networkd's settings, released ones lose them, except links an early return left half done |
| | | `ScopesAgree` | scopes chosen from one table and filtered by another are eligible in both |
| `services` | 15 worlds: stub under overload and while binding, Varlink, dumps of links and of the cache, counters, NSS, D-Bus loop and values, start, records, lookups, datagrams, streams, a walk over 2 servers | `OverloadCostsOnlyDatagrams` | a datagram is in one place at a time; full queues never end a listener |
| | | `RepliesMatchRequests` | n-th reply for n-th request however bytes arrive; size limit; authorisation; dumps and counters report what was true while they were taken |
| | | `ResultsAreTrue` | what NSS returns is in the zone; "not found" was said by a source and is true, but where one family hides the other |
| | | `ReadBackIsNoChange` | D-Bus conversions and their inverses, as clients see a link |
| | | `RestartsAreStable` | same files, same servers, over crashes and read-back; no fixed address of the stub as upstream; no half files |
| | | `StampsCoverRecords` | records are those of the stamped files, less the files the load could not read |
| | | `EveryTargetTried` | a service fails only after its last target; redirect limit over all answers; single labels stay local unless absolute |
| | | `AnswersMatch` | late answers never end another query's exchange; descriptors and pools accounted for |
| | | `RefusedAfterAll` | a refusal is passed on only after all servers or a limit; three sends per counted attempt at most |
| `stores` | 12 worlds: shared table, global cache, racing resolver with flights, with errors and dropped calls and with races, supremacy cache, responders on 1 and 2 interfaces, mDNS queries, registry, catalogue, LLMNR | `AnswersAreCurrent` | a reader returns what its bucket holds at that moment, and undisturbed finds it |
| | | `OneFetchPerKey` | one fetch per key; shards within their limit; `len` low by at most the entry an insert is about to count |
| | | `SecureNeverOverwritten` | a fresh Secure answer is not replaced by another mark; answers without error are cached at the end of their chain |
| | | `ServedInTime` | nothing served after its window; a flush leaves nothing older |
| | | `NamesAreUnique` | with no loss and nothing in flight, two hosts do not both have a name; names are probed three times first |
| | | `CacheFollowsRule` | the mDNS cache is the one RFC 6762's rules give for what was heard |
| | | `SubscribersConverge` | a subscriber that reads its updates knows the services; indexes agree |
| | | `RenamesSurviveReload` | no reload that finds the file again undoes a rename; what needs a goodbye is kept |
| | | `InflightAccounted` | the LLMNR ids in use are exactly those of waiting calls, but for equal ids and failed sends; conflicts are recorded exactly where a link owns the name |
| `algorithms` | all inputs of the bound, one per state | `DecodersAgree` | eleven readers of names against one reference walk; encoders are read back |
| | | `WalksAgree` | walks over a message agree; local answers pass the daemon's own check; TTLs fall exactly |
| | | `ClassifiedExactly` | the class of a redirect chain is what its records say, and a direct answer is extracted but where an alias or a DNAME meets an address |
| | | `DnssecExact` | a signature verifies exactly for what the zone signed (shorter data first), a DS matches its own key; cached ranges deny exactly what does not exist; bitmaps say the same to all readers |
| `progress` | 9 worlds, smaller | `IInv` | the inductive invariant of the proofs about `ResolverQuery` |
| | | `CallsEnd` | queries, walks, lookups, exchanges, NSS calls and connections end, unless a client leaves a reply unread; what one of two parallel queries found is returned, unless the other's answer cannot be taken apart |
| | | `StopEndsProcess` | a stop joins all threads and datagrams are settled, unless the locks of `lock_order` block a thread |
| | | `ChangesArrive` | edits, SIGHUP and link changes arrive; a SIGHUP brings back files that could not be read |
| `endings` | 7 worlds, smaller | `CallsEnd` | table lookups, followers, races and LLMNR queries end; mDNS queries do unless every read finds a datagram |
| | | `ChangesTakeEffect` | probing ends in spite of losses; the catalogue catches up |

Three runs end in a violation; each is a finding in `PROJECT.json`:

| Run | What the code does |
|---|---|
| `crosslink` | the cache key has no route: a link's query is answered with another link's answer |
| `lock_order` | a query and `sync_networkd_links` take two locks in opposite orders and block each other |
| `gaih_tuples` | the family of a second address is read from the first, so `getaddrinfo` gets half of a name's addresses |

### Statements that do not hold

Each is stated in its module as a definition, with the reason in its comment.
TLC shows the three of `LinkRouting` on `MCLinkRouting` with the constants of
`MCLockOrder.cfg`, `SPECIFICATION Spec`, `Queriers = {}` and the changes given:

- `ManagedBlocksMutation` (`Setters = {u}`, `MaxCalls = 1`): a setter that passed
  its check changes a link networkd has taken over since (proved where networkd
  keeps its links, see Proofs);
- `ManagedLinksConfigured` (`KernelStates = {"gone", "up"}`): settings for a link
  the kernel thread has not added yet are never applied;
- `MonitorUpToDate`: files written between a synchronization and the next watch go
  unseen.

The others, on the instances of their runs unless something else is said:

- `LinkRouting!NothingLost`: what an early return of `sync_networkd_links` has
  changed is not published before the next change; a link it has written and
  `networkd_links` does not have is never reverted.
- `Varlink!LegalNeverRefused`: the limit counts bytes of the messages behind.
- `NssLookup!FamiliesIndependent`: a family is reported as not found because of the
  other: the parser of `gaih_tuples` drops its address, the shared table has only
  the other type, or the stub fails for one type.
- `LocalRecords!StampsProveRecords`: a file that could not be read is not read again
  before it is written or a SIGHUP comes, as its stamp is kept.
- `Lookups!AnswersAlwaysReachCaller`: an address record of the wrong length in the
  answer to one query loses the addresses of the other.
- `Redirects!DirectAlwaysExtracted`: an answer classified as direct may still be
  refused by `extract_address_records`, for an alias beside an address or a DNAME at
  a name of the chain.
- `MdnsQuery!QueriesEndInTime`: datagrams that arrive as fast as they are read keep
  `query_raw` from looking at its deadline.
- `DnsSdCatalog!RenamesLast`: after `flush`, or a `force_reload` that read the files
  before a service was added, the next refresh brings a renamed service back under
  the name it had given up.
- `StubDaemon!HangupReloads`: a second SIGHUP, or one that comes while a stop is
  noticed, may be lost (`ffi/native.c` 71-75 keeps a flag, not a count).
- `GlobalCache!FollowersHear` with `Cancellable`: a leader whose future is dropped
  inside `fetch().await` leaves its flight listed (`cache_x.rs` 111).
- `HyperResolver!CallsReturn` with `Cancellable`: a dropped leader's flight stays
  listed with its sender, and all later calls for its key follow it for ever.
- `HyperResolver!AttemptsInsideRace`: the tasks of a race are aborted and not
  awaited, although the comment at `hyper_resolver.rs` 960 says they are.
- `Llmnr!ConflictsDetected` with two changes of links: `handle_response` walks the
  links under a read guard and takes a second one; `set_link` in between blocks
  both.

### What the properties leave room for

- `EmissionsBounded` (in `RefusedAfterAll`) is wider than the attempt budget:
  neither TCP after truncation nor the second stream of `exchange_tcp` calls
  `begin_attempt`. `Recoverable` is stated for modes that stay as they are: after a
  link's DNSSEC mode is raised, a server stays at the old level with no date.
- `AnswersMatch` is about streams made for the exchange; a pooled stream keeps
  the server name and interface it was made with, and `new_tls_stream` reads the
  two in two reads.
- `ResultsAreTrue` says nothing of the errors: NXDOMAIN from the stub becomes EIO
  and UNAVAIL, EAGAIN is no reason to fall back, and of two families the one that
  fails is not reported when the other has no data.
- `RepliesReflectRouting` excepts late packets: a leader that fetched before a change
  and inserts after its flush leaves an old answer in the cache until it expires. A
  change of networkd's operational state alone is no change to it.
- `CallsEnd` and its neighbours in `progress` hold as long as the deadlock of
  `lock_order` is not entered; from then on queries that need the routing table wait.
- `TablesFollowSources`: after a failed `link_snapshot` the table stays behind until
  the kernel changes again.
- `ReadBackIsNoChange` does not see the order in which specs are stored, only the one
  they are reported in.
- `RestartsAreStable` knows of the stub's fixed addresses only, as `is_local_stub`
  does: a listener set by `DNSStubListenerExtra`, an option or the environment may
  be configured as an upstream. It holds although a read-back loses ports and names
  and merges servers of one address; when `/etc/resolv.conf` is the daemon's own
  uplink file, servers removed from the configuration stay. `FallbackDNS=` adds to
  the built-in servers.
- `DecodersAgree`: `dns_expand_name` takes names up to two octets too long, and the
  decoders of mDNS and hyper follow forward pointers; the property says exactly
  this. `extract_answer_records` copies compressed rdata as it is.
- An aged negative answer may live longer than what was left of it; `rewrite_dname`
  also applies a DNAME to its own owner; both are in the reference definitions.
- `DnssecExact` is, for denials, about names in the order of their octets on the
  wire, which is what `nsec_agg.rs` compares; it checks neither zones nor wildcards.
- `ServedInTime` allows an expired entry after a failed fetch although a fresh one
  was put meanwhile. The state cached with a chain is that of its last hop.

### Bounds

Numbers of threads, servers, links and changes are the smallest with which the
hazards occur: a leader, a follower and a second round that finds the finished
entry; a query before, during and after a change; a server that is left and one
that is turned to; a queue of one that is full; a file edited while it is read; a
publication that overtakes a reader; two hosts and one name. Retry limits of 24, 3
and 3 are cut to 2 or less, which keeps the cases below, at and above a limit.
Clocks are bounded and cover each lifetime, window and deadline with a tick to
spare. Limits of names are scaled together, 255 octets and 128 steps to 5 and 3
(7 and 4 in messages), and all packets over the octets that matter are enumerated.

Threads, entries, writers and servers are symmetric where no liveness is checked.
`MCExchange` uses a view that drops the locals of calls that have returned and the
history. In `links`, deadlock is checked where one link is networkd's; in the
other world the one that `lock_order` shows is real. `services`, `stores`,
`progress` and `endings` do not check for deadlock: their clients may be done, and
what must not stop is said by `CallsEnd` and its neighbours. `progress` walks over
one server; the walk over two is in `services`.

### Fairness

- Threads of the daemon that are in a call keep taking steps: waits on a server,
  on the bus and for a client's next request have a timeout, and but for the
  deadlock of `lock_order` nobody holds a lock for good. Writes of Varlink replies
  have no timeout, so nothing is assumed of them: a client may leave one waiting
  (`ResolverQuery`, `ServerExchange`, `Lookups`, `ServerConnections`, `StubDaemon`,
  `Varlink`, `DbusService`, `LocalRecords`; `NssLookup` for the client's process).
- Where several outcomes are possible only their disjunction is fair: nothing
  makes a server answer. An exchange that gets no answer fails by its timeout.
- `LinkRouting`: strong fairness for threads that wait for the routing lock:
  std's `RwLock` prefers waiting writers.
- `HyperResolver`: strong fairness for `Acquire` and `StartRace`, as tokio's
  semaphore is a queue; attempts end by their timeouts.
- `SharedTable`: only the reader is fair; the publisher may stop anywhere.
- `MdnsResponder`, `MdnsQuery`, `DnsSdCatalog`: their timers and threads go on, and
  nothing makes datagrams stop coming; a loss is a choice
  of each send, and `MdnsResponder` advances a probe whether or not it was sent.
- `Llmnr`: the listener and the calls run on; responses need not come.

## Proofs

Each theorem holds for every value of the constants: any sets of threads, keys,
servers or links and any bounds. Every inductive invariant was checked with TLC on
a small instance first. The lemmas on the publisher of `SharedTable` are in a
module of their own (`SharedTable_steps`).

**`ResolverQuery`.** Assumptions: the named `ASSUME`s of the module, which TLC
evaluates in its runs.

| Theorem | Statement |
|---|---|
| `Invariance` | `Spec => []IInv` |
| `TypeCorrect` | `Spec => []TypeOK` |
| `CoalescingHolds` | `Spec => []Coalescing`, from `SingleFlightHolds` and `WaitersHaveLeaderHolds` |
| `RepliesReflectRoutingHolds` | `Spec => []RepliesReflectRouting` |
| `Implementation` | `Spec => ImplementsService` |

None of the properties is inductive. `IInv` adds: a thread's entry has the
thread's own key (`KeyInv`); a leader's entry is listed, and running until it is
published (`LeaderInv`); listed entries have different keys and one leader each
(`OneEntry`, `OneLeader`); threads with the same generation saw the same
announcement when they loaded it (`SameFloor`), which is why a follower may take
its leader's packet; and a cached packet that did not go in late is as new as
every change that has returned or has passed its shard (`CacheInv`).

**`ServerExchange`.** Assumptions: the named `ASSUME`s of the module. `FixedSpec`
is `Spec` with the DNSSEC modes of the links left alone; TLS modes may change.

| Theorem | Statement |
|---|---|
| `TypesHold` | `Spec => []TypeOK` |
| `ExchangeInvariant` | `Spec => []Inv` |
| `StrictTlsNeverPlain` | `Spec => []StrictTlsStaysEncrypted` |
| `TransportBelowLimit` | `Spec => []ActiveTransportBelowLimit` |
| `QueriesBounded` | `Spec => []EmissionsBounded` |
| `RefusedOnlyAtTheEnd` | `Spec => []RefusedAfterAll` |
| `ForcedLevelOnlyFalls` | `Spec => ForcedLevelNeverRises`, an action property |
| `FixedModeInvariant` | `FixedSpec => []FixedInv` |
| `LoweredServersRecover` | `FixedSpec => []Recoverable` |
| `StrictModeAsksForDnssec` | `FixedSpec => []StrictAsksForDnssec` |

`Inv` says, for each thread, what its locals mean at its program point (`ThreadOK`),
that what it has sent is within three times what the budget has counted
(`BudgetOK`), and which servers it has been through (`WalkOK`). `FixedInv` adds that
a thread whose server is in strict mode never probes and is never sent back below DO
(`StrictOK`), and that a lowered server has a date to recover and a strict one is
never lowered (`ServerOK`): each needs the other, as the level a thread works with
comes from the shared state and goes back into it. With modes that change,
`Recoverable` and `StrictAsksForDnssec` are about modes of different moments, so the
theorems fix them.

**`SharedTable`.** Assumption: `ConstantsOK`, a hypothesis of each theorem.

| Theorem | Statement |
|---|---|
| `TableInvariant` | the inductive invariant |
| `LookupsAnswerCurrently` | a lookup that answers gives the entry its bucket holds then |
| `QuietLookupsFindEntries` | a lookup no publication touches finds an unexpired entry |

The invariant relates four parts: the shape of the files; what the writer has
under way (`WriterOK`); the buckets (`BucketsOK`: the cells of a valid bucket lie
in the used part of the arena and nothing overwrites them); and what a reader has
seen so far (`ReaderOK`). The argument is the seqlock's: a bucket's metadata
changes only while its generation is 0, and each new generation is above every
one a reader can have seen, so that equal generations before and after the copy
mean an unchanged bucket. A crash leaves the file as it is for good: a restart
makes a new one, so the old file's buckets stay as complete as they were and the
one under way stays at generation 0. `QuietInv` adds that between publications
the header is complete and the path names the file, and that a lookup nobody
disturbs has read the header and the bucket as they are.

**`LinkRouting`.** Assumption: `LinkConstants`, and the ones in the table.

| Theorem | Statement | Further hypotheses |
|---|---|---|
| `LinkTypesHold` | `Spec => []TypeOK` | |
| `ChangesArePublished` | `Spec => []EveryChangePublished` | |
| `KernelStateFollowed` | `Spec => []KernelUpToDate` | |
| `QueriesAskEligibleLinks` | `Spec => ScopesAgree` | |
| `ManagedLinksKept` | `Spec => ManagedBlocksMutation` | `OwnersFixed` |
| `ManagedLinksPopulated` | `Spec => []ManagedLinksConfigured` | `LinksStay`, and `NoSetters` or `OwnersFixed` |
| `UnmanagedLinksLoseSettings` | `Spec => []UnmanagedLinksReverted` | `NoSetters` |
| `SpecsFollowServers` | `Spec => []SpecsDescribeServers` | `OwnersFixed`, `OneSetter` |

The further hypotheses are instances of the constants under which the statement is
true at all: a takeover by networkd between a setter's check and its change,
settings for a link not yet in the table and two setters between the two locks break
them. The statements themselves except what an early return of `sync_networkd_links`
leaves behind (`lost`, `abandoned`) and, for `KernelUpToDate`, a failed snapshot;
the history variables are part of the model, and the theorems say that nothing else
is an exception. The invariants say what a thread's locals mean between its lock
regions: a change not yet published belongs to a thread that is on its way to
publish it (`Published`); the snapshot of the RTNL thread is the kernel's unless a
new signal is pending (`KernelOK`); a query holds the lock while it chooses scopes
(`QueryOK`); a setter past its check is at a link networkd does not own (`OwnerOK`);
and where the specs of a link do not describe its servers, the thread that stored
the servers is about to store the specs (`ServersOK`).

**`StubDaemon`.** Assumption: `StubConstants` (there is a worker, the bounds are
numbers, a datagram is not called `idle` or `ended`).

| Theorem | Statement |
|---|---|
| `StubTypesHold` | `Spec => []TypeOK` |
| `OverloadEndsNoListener` | `Spec => []ListenersSurviveOverload` |
| `DatagramsHeldOnce` | `Spec => []EveryDatagramHeldOnce` |
| `SettledDatagramsStay` | `Spec => FatesAreFinal`, an action property |

`EveryDatagramHeldOnce` counts the holders of a datagram. The invariant `Placed`
says where it is instead: nowhere (not yet sent, or settled), with one listener, at
one place of one queue, or with one worker, and with nobody else. Each step of
`try_send` and of a worker then moves it from one of these places to another, and a
worker that ends settles what is left in its queue.

**`LocalRecords`.** Assumption: `LocalConstants` (the bounds are numbers).

| Theorem | Statement |
|---|---|
| `FingerprintProvesRecords` | `Spec => []StampsCoverRecords` |
| `SkippedLoadsLoseNothing` | `Spec => SkipIsSound`, an action property |

`StampsCoverRecords` speaks of the files as they are and is not inductive: an edit
may bring them anywhere. `Covered` speaks of the stamps that are kept: as long as no
stamped file has been written since (`Current`), the records are what the stamped
files hold, less the files the load could not read (`Held`, `unread`). An edit gives
its file a stamp of its own, so it makes `Current` false for good or leaves all
stamped files alone. The load stores stamps and records of one selection: if nothing
was edited between the two, the records are what the stamped files hold; if
something was, the stamps are no longer current and claim nothing. `SkipIsSound` is
the use the code makes of it: a refresh that skips the load keeps what a load with
the same unreadable files would have given.

**`SupremacyCache`.** Assumption: `CacheConstants` (finitely many keys, a shard has
room for an entry, lifetimes and bounds are numbers).

| Theorem | Statement |
|---|---|
| `SecureKept` | `Spec => [][KeepsSecure]_vars` |
| `AnswersServedInTime` | `Spec => []ServedInTime` |
| `FlushesComplete` | `Spec => []FlushComplete` |
| `ShardsStayBounded` | `Spec => []ShardsBounded` |

All rest on `PutMakes`: after `put` the key has the new entry or keeps a Secure one,
and every other key has what it had or nothing. `Served` adds that an entry can be
served at least as long as it lives, which the fresh answers need; `Flushed` that a
shard the flush is through with has only entries numbered after its start. `Bounded`
is the bound with the types: a full shard drops what is past serving and, where that
frees nothing, an eighth of its entries and one more, so that `put` has room.

**Model-checked only.** The other modules, and of these seven all liveness: the
prover has neither fairness nor `ENABLED`. It does no induction over data either,
so the bounds of `GlobalCache`'s shards (an overfull shard has an oldest entry to
drop) and what the decoders of `NameCodec`, `Messages` and `Signatures` compute
stay with TLC, as do all modules with `RECURSIVE` definitions. The refinement
of `QueryService` is proved for safety; that every query ends is checked.

## Not modelled

- The digest and signature algorithms of DNSSEC; trust anchors and negative trust
  anchors: functions on bytes without state of their own.
- Formatting: the command-line clients, JSON and text of logs, properties that
  only report.
- Parsing of options that only set a value, and of state files' text.
- Helpers around one system call (`native.c`, `interface.c`), io_uring.
- The order in which `choose_server` prefers servers, and which of the eligible
  links a name selects: left open in the models, which is more than the code does.
- Supremacy's transport pools and disk cache; `ResolvConfPublisher`;
  `dnssd_runtime.rs`, the older form of `dnssd_runtime_v2.rs`.
- Weak memory: `SharedTable` is sequentially consistent. Its C reader's cut of a
  long answer to the caller's capacity is left out.

`PROJECT.json` says for each component what is left out.
