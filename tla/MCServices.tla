----------------------------- MODULE MCServices -----------------------------
(***************************************************************************)
(* Small instances of the components that serve clients: the stub daemon,  *)
(* the Varlink and D-Bus services, the NSS module, the start of the        *)
(* process, the local records, the lookups and the connections to servers. *)
(***************************************************************************)
EXTENDS MCSlots

\* Two workers with queues of one, and datagrams to overload them; then two
\* listeners, one of which may be missing, and a D-Bus server that may fail.
Stub == INSTANCE StubDaemon WITH
    Listeners <- {"l"}, ExtraListeners <- {}, Workers <- 2, Jobs <- {"j", "k", "m"},
    Connections <- {}, Servers <- {}, UDP_QUEUE_PER_WORKER <- 1, MaxTcpQueries <- 1, MaxSignals <- 1,
    main <- s1, bound <- s2, stop <- s3, reload <- s4, signals <- s5, unserved <- s6, next <- s7,
    listener <- s8, queue <- s9, worker <- s10, fate <- s11, client <- s12, server <- s13

Binding == INSTANCE StubDaemon WITH
    Listeners <- {"l"}, ExtraListeners <- {"x"}, Workers <- 1, Jobs <- {"j", "k"},
    Connections <- {}, Servers <- {"d"}, UDP_QUEUE_PER_WORKER <- 1, MaxTcpQueries <- 1, MaxSignals <- 1,
    main <- s1, bound <- s2, stop <- s3, reload <- s4, signals <- s5, unserved <- s6, next <- s7,
    listener <- s8, queue <- s9, worker <- s10, fate <- s11, client <- s12, server <- s13

\* A caller on each socket; messages of one byte, of the limit and over it.
Request(method, size) == [method |-> method, size |-> size]
Socket == INSTANCE Varlink WITH
    Clients <- {[endpoint |-> "Resolve", uid |-> 0], [endpoint |-> "Monitor", uid |-> 1]},
    Requests <- {Request("malformed", 4), Request("FlushCaches", 3), Request("Monitor.ResetStatistics", 1)},
    MAX_MESSAGE_SIZE <- 3, CHUNK <- 2, MaxRequests <- 2,
    running <- s1, conn <- s2, effects <- s3

\* Dumps: links with two servers at one address or a link-local one, while they
\* come, go and are configured; then a cache whose entries expire.
Spec3(address, interface, name) == [address |-> address, interface |-> interface, name |-> name]
Configured(addresses, specs) == [addresses |-> addresses, specs |-> specs]
MonitorGlobal ==
    [upstreams |-> Configured(<<"a", "stub">>, <<>>), fallback |-> Configured(<<"a">>, <<Spec3("a", 0, "n")>>),
     stub |-> {"stub"}, modes |-> [dnssec |-> "yes", tls |-> "no"]]
Downgraded ==
    [possible |-> 0, verified |-> 0, once |-> TRUE, badOpt |-> TRUE, noRrsig |-> FALSE, doOff |-> FALSE,
     mode |-> "Tcp", failedTcp |-> 1, tlsPossible |-> FALSE, tlsVerified |-> TRUE]
Cacheable(rcode, records, ttl) == [rcode |-> rcode, records |-> records, ttl |-> ttl]
LinkDumps == INSTANCE Monitor WITH
    Links <- {1, 2},
    SpecLists <- {<<Spec3("a", 0, "n"), Spec3("a", 3, "m")>>, <<Spec3("f", 0, "")>>},
    LinkLocal <- {"f"}, Kernels <- {"local"}, LinkModes <- {[dnssec |-> "no", tls |-> "yes"]},
    Global <- MonitorGlobal, Learned <- {Downgraded}, Keys <- {}, Shards <- {}, Values <- {},
    MAX_STALE <- 1, MaxTime <- 0, MaxChanges <- 2,
    table <- s1, specs <- s2, states <- s3, setter <- s4, kernel <- s5, cache <- s6, now <- s7, dump <- s8,
    seen <- s9, changes <- s10
CacheDumps == INSTANCE Monitor WITH
    Links <- {}, SpecLists <- {}, LinkLocal <- {}, Kernels <- {}, LinkModes <- {}, Global <- MonitorGlobal,
    Learned <- {}, Keys <- {1, 2}, Shards <- {{1}, {2}}, Values <- {Cacheable(0, 1, 2), Cacheable(3, 0, 1)},
    MAX_STALE <- 1, MaxTime <- 4, MaxChanges <- 2,
    table <- s1, specs <- s2, states <- s3, setter <- s4, kernel <- s5, cache <- s6, now <- s7, dump <- s8,
    seen <- s9, changes <- s10

\* Two calls that run while one of the totals is reset and read.
Counting == INSTANCE Statistics WITH
    Queries <- {"p", "q"}, Totals <- {"cache_hits"}, MaxQueries <- 1, MaxResets <- 2,
    counter <- s1, query <- s2, reset <- s3, report <- s4, resets <- s5, during <- s6, after <- s7

\* Names with addresses of one family, of both, with none, and none at all.
Address(family, n) == [family |-> family, n |-> n]
Zone(addrs, names) == [exists |-> TRUE, addrs |-> addrs, names |-> names]
NssZones ==
    {Zone(<<Address(4, 1)>>, <<1>>), Zone(<<Address(6, 1)>>, <<>>),
     Zone(<<Address(4, 1), Address(6, 1)>>, <<1, 2>>),
     Zone(<<Address(6, 1), Address(4, 1), Address(4, 2)>>, <<1>>),
     Zone(<<>>, <<>>), [exists |-> FALSE, addrs |-> <<>>, names |-> <<>>]}
Operation(op, family) == [op |-> op, family |-> family]
Nss == INSTANCE NssLookup WITH
    Zones <- NssZones,
    Operations <- {Operation("gethostbyname4", 0), Operation("gethostbyname3", 0),
                   Operation("gethostbyname3", 6), Operation("gethostbyaddr2", 4)},
    MaxFaults <- 2,
    zone <- s1, table <- s2, daemon <- s3, faults <- s4, call <- s5

\* Two links that come and go while the bus may fail; then one link whose
\* servers and modes are written in all the ways the conversions tell apart.
Server(ip, port, name) == [ip |-> ip, port |-> port, name |-> name]
ModeArg(setting, value) == [setting |-> setting, value |-> value]
DbusLoop == INSTANCE DbusService WITH
    Ifindexes <- {1, 2}, ServerLists <- {<<Server("1", 853, "n")>>}, Modes <- {},
    ManagedLists <- {<<Server("1", 853, "n")>>}, MaxChanges <- 2, MaxFaults <- 1,
    links <- s1, synchronized <- s2, objects <- s3, registered <- s4, loop <- s5, stop <- s6,
    call <- s7, changes <- s8, faults <- s9
DbusValues == INSTANCE DbusService WITH
    Ifindexes <- {1},
    ServerLists <- {<<Server("1", 853, "n"), Server("2", 54, ""), Server("1", 0, "m")>>,
                    <<Server("1", 53, ""), Server("bad", 0, "")>>},
    Modes <- {ModeArg("DNSSEC", "off"), ModeArg("DNSOverTLS", "opportunistic"), ModeArg("LLMNR", "maybe")},
    ManagedLists <- {<<Server("1", 853, "n")>>}, MaxChanges <- 2, MaxFaults <- 0,
    links <- s1, synchronized <- s2, objects <- s3, registered <- s4, loop <- s5, stop <- s6,
    call <- s7, changes <- s8, faults <- s9

\* Configurations that name the stub itself, clear a list, or name one address
\* twice; a resolv.conf somebody else wrote.
Setting(key, value) == [key |-> key, value |-> value]
Domain(name, route_only) == [name |-> name, route_only |-> route_only]
Nothing == <<[key |-> "absent", value |-> <<>>]>>
Start == INSTANCE Startup WITH
    Texts <- {<<Setting("DNS", <<Server("1", 53, "n"), Server("1", 53, "m"), Server("127.0.0.53", 53, "")>>),
                Setting("Domains", <<Domain("x", FALSE), Domain("y", TRUE)>>)>>,
              <<Setting("DNS", <<>>), Setting("FallbackDNS", <<>>)>>,
              <<Setting("FallbackDNS", <<Server("::1", 53, ""), Server("2", 5353, "n")>>)>>},
    Directories <- 2, FileNames <- 1,
    Credentials <- {[dns |-> Nothing, domains |-> Nothing],
                    [dns |-> <<Server("3", 53, ""), Server("bad", 0, ""), Server("1", 53, "")>>,
                     domains |-> Nothing]},
    DefaultFallback <- <<[ip |-> "2", port |-> 53]>>,
    Upstreams <- {<<>>, <<Server("1", 53, "")>>},
    ForeignBodies <- {[kind |-> "whole", servers |-> <<"4", "127.0.0.54">>, search |-> <<"x", ".">>]},
    MaxEdits <- 2,
    main <- s1, drop_ins <- s2, creds <- s3, etc <- s4, run <- s5, tmp <- s6, proc <- s7,
    edited <- s8, edits <- s9

\* One record file in two directories, edited while it is read.
LocalRecord(type) == {[name |-> "n", type |-> type, holds |-> "v4"]}
Local == INSTANCE LocalRecords WITH
    Directories <- {1, 2}, FileNames <- {"f"}, Bodies <- {{}, LocalRecord("A"), LocalRecord("AAAA")},
    MaxEdits <- 2, MaxFaults <- 1,
    files <- s1, records <- s2, unread <- s3, stamps <- s4, due <- s5, refresh <- s6, query <- s7,
    hosts_file <- s8, hosts <- s9, reload <- s10, edits <- s11, faults <- s12

\* A short name with a search domain, a full one, two services, an address;
\* redirects that lead back.
LookupsDomains == <<Domain(<<"r">>, TRUE), Domain(<<"x">>, FALSE)>>
ServiceCall(flag) == [owner |-> <<"s", "x">>, no_address |-> flag, no_txt |-> flag]
Lookup == INSTANCE Lookups WITH
    Asked <- {[name |-> <<"h">>, types |-> <<"A", "AAAA">>, absolute |-> FALSE],
              [name |-> <<"h", "x">>, types |-> <<"AAAA">>, absolute |-> FALSE],
              [name |-> <<"h">>, types |-> <<"AAAA">>, absolute |-> TRUE]},
    Reversed <- {<<"1", "arpa">>}, Targets <- {<<"h">>, <<"c", "x">>}, domains <- LookupsDomains,
    resolve_unicast_single_label <- FALSE, CNAME_REDIRECTS_MAX <- 2,
    Services <- {ServiceCall(FALSE), ServiceCall(TRUE)},
    HostsFiles <- {{}, {[name |-> <<"h">>, type |-> "A"]}},
    hosts <- s1, call <- s2, follow <- s3

\* Two threads that share the datagram sockets, then the streams, of a server.
Datagrams == INSTANCE ServerConnections WITH
    Threads <- {"t", "u"}, Kinds <- {"udp"}, Questions <- {"a", "b"}, Names <- {""}, Interfaces <- {0, 2},
    PoolMax <- 1, MaxDescriptors <- 3, IdMod <- 2, MaxQueries <- 3, MaxInbox <- 2, MaxChanges <- 0,
    spec <- s1, fds <- s2, pools <- s3, thread <- s4, sent <- s5, changes <- s6
Streams == INSTANCE ServerConnections WITH
    Threads <- {"t", "u"}, Kinds <- {"tls", "strict"}, Questions <- {"a"}, Names <- {"", "n"},
    Interfaces <- {0, 2}, PoolMax <- 1, MaxDescriptors <- 3, IdMod <- 2, MaxQueries <- 2, MaxInbox <- 2,
    MaxChanges <- 1,
    spec <- s1, fds <- s2, pools <- s3, thread <- s4, sent <- s5, changes <- s6

\* One thread that asks two servers.
Walk == INSTANCE ServerExchange WITH
    Threads <- {"t"}, Servers <- {"a", "b"}, NoServer <- "none", AttemptsMax <- 2, ConfigAttempts <- 2,
    FeatureRetryAttempts <- 1, TransportRetryAttempts <- 1, MaxFeatureRetries <- 1,
    MaxTransportRetries <- 1, DnssecModes <- {"no"}, TlsModes <- {"no"}, TsigQueries <- {FALSE},
    MaxModeChanges <- 0,
    dnssec <- s1, tls <- s2, features <- s3, transport <- s4, capability <- s5, omitsRrsig <- s6,
    pc <- s7, budget <- s8, walk <- s9, ex <- s10, emitted <- s11, changes <- s12

Init ==
    /\ world \in Worlds
    /\ \/ world = "stub" /\ Stub!Init /\ Blank(13)
       \/ world = "binding" /\ Binding!Init /\ Blank(13)
       \/ world = "varlink" /\ Socket!Init /\ Blank(3)
       \/ world = "link_dumps" /\ LinkDumps!Init /\ Blank(10)
       \/ world = "cache_dumps" /\ CacheDumps!Init /\ Blank(10)
       \/ world = "statistics" /\ Counting!Init /\ Blank(7)
       \/ world = "nss" /\ Nss!Init /\ Blank(5)
       \/ world = "dbus_loop" /\ DbusLoop!Init /\ Blank(9)
       \/ world = "dbus_values" /\ DbusValues!Init /\ Blank(9)
       \/ world = "startup" /\ Start!Init /\ Blank(9)
       \/ world = "records" /\ Local!Init /\ Blank(12)
       \/ world = "lookups" /\ Lookup!Init /\ Blank(3)
       \/ world = "datagrams" /\ Datagrams!Init /\ Blank(6)
       \/ world = "streams" /\ Streams!Init /\ Blank(6)
       \/ world = "walk" /\ Walk!Init /\ Blank(12)
Next ==
    \/ world = "stub" /\ Stub!Next /\ Keep(13)
    \/ world = "binding" /\ Binding!Next /\ Keep(13)
    \/ world = "varlink" /\ Socket!Next /\ Keep(3)
    \/ world = "link_dumps" /\ LinkDumps!Next /\ Keep(10)
    \/ world = "cache_dumps" /\ CacheDumps!Next /\ Keep(10)
    \/ world = "statistics" /\ Counting!Next /\ Keep(7)
    \/ world = "nss" /\ Nss!Next /\ Keep(5)
    \/ world = "dbus_loop" /\ DbusLoop!Next /\ Keep(9)
    \/ world = "dbus_values" /\ DbusValues!Next /\ Keep(9)
    \/ world = "startup" /\ Start!Next /\ Keep(9)
    \/ world = "records" /\ Local!Next /\ Keep(12)
    \/ world = "lookups" /\ Lookup!Next /\ Keep(3)
    \/ world = "datagrams" /\ Datagrams!Next /\ Keep(6)
    \/ world = "streams" /\ Streams!Next /\ Keep(6)
    \/ world = "walk" /\ Walk!Next /\ Keep(12)
Spec == Init /\ [][Next]_all

-----------------------------------------------------------------------------
\* A datagram is in one place at a time: a socket, a listener's hands, one
\* queue or one worker; full queues cost datagrams, never a listener
\* (StubDaemon: dispatch and its retries).
OverloadCostsOnlyDatagrams ==
    /\ world = "stub" => Stub!TypeOK /\ Stub!EveryDatagramHeldOnce /\ Stub!ListenersSurviveOverload
    /\ world = "binding" =>
          Binding!TypeOK /\ Binding!EveryDatagramHeldOnce /\ Binding!ListenersSurviveOverload

\* The n-th reply of a connection answers its n-th request, however the bytes
\* arrive; a connection is dropped for its size only when a message of it is
\* longer than MAX_MESSAGE_SIZE less one read (the bytes of the next message are
\* counted too, so that one within the limit may be refused with its connection);
\* control operations take effect for the superuser only (Varlink:
\* serve_connection, dispatch_for_endpoint).  What a dump says of links, servers and the cache
\* was so during the call, whatever changes meanwhile (Monitor), and a reset of
\* the statistics neither loses a running call nor keeps an old count
\* (Statistics).
RepliesMatchRequests ==
    /\ world = "varlink" => /\ Socket!TypeOK /\ Socket!RepliesMatchRequests
                            /\ Socket!OnlyLargeRefused /\ Socket!ControlsAuthorised
    /\ world = "link_dumps" => LinkDumps!TypeOK /\ LinkDumps!ConfigurationTrue /\ LinkDumps!ServerRowsTrue
    /\ world = "cache_dumps" => CacheDumps!TypeOK /\ CacheDumps!EntriesInTime
    /\ world = "statistics" => Counting!TypeOK /\ Counting!ActiveExact /\ Counting!ResetForgets

\* An NSS lookup that succeeds returns addresses and names the zone has, and
\* "not found" is returned only when a source spoke of the name and it has none
\* of what was asked.  Two kinds of names are excepted, and they are refuted in
\* FamiliesIndependent: gethostbyname3 for one family of a name with both, and a
\* name with only IPv6 addresses asked at the stub (NssLookup: the order of the
\* sources and the packing of replies).
ResultsAreTrue == world = "nss" => Nss!TypeOK /\ Nss!SuccessIsTrue /\ Nss!NotFoundIsTrue

\* Servers and modes that are read from a link and written back leave it as
\* clients see it (DbusService: dns_ex and its inverse).
ReadBackIsNoChange ==
    /\ world = "dbus_loop" => DbusLoop!TypeOK /\ DbusLoop!ReadBackIsNoChange
    /\ world = "dbus_values" => DbusValues!TypeOK /\ DbusValues!ReadBackIsNoChange

\* Over edits, crashes and restarts: the same files give the same servers, also
\* when a start reads back what the one before has published; no fixed
\* address of the stub is a server; no reader sees half a file; and the mode that is reported is
\* how clients of resolv.conf are served (Startup: Config::load, write_atomic).
RestartsAreStable ==
    world = "startup" => /\ Start!TypeOK /\ Start!RestartsAreStable /\ Start!NeverItsOwnUpstream
                         /\ Start!ViewsAgree /\ Start!PublishedFilesWhole /\ Start!ModeDescribesClients

\* A fingerprint that equals the files' is proof that the records are theirs,
\* but for files that could not be read when they were loaded (LocalRecords:
\* refresh_if_due, read_json_file).
StampsCoverRecords == world = "records" => Local!TypeOK /\ Local!StampsCoverRecords

\* A service lookup gives up only after the last of its targets, a chain of
\* redirects keeps to its limit over all answers, and a single label is not
\* sent to a unicast server as it stands, unless it came with a final dot, a
\* server redirected to it, or the hosts database lost it meanwhile (Lookups:
\* resolve_service_entries, query_following_redirects, lookup_candidates).
EveryTargetTried ==
    world = "lookups" => /\ Lookup!TypeOK /\ Lookup!EveryTargetTried
                         /\ Lookup!ChainsBounded /\ Lookup!SingleLabelsStayLocal

\* An exchange ends with the answer to its own question, late answers to
\* earlier ones included: a stream goes back to its pool only without an answer
\* under way, every descriptor is one thread's or one pool's, and what is used
\* is configured as its kind demands (ServerConnections).
AnswersMatch ==
    /\ world = "datagrams" =>
          /\ Datagrams!TypeOK /\ Datagrams!AnswersMatch /\ Datagrams!DescriptorsAccounted
          /\ Datagrams!PooledStreamsIdle /\ Datagrams!ReadySocketsConfigured
    /\ world = "streams" =>
          /\ Streams!TypeOK /\ Streams!AnswersMatch /\ Streams!DescriptorsAccounted
          /\ Streams!PooledStreamsIdle /\ Streams!ReadySocketsConfigured

\* query_servers reports a refusal only after every server was asked, or when
\* the budget or the configured attempts are used up; and at most three queries
\* go out for each attempt the budget counts (ServerExchange).
RefusedAfterAll == world = "walk" => Walk!TypeOK /\ Walk!RefusedAfterAll /\ Walk!EmissionsBounded
=============================================================================
