----------------------------- MODULE MCProgress -----------------------------
(***************************************************************************)
(* What must eventually happen in the components that serve clients, on    *)
(* instances that are smaller still.  The fairness is that of each         *)
(* component's module, within its world.                                   *)
(***************************************************************************)
EXTENDS MCSlots

VARIABLES s14, s15, s16, s17, s18   \* the further variables of ResolverQuery

every == <<all, s14, s15, s16, s17, s18>>
more == <<s14, s15, s16, s17, s18>>

\* Two threads with two queries each, no routing change; one question is refused.
Ask(q) == [question |-> q, cd |-> FALSE, link |-> 0, mode |-> "Full"]
Query == INSTANCE ResolverQuery WITH
    Threads <- {"t", "u"}, Writers <- {}, Questions <- {"p", "q"}, Links <- {0},
    Queries <- {Ask("p"), Ask("q")}, Ids <- {1}, RefusedTypes <- {"q"}, Entries <- {"e", "f"},
    None <- "none", Cache <- TRUE, StaleRetention <- FALSE, NShards <- 1,
    ShardOf <- [q \in {"p", "q"} |-> 1], MaxPerShard <- 1, MaxQueries <- 2, MaxChanges <- 0,
    pc <- s1, query <- s2, reply <- s3, gen <- s4, scopes <- s5, entry <- s6, asked <- s7,
    flight <- s8, cache <- s9, table <- s10, generation <- s11, wpc <- s12, wshard <- s13,
    version <- s14, announced <- s15, returned <- s16, floor <- s17, since <- s18

\* One thread that asks one server.
Walk == INSTANCE ServerExchange WITH
    Threads <- {"t"}, Servers <- {"a"}, NoServer <- "none", AttemptsMax <- 2, ConfigAttempts <- 2,
    FeatureRetryAttempts <- 1, TransportRetryAttempts <- 1, MaxFeatureRetries <- 1,
    MaxTransportRetries <- 1, DnssecModes <- {"no"}, TlsModes <- {"no"}, TsigQueries <- {FALSE},
    MaxModeChanges <- 0,
    dnssec <- s1, tls <- s2, features <- s3, transport <- s4, capability <- s5, omitsRrsig <- s6,
    pc <- s7, budget <- s8, walk <- s9, ex <- s10, emitted <- s11, changes <- s12

\* A worker, a datagram and a connection.
Stub == INSTANCE StubDaemon WITH
    Listeners <- {"l"}, ExtraListeners <- {}, Workers <- 1, Jobs <- {"j"},
    Connections <- {"c"}, Servers <- {"d"}, UDP_QUEUE_PER_WORKER <- 1, MaxTcpQueries <- 1,
    MaxSignals <- 0,
    main <- s1, bound <- s2, stop <- s3, reload <- s4, signals <- s5, unserved <- s6, next <- s7,
    listener <- s8, queue <- s9, worker <- s10, fate <- s11, client <- s12, server <- s13

Request(method, size) == [method |-> method, size |-> size]
Socket == INSTANCE Varlink WITH
    Clients <- {[endpoint |-> "Resolve", uid |-> 0]},
    Requests <- {Request("malformed", 1), Request("FlushCaches", 2), Request("ResolveHostname", 4)},
    MAX_MESSAGE_SIZE <- 4, CHUNK <- 2, MaxRequests <- 2,
    running <- s1, conn <- s2, effects <- s3

\* A name with addresses of both families, looked up for both at once.
Nss == INSTANCE NssLookup WITH
    Zones <- {[exists |-> TRUE, addrs |-> <<[family |-> 4, n |-> 1], [family |-> 6, n |-> 1]>>,
               names |-> <<1>>]},
    Operations <- {[op |-> "gethostbyname4", family |-> 0]}, MaxFaults <- 1,
    zone <- s1, table <- s2, daemon <- s3, faults <- s4, call <- s5

\* One link that comes and goes.
Dbus == INSTANCE DbusService WITH
    Ifindexes <- {1}, ServerLists <- {}, Modes <- {}, ManagedLists <- {}, MaxChanges <- 3, MaxFaults <- 0,
    links <- s1, synchronized <- s2, objects <- s3, registered <- s4, loop <- s5, stop <- s6,
    call <- s7, changes <- s8, faults <- s9

LocalRecord(type) == {[name |-> "n", type |-> type, holds |-> "v4"]}
Local == INSTANCE LocalRecords WITH
    Directories <- {1}, FileNames <- {"f"}, Bodies <- {{}, LocalRecord("A")}, MaxEdits <- 2, MaxFaults <- 1,
    files <- s1, records <- s2, unread <- s3, stamps <- s4, due <- s5, refresh <- s6, query <- s7,
    hosts_file <- s8, hosts <- s9, reload <- s10, edits <- s11, faults <- s12

\* A short name with a search domain; redirects that lead back.
Lookup == INSTANCE Lookups WITH
    Asked <- {[name |-> <<"h">>, types |-> <<"A", "AAAA">>, absolute |-> FALSE]}, Reversed <- {<<"1", "arpa">>},
    Targets <- {<<"c", "x">>, <<"h", "x">>}, domains <- <<[name |-> <<"x">>, route_only |-> FALSE]>>,
    resolve_unicast_single_label <- FALSE, CNAME_REDIRECTS_MAX <- 1,
    Services <- {[owner |-> <<"s", "x">>, no_address |-> FALSE, no_txt |-> TRUE]}, HostsFiles <- {{}},
    hosts <- s1, call <- s2, follow <- s3

Connection == INSTANCE ServerConnections WITH
    Threads <- {"t"}, Kinds <- {"tcp", "strict"}, Questions <- {"a"}, Names <- {"", "n"},
    Interfaces <- {0, 2}, PoolMax <- 1, MaxDescriptors <- 3, IdMod <- 2, MaxQueries <- 3, MaxInbox <- 2,
    MaxChanges <- 1,
    spec <- s1, fds <- s2, pools <- s3, thread <- s4, sent <- s5, changes <- s6

Init ==
    /\ world \in Worlds
    /\ \/ world = "queries" /\ Query!Init
       \/ /\ s14 = 0 /\ s15 = 0 /\ s16 = 0 /\ s17 = 0 /\ s18 = 0
          /\ \/ world = "walk" /\ Walk!Init /\ Blank(12)
             \/ world = "stub" /\ Stub!Init /\ Blank(13)
             \/ world = "varlink" /\ Socket!Init /\ Blank(3)
             \/ world = "nss" /\ Nss!Init /\ Blank(5)
             \/ world = "dbus" /\ Dbus!Init /\ Blank(9)
             \/ world = "records" /\ Local!Init /\ Blank(12)
             \/ world = "lookups" /\ Lookup!Init /\ Blank(3)
             \/ world = "connection" /\ Connection!Init /\ Blank(6)
Next ==
    \/ world = "queries" /\ Query!Next /\ UNCHANGED world
    \/ /\ UNCHANGED more
       /\ \/ world = "walk" /\ Walk!Next /\ Keep(12)
          \/ world = "stub" /\ Stub!Next /\ Keep(13)
          \/ world = "varlink" /\ Socket!Next /\ Keep(3)
          \/ world = "nss" /\ Nss!Next /\ Keep(5)
          \/ world = "dbus" /\ Dbus!Next /\ Keep(9)
          \/ world = "records" /\ Local!Next /\ Keep(12)
          \/ world = "lookups" /\ Lookup!Next /\ Keep(3)
          \/ world = "connection" /\ Connection!Next /\ Keep(6)

Kept(n) == Keep(n) /\ UNCHANGED more
Fairness ==
    /\ \A t \in {"t", "u"} : WF_every(world = "queries" /\ Query!Step(t) /\ UNCHANGED world)
    /\ WF_every(world = "walk" /\ Walk!Step("t") /\ Kept(12))
    /\ WF_every(world = "stub" /\ Stub!MainStep /\ Kept(13))
    /\ WF_every(world = "stub" /\ Stub!ListenerStep("l") /\ Kept(13))
    /\ WF_every(world = "stub" /\ Stub!WorkerStep(0) /\ Kept(13))
    /\ WF_every(world = "stub" /\ Stub!ServerEnds("d") /\ Kept(13))
    /\ \A c \in {[endpoint |-> "Resolve", uid |-> 0]} :
          /\ WF_every(world = "varlink" /\ Socket!ServerStep(c) /\ Kept(3))
          /\ WF_every(world = "varlink" /\ Socket!accept_varlink_connection(c) /\ Kept(3))
    /\ WF_every(world = "nss" /\ Nss!ClientStep /\ Kept(5))
    /\ WF_every(world = "dbus" /\ Dbus!LoopStep /\ Kept(9))
    /\ WF_every(world = "records" /\ Local!Reload /\ Kept(12))
    /\ WF_every(world = "records" /\ Local!Elapse /\ Kept(12))
    /\ WF_every(world = "records" /\ Local!QueryStep /\ Kept(12))
    /\ WF_every(world = "lookups" /\ Lookup!LookupStep /\ Kept(3))
    /\ WF_every(world = "connection" /\ Connection!Step("t") /\ Kept(6))
    /\ WF_every(world = "connection" /\ Connection!FailExchange("t") /\ Kept(6))
Spec == Init /\ [][Next]_every /\ Fairness

-----------------------------------------------------------------------------
\* The inductive invariant of the proofs about ResolverQuery.
IInv == world = "queries" => Query!IInv

\* What a client begins comes to an end.  A query ends, a follower's too whose
\* leader fails (ResolverQuery); query_servers returns, since each way round its
\* loop uses up budget (ServerExchange); a lookup ends, along redirect loops too,
\* and addresses that one of its two parallel queries found reach the caller,
\* unless the answer to the other cannot be taken apart (Lookups:
\* lookup_name_exact, extract_address_records); an exchange with a server ends, after one retry
\* of a failed stream (ServerConnections); an NSS lookup returns, after one retry
\* for a larger buffer (NssLookup); and a Varlink connection ends with a reply to
\* each complete request, unless it was refused for its size, the client has
\* closed it or the client leaves a reply unread, for writes have no timeout
\* (Varlink: serve_connection).  Threads are interchangeable, so one of two
\* speaks for both.
CallsEnd ==
    /\ (world = "queries" /\ s1["t"] # "idle") ~> (world = "queries" => s1["t"] = "idle")
    /\ (world = "walk" /\ s7["t"] # "idle") ~> (world = "walk" => s7["t"] = "idle")
    /\ (world = "lookups" /\ s2.at # "idle") ~> (world = "lookups" => s2.at = "idle")
    /\ (world = "lookups" /\ s2.at = "lookup" /\ \E t \in DOMAIN s3 : s3[t].result.at = "ok")
          ~> (world = "lookups" => \/ s2.at = "joined" /\ s2.result.at = "ok"
                                   \/ \E t \in DOMAIN s3 : s3[t].result.at = "spoiled")
    /\ (world = "connection" /\ s4["t"].pc # "idle") ~> (world = "connection" => s4["t"].pc = "idle")
    /\ (world = "nss" /\ s5.at # "idle") ~> (world = "nss" => s5.at = "idle")
    /\ \A c \in {[endpoint |-> "Resolve", uid |-> 0]} :
          (world = "varlink" /\ s2[c].state = "served") ~>
              (\/ world # "varlink" \/ s2[c].state \in {"too large", "broken"}
               \/ s2[c].writing = "client waits"
               \/ s2[c].state = "closed" /\ Len(s2[c].replies) = Len(s2[c].sent))

\* A stop ends the process: all threads are joined, those of the servers and of
\* the two monitors included; and until then a datagram is answered, rejected or
\* dropped (StubDaemon: run_stub, udp_listener, udp_worker).  Excepted is a
\* process in which the networkd thread and a query wait for each other's lock,
\* which lock_order shows to happen: such a thread is never joined.
StopEndsProcess ==
    /\ (world = "stub" /\ s3) ~> (world = "stub" => s1 = "exited" \/ s13["d"] = "blocked")
    /\ (world = "stub" /\ s11["j"] = "socket")
          ~> (world = "stub" => \/ s11["j"] \in {"answered", "rejected", "dropped"}
                                \/ s1 = "exited" \/ s13["d"] = "blocked")

\* Changes outside the daemon arrive.  Once edits end, the records are those of
\* the files whenever no check is due, whatever was edited in the middle of a
\* refresh, but for a file that could not be read when it was loaded, which only
\* a new edit or a SIGHUP that gets the lock brings back; and a SIGHUP brings in
\* the /etc/hosts of that moment or a later one, unless it cannot be read
\* (LocalRecords: refresh_if_due, read_json_file, invalidate_system,
\* reload_hosts).  A link gets its object on the bus and a removed link loses it,
\* unless the link comes or goes again or the daemon stops (DbusService: the
\* loop).
ChangesArrive ==
    /\ <>[](world = "records" /\ s6.at = "idle" /\ ~s5
                => s2 = Local!load_selected_files(Local!select_files, s3))
    /\ <>(world = "records" /\ s10.at = "invalidate" /\ s12 = 1)
          => \/ <>[](world = "records" => s10.at = "invalidate")
             \/ <>[](world = "records" /\ s6.at = "idle" /\ ~s5
                        => s2 = Local!load_selected_files(Local!select_files, {}))
    /\ \A v \in 1..2 :
          (world = "records" /\ s10.at = "read" /\ s8.modified = v)
              ~> (world = "records" => s10.failed \/ s9.modified >= v)
    /\ (world = "dbus" /\ 1 \in DOMAIN s1) ~> (world = "dbus" => 1 \in s3 \/ 1 \notin DOMAIN s1 \/ s6)
    /\ (world = "dbus" /\ 1 \notin DOMAIN s1) ~> (world = "dbus" => 1 \notin s3 \/ 1 \in DOMAIN s1 \/ s6)
=============================================================================
