------------------------------ MODULE MCEndings ------------------------------
(***************************************************************************)
(* What must eventually happen in the components that keep answers and in  *)
(* those that speak multicast.  The fairness is that of each component's   *)
(* module, within its world.                                               *)
(***************************************************************************)
EXTENDS MCSlots

Table == INSTANCE SharedTable WITH
    Keys <- {"k"}, BucketOf <- [key \in {"k"} |-> 0], Sizes <- {1}, ArenaSize <- 2,
    Attempts <- 2, Publications <- 2, Files <- 1,
    mem <- s1, path <- s2, files <- s3, writer <- s4, published <- s5, reader <- s6, current <- s7

\* Leaders are not cancelled here: see FollowersHear in GlobalCache.
Cache == INSTANCE GlobalCache WITH
    Tasks <- {"t", "u"}, Keys <- {"k"}, ShardOf <- [key \in {"k"} |-> 0],
    max_per_shard <- 1, Ttls <- {1}, stale_window <- 1, MaxTime <- 2, MaxFetches <- 2, Cancellable <- FALSE,
    now <- s1, map <- s2, live <- s3, gen <- s4, flights <- s5, task <- s6, fetches <- s7, said <- s8

\* Two callers of one name, one of which may follow the other.
Hyper == INSTANCE HyperResolver WITH
    Tasks <- {"t", "u"}, Asked <- {<<"d", "A">>}, Cname <- [d |-> "none"],
    Configurations <- {[ups |-> <<1>>, scores |-> <<>>]},
    RaceIds <- {"r"}, k <- 1, max_inflight <- 2, max_per_shard <- 1, DNS_MAX_CNAME_DEPTH <- 1,
    Mode <- "Yes", Rcodes <- {"SERVFAIL"}, Cancellable <- FALSE, MaxSets <- 0,
    cache <- s1, flights <- s2, permits <- s3, task <- s4, attempts <- s5, open <- s6, channel <- s7,
    upstreams <- s8, scores <- s9, setting <- s10, sets <- s11

Responders == INSTANCE MdnsResponder WITH
    Hosts <- {"a", "b"}, Interfaces <- {"i"}, Addresses <- [a |-> [i |-> {1}], b |-> [i |-> {2}]],
    MaxOrdinal <- 2, MaxChanges <- 1, MaxInFlight <- 1, Faulty <- TRUE,
    kernel <- s1, changes <- s2, running <- s3, name <- s4, state <- s5, net <- s6, lossy <- s7, trail <- s8

Question == INSTANCE MdnsQuery WITH
    Queries <- {"q"}, Interfaces <- {"i"}, Names <- {"n"}, Data <- {1}, Ttls <- {0, 2}, Grace <- 1,
    Timeout <- 2, Settle <- 1, MaxTime <- 4, MaxSaid <- 2,
    now <- s1, cache <- s2, said <- s3, query <- s4

Catalog == INSTANCE DnsSdCatalog WITH
    Files <- {"f"}, Directories <- 2, Services <- {"s"}, Bodies <- {"p"}, RELOAD_INTERVAL <- 1,
    RETIRED_RETENTION <- 1, MaxEdits <- 2, MaxCalls <- 1,
    files <- s1, edits <- s2, calls <- s3, catalog <- s4, until_reload <- s5, retired <- s6, loaded <- s7

\* One change of a link: see ConflictsDetected in Llmnr for a second one.
Local == INSTANCE Llmnr WITH
    Links <- {"i"}, Names <- {"a"}, Tasks <- {"t"}, Ids <- {"1"}, MaxChanges <- 1,
    MaxReceived <- 1, MaxQueued <- 1,
    links <- s1, writer <- s2, inflight <- s3, socket <- s4, listener <- s5, query <- s6, conflicts <- s7,
    changes <- s8, received <- s9

Init ==
    /\ world \in Worlds
    /\ \/ world = "table" /\ Table!Init /\ Blank(7)
       \/ world = "cache" /\ Cache!Init /\ Blank(8)
       \/ world = "hyper" /\ Hyper!Init /\ Blank(11)
       \/ world = "responders" /\ Responders!Init /\ Blank(8)
       \/ world = "question" /\ Question!Init /\ Blank(4)
       \/ world = "catalog" /\ Catalog!Init /\ Blank(7)
       \/ world = "llmnr" /\ Local!Init /\ Blank(9)
Next ==
    \/ world = "table" /\ Table!Next /\ Keep(7)
    \/ world = "cache" /\ Cache!Next /\ Keep(8)
    \/ world = "hyper" /\ Hyper!Next /\ Keep(11)
    \/ world = "responders" /\ Responders!Next /\ Keep(8)
    \/ world = "question" /\ Question!Next /\ Keep(4)
    \/ world = "catalog" /\ Catalog!Next /\ Keep(7)
    \/ world = "llmnr" /\ Local!Next /\ Keep(9)

Fairness ==
    /\ WF_all(world = "table" /\ Table!ReaderStep /\ Keep(7))
    /\ \A t \in {"t", "u"} : /\ WF_all(world = "cache" /\ Cache!TaskStep(t) /\ Keep(8))
                             /\ WF_all(world = "hyper" /\ Hyper!TaskStep(t) /\ Keep(11))
                             /\ SF_all(world = "hyper" /\ Hyper!Acquire(t) /\ Keep(11))
                             /\ SF_all(world = "hyper" /\ Hyper!StartRace(t) /\ Keep(11))
    /\ WF_all(world = "hyper" /\ (\E a \in s5 : Hyper!AttemptStep(a)) /\ Keep(11))
    /\ \A h \in {"a", "b"} :
          /\ WF_all(world = "responders" /\ Responders!synchronize_interfaces(h, {"i"}) /\ Keep(8))
          /\ WF_all(world = "responders" /\ (\E sent \in BOOLEAN : Responders!drive_probe(h, "i", sent)) /\ Keep(8))
    /\ WF_all(world = "question" /\ Question!Tick /\ Keep(4))
    /\ WF_all(world = "question" /\ Question!LoopStep("q") /\ Keep(4))
    /\ WF_all(world = "catalog" /\ Catalog!Tick /\ Keep(7))
    /\ WF_all(world = "catalog" /\ Catalog!refresh /\ Keep(7))
    /\ WF_all(world = "catalog" /\ Catalog!force_reload /\ Keep(7))
    /\ WF_all(world = "llmnr" /\ Local!ListenerStep /\ Keep(9))
    /\ WF_all(world = "llmnr" /\ Local!set_link /\ Keep(9))
    /\ WF_all(world = "llmnr" /\ (Local!SendQuery("t") \/ Local!Deadline("t") \/ Local!EndQuery("t")) /\ Keep(9))
Spec == Init /\ [][Next]_all /\ Fairness

-----------------------------------------------------------------------------
\* What a caller waits for comes to an end.  A lookup in the shared memory ends,
\* whatever the publisher does, its death in the middle of a publication
\* included (SharedTable: the retry loops).  A follower hears of its flight
\* (GlobalCache: publish and its error path).  Calls of the racing resolver
\* return: a follower keeps its permit while it waits, and still no leader waits
\* for one (HyperResolver: resolve).  A multicast query ends, if its
\* deadline comes before the clock stops and a read finds its socket empty from
\* time to time (MdnsQuery: query_raw).  An LLMNR query that was sent ends, and so does each pass of
\* run_udp, as long as no link changes once links are set up (Llmnr).  Callers
\* are interchangeable, so one of two speaks for both.
CallsEnd ==
    /\ (world = "table" /\ s6.at # "idle") ~> (world = "table" => s6.at = "idle")
    /\ (world = "cache" /\ s6["t"].at = "waiting") ~> (world = "cache" => s6["t"].at # "waiting")
    /\ (world = "hyper" /\ s4["t"].at = "acquire") ~> (world = "hyper" => s4["t"].at = "idle")
    /\ \/ <>[](world = "question" /\ s4["q"].phase = "draining" /\ s4["q"].left # {})
       \/ (world = "question" /\ s4["q"].phase \in {"waiting", "draining"} /\ s4["q"].deadline <= 4)
             ~> (world = "question" => s4["q"].phase \notin {"waiting", "draining"})
    /\ (world = "llmnr" /\ s6["t"].pc = "recv") ~> (world = "llmnr" => s6["t"].pc = "done")
    /\ (world = "llmnr" /\ s5.pc # "recv_from") ~> (world = "llmnr" => s5.pc = "recv_from")

\* What changes takes effect.  An interface that has an address ends up
\* established, in spite of losses and conflicts, while the responder runs and
\* names are left to try (MdnsResponder: poll, drive_probe).  Once the files stop
\* changing and can be loaded, the catalogue has them (DnsSdCatalog: refresh,
\* force_reload).
ChangesTakeEffect ==
    /\ \A h \in {"a", "b"} :
          (world = "responders" /\ s1[h]["i"] # Responders!NoAddress) ~>
              (world = "responders" =>
                  \/ s5[h]["i"].phase = "established" \/ s1[h]["i"] = Responders!NoAddress
                  \/ ~s3[h] \/ s4[h] = 2)
    /\ (world = "catalog" /\ s2 = 2 /\ Catalog!Loadable(s1)) ~>
          (world = "catalog" => s4.configuration = Catalog!selected_files(s1))
=============================================================================
