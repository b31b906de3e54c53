----------------------------- MODULE StubDaemon -----------------------------
(***************************************************************************)
(* The daemon process: the DNS stub of daemon.rs (UDP listeners, the       *)
(* round-robin dispatcher, the workers with their bounded queues, the TCP  *)
(* listener and its detached client threads), its main loop with the      *)
(* signal flags of ffi/native.c, and the start and the end of the process  *)
(* in run_resolver of main.rs.                                             *)
(*                                                                         *)
(* A datagram is a model value; what the resolver answers is               *)
(* ResolverQuery's business, so query_or_servfail is one step that answers *)
(* or rejects.  The 250 ms, 200 ms and 50 ms timeouts of the threads are   *)
(* what makes them look at the stop flag again: fairness of their steps.   *)
(***************************************************************************)
EXTENDS Integers, FiniteSets, Sequences

CONSTANTS
    Listeners,        \* the addresses of the configured (primary) UDP endpoints
    ExtraListeners,   \* those of DNSStubListenerExtra=
    Workers,          \* config.workers: the workers are 0 .. Workers - 1
    Jobs,             \* the datagrams that clients send
    Connections,      \* the TCP connections that clients open
    Servers,          \* the threads run_resolver joins: D-Bus, Varlink, networkd, netlink
    UDP_QUEUE_PER_WORKER,
    MaxTcpQueries,    \* queries a TCP connection may carry (128 in the code)
    MaxSignals        \* bound: SIGHUPs sent

Endpoints == Listeners \cup ExtraListeners
WorkerIds == 0 .. Workers - 1
None == "none"

VARIABLES
    main,       \* where the main thread is
    bound,      \* the endpoints bind_endpoints has bound
    stop,       \* LOCAL_STOP or the C stop_requested flag
    reload,     \* the C reload_requested flag
    signals,    \* SIGHUPs sent so far
    unserved,   \* a SIGHUP whose reload has not begun (history)
    next,       \* UdpDispatcher.next, modulo the number of senders
    listener,   \* per endpoint: what its thread is doing
    queue,      \* per worker: its channel
    worker,     \* per worker: "idle", "ended" or the job it resolves
    fate,       \* per datagram: where it is
    client,     \* per TCP connection: its detached thread
    server      \* per server thread: "running", "blocked", "failed" or "ended"

udp == <<next, listener, queue, worker, fate>>
loop == <<main, bound, reload, signals, unserved>>
vars == <<loop, stop, udp, client, server>>

Receiving == [at |-> "recv"]
Ended == [at |-> "ended"]
Dispatching(j, start, offset, connected) ==
    [at |-> "dispatch", job |-> j, start |-> start, offset |-> offset, connected |-> connected]
Dispatches == [at : {"dispatch"}, job : Jobs, start : WorkerIds, offset : WorkerIds, connected : BOOLEAN]

TypeOK ==
    /\ main \in {"bind", "check", "take", "clear", "taken", "sleep", "stopping", "failed", "joining", "exited"}
    /\ bound \subseteq Endpoints
    /\ stop \in BOOLEAN /\ reload \in BOOLEAN /\ unserved \in BOOLEAN
    /\ signals \in 0 .. MaxSignals
    /\ next \in WorkerIds
    /\ listener \in [Endpoints -> {Receiving, Ended} \cup Dispatches]
    /\ \A w \in WorkerIds : queue[w] \in Seq(Jobs) /\ Len(queue[w]) <= UDP_QUEUE_PER_WORKER
    /\ worker \in [WorkerIds -> Jobs \cup {"idle", "ended"}]
    /\ fate \in [Jobs -> {"unsent", "socket", "held", "answered", "rejected", "dropped"}]
    /\ client \in [Connections -> [at : {"unopened", "backlog", "open", "closed"}, queries : 0 .. MaxTcpQueries]]
    /\ server \in [Servers -> {"running", "blocked", "failed", "ended"}]

Init ==
    /\ main = "bind"
    /\ bound = {}
    /\ stop = FALSE /\ reload = FALSE /\ unserved = FALSE
    /\ signals = 0
    /\ next = 0
    /\ listener = [e \in Endpoints |-> Ended]
    /\ queue = [w \in WorkerIds |-> <<>>]
    /\ worker = [w \in WorkerIds |-> "ended"]
    /\ fate = [j \in Jobs |-> "unsent"]
    /\ client = [c \in Connections |-> [at |-> "unopened", queries |-> 0]]
    /\ server = [s \in Servers |-> "running"]

(***************************************************************************)
(* The main thread: bind, spawn the threads, the loop, the end.            *)
(***************************************************************************)

\* bind_endpoints: an address in use is skipped for the configured listeners
\* and is an error for the extra ones; any other failure is an error.
bind_endpoints(inUse, broken) ==
    IF broken # {} \/ inUse \cap ExtraListeners # {} THEN {} ELSE Endpoints \ inUse

run_stub(inUse, broken) ==
    /\ main = "bind"
    /\ LET failed == broken # {} \/ inUse \cap ExtraListeners # {} IN
       /\ bound' = bind_endpoints(inUse, broken)
       /\ listener' = [e \in Endpoints |-> IF e \in bound' THEN Receiving ELSE Ended]
       /\ worker' = [w \in WorkerIds |-> IF failed THEN "ended" ELSE "idle"]
       /\ main' = IF failed THEN "failed" ELSE "check"
    /\ UNCHANGED <<stop, reload, signals, unserved, next, queue, fate, client, server>>

CheckStop ==
    /\ main = "check"
    /\ main' = IF stop THEN "stopping" ELSE "take"
    /\ UNCHANGED <<bound, stop, reload, signals, unserved, udp, client, server>>

\* resolved_take_reload reads the flag ...
TakeReload ==
    /\ main = "take"
    /\ main' = IF reload THEN "taken" ELSE "clear"
    /\ UNCHANGED <<bound, stop, reload, signals, unserved, udp, client, server>>

\* ... and then clears it, in another memory access, and acts on what it read:
\* RELOADING=1, reload_hosts (an error is logged), READY=1.
ClearReload ==
    /\ main \in {"clear", "taken"}
    /\ reload' = FALSE
    /\ unserved' = IF main = "taken" THEN FALSE ELSE unserved
    /\ main' = "sleep"
    /\ UNCHANGED <<bound, stop, signals, udp, client, server>>

\* ping_if_due and the sleep of at most 200 ms.
Sleep ==
    /\ main = "sleep"
    /\ main' = "check"
    /\ UNCHANGED <<bound, stop, reload, signals, unserved, udp, client, server>>

ThreadsJoined ==
    /\ \A e \in Endpoints : listener[e] = Ended
    /\ \A w \in WorkerIds : worker[w] = "ended"

\* join_all, or the error of bind_endpoints: run_resolver requests the stop
\* (its own, whatever made run_stub return).
LeaveStub ==
    /\ main \in {"stopping", "failed"}
    /\ ThreadsJoined
    /\ stop' = TRUE
    /\ main' = "joining"
    /\ UNCHANGED <<bound, reload, signals, unserved, udp, client, server>>

\* run_resolver joins the Varlink, D-Bus, networkd and netlink threads; the
\* process ends, and with it the TCP client threads nobody joins.
JoinServers ==
    /\ main = "joining"
    /\ \A s \in Servers : server[s] \in {"failed", "ended"}
    /\ main' = "exited"
    /\ client' = [c \in Connections |-> [client[c] EXCEPT !.at = "closed"]]
    /\ UNCHANGED <<bound, stop, reload, signals, unserved, udp, server>>

Alive == main # "exited"

(***************************************************************************)
(* Signals and the server threads.                                         *)
(***************************************************************************)

\* handle_signal on SIGHUP: it may run between the read and the clear.
Hangup ==
    /\ Alive /\ main # "bind"
    /\ signals < MaxSignals
    /\ signals' = signals + 1
    /\ reload' = TRUE
    /\ unserved' = TRUE
    /\ UNCHANGED <<main, bound, stop, udp, client, server>>

\* handle_signal on SIGTERM or SIGINT.
Terminate ==
    /\ Alive
    /\ stop' = TRUE
    /\ UNCHANGED <<loop, udp, client, server>>

\* spawn_dbus, spawn_varlink and the two monitors: a server that fails asks the
\* whole process to stop.
ServerFails(s) ==
    /\ Alive /\ server[s] = "running"
    /\ server' = [server EXCEPT ![s] = "failed"]
    /\ stop' = TRUE
    /\ UNCHANGED <<loop, udp, client>>

\* The networkd thread and a query wait for each other's lock (SyncsEnd of
\* LinkRouting is refuted), and with them every thread that needs one of the two.
ServerBlocks(s) ==
    /\ Alive /\ server[s] = "running"
    /\ server' = [server EXCEPT ![s] = "blocked"]
    /\ UNCHANGED <<loop, stop, udp, client>>

\* A server polls stop_requested and returns.
ServerEnds(s) ==
    /\ server[s] = "running" /\ stop
    /\ server' = [server EXCEPT ![s] = "ended"]
    /\ UNCHANGED <<loop, stop, udp, client>>

(***************************************************************************)
(* UDP: listeners, dispatcher, workers.                                    *)
(***************************************************************************)

Send(j) ==
    /\ Alive /\ bound # {} /\ fate[j] = "unsent"
    /\ fate' = [fate EXCEPT ![j] = "socket"]
    /\ UNCHANGED <<loop, stop, next, listener, queue, worker, client, server>>

\* recv_from and the beginning of dispatch: next.fetch_add.
Receive(e, j) ==
    /\ listener[e] = Receiving /\ fate[j] = "socket"
    /\ listener' = [listener EXCEPT ![e] = Dispatching(j, next, 0, FALSE)]
    /\ next' = (next + 1) % Workers
    /\ fate' = [fate EXCEPT ![j] = "held"]
    /\ UNCHANGED <<loop, stop, queue, worker, client, server>>

\* The listener after its dispatch: it looks at the stop flag when it goes on.
AfterDispatch(goesOn) == IF goesOn /\ ~stop THEN Receiving ELSE Ended

\* What a dispatch that found no room returns: whether some worker was there.
Undelivered(connected) == connected

\* Mutant: a delivered job is offered to the next worker too (no return).
MutantTrySend(e) ==
    /\ listener[e].at = "dispatch"
    /\ LET d == listener[e]
           w == (d.start + d.offset) % Workers
           open == worker[w] # "ended" /\ Len(queue[w]) < UDP_QUEUE_PER_WORKER
           last == d.offset + 1 = Workers
       IN  /\ queue' = IF open THEN [queue EXCEPT ![w] = Append(@, d.job)] ELSE queue
           /\ listener' = [listener EXCEPT ![e] = IF last THEN AfterDispatch(TRUE)
                               ELSE Dispatching(d.job, d.start, d.offset + 1, TRUE)]
           /\ fate' = fate
    /\ UNCHANGED <<loop, stop, next, worker, client, server>>

\* One try_send of dispatch.  A full queue hands the job back and counts as
\* connected; a worker that has ended hands it back too.
try_send(e) ==
    /\ listener[e].at = "dispatch"
    /\ LET d == listener[e]
           w == (d.start + d.offset) % Workers
           full == worker[w] # "ended" /\ Len(queue[w]) >= UDP_QUEUE_PER_WORKER
           gone == worker[w] = "ended"
           connected == d.connected \/ full
           last == d.offset + 1 = Workers
       IN  \/ /\ ~full /\ ~gone
              /\ queue' = [queue EXCEPT ![w] = Append(@, d.job)]
              /\ listener' = [listener EXCEPT ![e] = AfterDispatch(TRUE)]
              /\ fate' = fate
           \/ /\ full \/ gone
              /\ ~last
              /\ listener' = [listener EXCEPT ![e] = Dispatching(d.job, d.start, d.offset + 1, connected)]
              /\ UNCHANGED <<queue, fate>>
           \/ /\ full \/ gone
              /\ last
              /\ listener' = [listener EXCEPT ![e] = AfterDispatch(Undelivered(connected))]
              /\ fate' = [fate EXCEPT ![d.job] = "dropped"]
              /\ queue' = queue
    /\ UNCHANGED <<loop, stop, next, worker, client, server>>

\* Mutant: the socket has no read timeout, so an idle listener never looks.
MutantListenerStops(e) == FALSE

\* The 250 ms read timeout, an error of the socket: the flag is read again.
ListenerStops(e) ==
    /\ listener[e] = Receiving /\ stop
    /\ listener' = [listener EXCEPT ![e] = Ended]
    /\ UNCHANGED <<loop, stop, next, queue, worker, fate, client, server>>

\* The end of a worker drops its receiver: what is still queued is lost.
WorkerEnds(w) ==
    /\ worker' = [worker EXCEPT ![w] = "ended"]
    /\ fate' = [j \in Jobs |-> IF \E i \in DOMAIN queue[w] : queue[w][i] = j THEN "dropped" ELSE fate[j]]
    /\ queue' = [queue EXCEPT ![w] = <<>>]

\* recv_timeout: a job, or Timeout and the flag, or Disconnected when every
\* listener and the main thread have dropped their senders.
WorkerReceives(w) ==
    /\ worker[w] = "idle"
    /\ \/ /\ queue[w] # <<>>
          /\ worker' = [worker EXCEPT ![w] = Head(queue[w])]
          /\ queue' = [queue EXCEPT ![w] = Tail(@)]
          /\ fate' = fate
       \/ stop /\ WorkerEnds(w)
       \/ /\ queue[w] = <<>> /\ main = "stopping"
          /\ \A e \in Endpoints : listener[e] = Ended
          /\ WorkerEnds(w)
    /\ UNCHANGED <<loop, stop, next, listener, client, server>>

\* query_or_servfail and send_to; a query it rejects gets no reply.
WorkerReplies(w, outcome) ==
    /\ worker[w] \in Jobs
    /\ fate' = [fate EXCEPT ![worker[w]] = outcome]
    /\ worker' = [worker EXCEPT ![w] = "idle"]
    /\ UNCHANGED <<loop, stop, next, listener, queue, client, server>>

(***************************************************************************)
(* TCP.                                                                    *)
(***************************************************************************)

Connect(c) ==
    /\ Alive /\ main # "bind" /\ client[c].at = "unopened"
    /\ client' = [client EXCEPT ![c].at = "backlog"]
    /\ UNCHANGED <<loop, stop, udp, server>>

\* tcp_listener: accept, and a detached thread for the connection.
Accept(c) ==
    /\ main \in {"check", "take", "clear", "taken", "sleep"} /\ ~stop
    /\ client[c].at = "backlog"
    /\ client' = [client EXCEPT ![c].at = "open"]
    /\ UNCHANGED <<loop, stop, udp, server>>

\* tcp_client: one query and its response, until the limit ...
ServeQuery(c) ==
    /\ Alive /\ client[c].at = "open" /\ client[c].queries < MaxTcpQueries
    /\ client' = [client EXCEPT ![c].queries = @ + 1]
    /\ UNCHANGED <<loop, stop, udp, server>>

\* ... the peer's end of file, an error, an empty frame or the timeout.
CloseClient(c) ==
    /\ Alive /\ client[c].at = "open"
    /\ client' = [client EXCEPT ![c].at = "closed"]
    /\ UNCHANGED <<loop, stop, udp, server>>

MainStep ==
    \/ \E inUse, broken \in SUBSET Endpoints : run_stub(inUse, broken)
    \/ CheckStop
    \/ TakeReload
    \/ ClearReload
    \/ Sleep
    \/ LeaveStub
    \/ JoinServers
ListenerStep(e) == (\E j \in Jobs : Receive(e, j)) \/ try_send(e) \/ ListenerStops(e)
WorkerStep(w) == WorkerReceives(w) \/ WorkerReplies(w, "answered") \/ WorkerReplies(w, "rejected")

Next ==
    \/ MainStep
    \/ Hangup
    \/ Terminate
    \/ \E s \in Servers : ServerFails(s) \/ ServerBlocks(s) \/ ServerEnds(s)
    \/ \E j \in Jobs : Send(j)
    \/ \E e \in Endpoints : ListenerStep(e)
    \/ \E w \in WorkerIds : WorkerStep(w)
    \/ \E c \in Connections : Connect(c) \/ Accept(c) \/ ServeQuery(c) \/ CloseClient(c)

\* Every thread keeps running: the waits of the listeners, of the workers for
\* jobs and of main have a timeout, and a query ends (QueriesEnd of
\* ResolverQuery) unless it is one of those that block a server.  Clients,
\* signals and failures owe nothing.
Fairness ==
    /\ WF_vars(MainStep)
    /\ \A e \in Endpoints : WF_vars(ListenerStep(e))
    /\ \A w \in WorkerIds : WF_vars(WorkerStep(w))
    /\ \A s \in Servers : WF_vars(ServerEnds(s))

Spec == Init /\ [][Next]_vars /\ Fairness

(***************************************************************************)
(* Properties.                                                             *)
(***************************************************************************)

\* Where a datagram that a listener has taken is: with a listener, in a queue,
\* with a worker.
WithListeners(j) ==
    {<<"listener", e>> : e \in {f \in Endpoints : listener[f].at = "dispatch" /\ listener[f].job = j}}
InQueueOf(w, j) == {<<"queue", w, i>> : i \in {n \in DOMAIN queue[w] : queue[w][n] = j}}
WithWorkers(j) == {<<"worker", w>> : w \in {v \in WorkerIds : worker[v] = j}}
InQueues(j) == UNION {InQueueOf(w, j) : w \in WorkerIds}
Holders(j) == WithListeners(j) \cup InQueues(j) \cup WithWorkers(j)

\* A datagram has one holder between its reception and its end and none
\* before and after, through dispatch, full queues, workers that end and
\* shutdown (UdpDispatcher::dispatch, udp_worker): it is never answered twice
\* and never lost without being counted as dropped.
EveryDatagramHeldOnce ==
    \A j \in Jobs : Cardinality(Holders(j)) = IF fate[j] = "held" THEN 1 ELSE 0

\* Full queues do not end a listener: as long as no stop was requested every
\* bound endpoint keeps its thread, because dispatch reports a full queue as
\* connected (daemon.rs 62, 69 and the break of udp_listener).
ListenersSurviveOverload ==
    ~stop => \A e \in bound : listener[e] # Ended

\* A request to stop, a signal or a server thread that failed, ends the whole
\* process: every listener, worker and server is joined (run_stub,
\* run_resolver), unless threads are blocked on each other's locks.
Blocked == \E s \in Servers : server[s] = "blocked"
StopEndsProcess == stop ~> (main = "exited" \/ Blocked)

\* A datagram in the socket is eventually answered, rejected or dropped, or the
\* process ends (udp_listener, udp_worker), unless threads are blocked.
DatagramsSettle ==
    \A j \in Jobs :
        fate[j] = "socket" ~> (fate[j] \in {"answered", "rejected", "dropped"} \/ main = "exited" \/ Blocked)

\* Every SIGHUP is followed by a reload of the hosts database, or the daemon
\* stops: "SIGHUP hosts-database reload" of docs/COMPATIBILITY.md.
HangupReloads == unserved ~> (~unserved \/ stop)

=============================================================================
