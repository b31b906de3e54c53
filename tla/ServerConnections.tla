------------------------- MODULE ServerConnections -------------------------
(***************************************************************************)
(* The connections the resolver keeps to one DNS server: how a socket is   *)
(* opened and tied to an interface (ffi/native.c), how a TLS session is    *)
(* put on it (ffi/tls.c, tls.rs), and the three pools of                   *)
(* resolver_methods_04.rs that idle sockets wait in.  Several threads      *)
(* exchange queries with the server while the server's specification (its  *)
(* interface and its TLS name) is changed under them.                      *)
(*                                                                         *)
(* A query is a transaction id and a question; the server's answer carries *)
(* both.  Ids are taken modulo IdMod (next_id is a wrapping u16), so two   *)
(* queries may have the same id.  Every system call may fail, a stream may *)
(* be closed by the server, and datagrams may be late, lost or repeated.   *)
(***************************************************************************)
EXTENDS Integers, Sequences, FiniteSets, FiniteSetsExt, SequencesExt

CONSTANTS
    Threads,          \* threads that exchange queries
    Kinds,            \* a subset of {"udp", "tcp", "tls", "strict"}
    Questions,        \* questions that are asked
    Names,            \* TLS names the specification may give ("" for none)
    Interfaces,       \* interface numbers it may give, 0 for none
    PoolMax,          \* UDP_POOL_PER_SERVER_MAX and its TCP and TLS twins
    MaxDescriptors,   \* bound: descriptors that may be open at once
    IdMod,            \* bound: the number of transaction ids
    MaxQueries,       \* bound: queries that are sent
    MaxInbox,         \* bound: datagrams that wait on a socket
    MaxChanges        \* bound: changes of the specification

VARIABLES
    spec,      \* the DnsServerSpec of the server: [interface, server_name]
    fds,       \* descriptor -> its socket, or Closed
    pools,     \* udp_sockets, tcp_streams, tls_streams: kind -> sequence of descriptors
    thread,    \* the exchange each thread is in
    sent,      \* queries sent so far (next_id)
    changes    \* changes of the specification so far

vars == <<spec, fds, pools, thread, sent, changes>>

Descriptors == 1..MaxDescriptors
Closed == [open |-> FALSE]
Streams == {"tcp", "tls", "strict"}
Tls == {"tls", "strict"}

\* A query in flight, and the answer to it.
Query(id, q) == [id |-> id, question |-> q]
NoQuery == [id |-> 0, question |-> "none"]
Queries == [id : 0..IdMod - 1, question : Questions]

\* A fresh socket of socket(2), as udp_connect and tcp_connect make it.
Fresh(kind) ==
    [open |-> TRUE, kind |-> kind, bound |-> 0, nonblocking |-> kind \in Streams,
     verified |-> "no", asked |-> {}, inbox |-> <<>>]

Idle == [pc |-> "idle", kind |-> "udp", query |-> NoQuery, fd |-> 0, reused |-> FALSE,
         name |-> "", ifindex |-> 0, result |-> NoQuery]

Init ==
    /\ spec \in [interface : Interfaces, server_name : Names]
    /\ fds = [d \in Descriptors |-> Closed]
    /\ pools = [k \in Kinds |-> <<>>]
    /\ thread = [t \in Threads |-> Idle]
    /\ sent = 0
    /\ changes = 0

\* The state of a thread whose exchange is about to return an error.
Failed(t) == [Idle EXCEPT !.pc = "failed", !.kind = thread[t].kind]

(***************************************************************************)
(* Taking a connection.                                                    *)
(***************************************************************************)

\* The pool a thread's connection is taken from and returned to (TlsPoolKey keeps
\* strict and opportunistic streams apart; the path MTU is asked of a UDP socket).
PoolKey(kind) == IF kind = "mtu" THEN "udp" ELSE kind

\* new_tls_stream, new_tcp_stream and the tail of take_udp_socket: where connecting
\* begins (the TLS name is read before the interface).
NewStream(kind) == IF kind \in Tls THEN "name" ELSE "interface"

\* take_udp_socket, take_tcp_stream, take_tls_stream: under the pool's lock the
\* youngest idle socket is popped; without one a new one is connected.
Take(t, kind, query) ==
    LET pool == pools[PoolKey(kind)]
        begun == [Idle EXCEPT !.kind = kind, !.query = query]
    IN  IF pool # <<>>
        THEN /\ pools' = [pools EXCEPT ![PoolKey(kind)] = Front(pool)]
             /\ thread' = [thread EXCEPT ![t] =
                    [begun EXCEPT !.pc = "ready", !.fd = Last(pool), !.reused = TRUE]]
        ELSE /\ UNCHANGED pools
             /\ thread' = [thread EXCEPT ![t] = [begun EXCEPT !.pc = NewStream(kind)]]

\* A thread begins an operation on the server; transaction_id numbers its query.
Begin(t, kind, query) ==
    /\ thread[t].pc = "idle"
    /\ sent < MaxQueries
    /\ sent' = sent + 1
    /\ Take(t, kind, query)
    /\ UNCHANGED <<spec, fds, changes>>

exchange_udp(t, q) == "udp" \in Kinds /\ Begin(t, "udp", Query(sent % IdMod, q))

exchange_tcp(t, q) == "tcp" \in Kinds /\ Begin(t, "tcp", Query(sent % IdMod, q))

exchange_tls(t, q) == \E kind \in Kinds \cap Tls : Begin(t, kind, Query(sent % IdMod, q))

\* udp_path_mtu takes a UDP socket, asks the kernel, and puts it back.
udp_path_mtu(t) == "udp" \in Kinds /\ Begin(t, "mtu", NoQuery)

\* server_tls_endpoint: the name the certificate will be checked against.
ReadName(t) ==
    /\ thread[t].pc = "name"
    /\ thread' = [thread EXCEPT ![t].pc = "interface", ![t].name = spec.server_name]
    /\ UNCHANGED <<spec, fds, pools, sent, changes>>

\* server_transport_ifindex: the interface of the specification.
ReadInterface(t) ==
    /\ thread[t].pc = "interface"
    /\ thread' = [thread EXCEPT ![t].pc = "open", ![t].ifindex = spec.interface]
    /\ UNCHANGED <<spec, fds, pools, sent, changes>>

(***************************************************************************)
(* Connecting: resolved_udp_connect, resolved_tcp_connect and              *)
(* resolved_tls_connect, a step for each stage that a failure can leave.   *)
(***************************************************************************)

\* socket(2) gives the lowest free descriptor.
Open(t) ==
    LET free == {d \in Descriptors : ~ fds[d].open}
    IN  /\ thread[t].pc = "open"
        /\ free # {}
        /\ fds' = [fds EXCEPT ![Min(free)] = Fresh(PoolKey(thread[t].kind))]
        /\ thread' = [thread EXCEPT ![t].pc = "prepare", ![t].fd = Min(free)]
        /\ UNCHANGED <<spec, pools, sent, changes>>

\* sockaddr_is_local asks for the host's own addresses: it may hold or not.
sockaddr_is_local == BOOLEAN

\* bind_to_ifindex ties a socket to an interface, or with 0 unties it.
bind_to_ifindex(d, ifindex) == [fds[d] EXCEPT !.bound = ifindex]

\* prepare_link_connect: the socket is bound to the interface for the connect, but
\* not when there is none or when the server's address is local.
prepare_link_connect(t) ==
    /\ thread[t].pc = "prepare"
    /\ \E local \in sockaddr_is_local :
         fds' = IF local \/ thread[t].ifindex = 0 THEN fds
                ELSE [fds EXCEPT ![thread[t].fd] = bind_to_ifindex(thread[t].fd, thread[t].ifindex)]
    /\ thread' = [thread EXCEPT ![t].pc = "connect"]
    /\ UNCHANGED <<spec, pools, sent, changes>>

\* connect(2) and, for a stream, poll for at most the timeout; then
\* finish_link_connect undoes the binding, and a stream is made blocking again.
Finish(t) ==
    /\ thread[t].pc = "connect"
    /\ fds' = [fds EXCEPT ![thread[t].fd] =
                   [bind_to_ifindex(thread[t].fd, 0) EXCEPT !.nonblocking = FALSE]]
    /\ thread' = [thread EXCEPT ![t].ifindex = 0,
                                ![t].pc = IF thread[t].kind \in Tls THEN "handshake" ELSE "ready"]
    /\ UNCHANGED <<spec, pools, sent, changes>>

\* resolved_tls_connect on the connected socket: a strict session is checked
\* against the server's name, or its address when it has none; an opportunistic
\* one is not checked at all.
Handshake(t) ==
    /\ thread[t].pc = "handshake"
    /\ fds' = [fds EXCEPT ![thread[t].fd].verified =
                   IF thread[t].kind # "strict" THEN "no"
                   ELSE IF thread[t].name = "" THEN "address" ELSE thread[t].name]
    /\ thread' = [thread EXCEPT ![t].pc = "ready", ![t].name = ""]
    /\ UNCHANGED <<spec, pools, sent, changes>>

\* A stage of a connect fails: the "fail:" label closes what is open, and the
\* exchange returns the error.
FailConnect(t) ==
    /\ thread[t].pc \in {"interface", "open", "prepare", "connect", "handshake"}
    /\ fds' = IF thread[t].fd # 0 THEN [fds EXCEPT ![thread[t].fd] = Closed] ELSE fds
    /\ thread' = [thread EXCEPT ![t] = Failed(t)]
    /\ UNCHANGED <<spec, pools, sent, changes>>

(***************************************************************************)
(* The exchange on a connection that is ready.                             *)
(***************************************************************************)

\* recycle_udp_socket, recycle_tcp_stream, recycle_tls_stream: the pool takes the
\* socket while it has room; otherwise the socket is dropped, which closes it.
Recycle(kind, d) ==
    LET pool == pools[PoolKey(kind)]
    IN  pools' = IF Len(pool) < PoolMax
                 THEN [pools EXCEPT ![PoolKey(kind)] = Append(pool, d)] ELSE pools

\* The socket after it is handed back: closed when the pool had no room for it.
Recycled(kind, d, socket) ==
    IF Len(pools[PoolKey(kind)]) < PoolMax THEN socket ELSE Closed

\* The query is written to the socket.
Send(t) ==
    LET d == thread[t].fd
    IN  /\ thread[t].pc = "ready"
        /\ thread[t].kind # "mtu"
        /\ fds' = [fds EXCEPT ![d].asked = @ \cup {thread[t].query}]
        /\ thread' = [thread EXCEPT ![t].pc = "wait"]
        /\ UNCHANGED <<spec, pools, sent, changes>>

\* response_matches: the answer carries the query's id and its question.
MutantResponseMatches(query, response) == query.id = response.id

response_matches(query, response) ==
    /\ query.id = response.id
    /\ query.question = response.question

\* The receive loop of exchange_udp: a datagram that does not match is skipped; one
\* that does is the result, and the socket goes back to its pool.
ReceiveDatagram(t) ==
    LET d == thread[t].fd
        response == Head(fds[d].inbox)
        rest == [fds[d] EXCEPT !.inbox = Tail(@)]
    IN  /\ thread[t].pc = "wait"
        /\ thread[t].kind = "udp"
        /\ fds[d].inbox # <<>>
        /\ IF response_matches(thread[t].query, response)
           THEN /\ Recycle("udp", d)
                /\ fds' = [fds EXCEPT ![d] = Recycled("udp", d, rest)]
                /\ thread' = [thread EXCEPT ![t].pc = "done", ![t].fd = 0, ![t].result = response]
           ELSE /\ fds' = [fds EXCEPT ![d] = rest]
                /\ UNCHANGED <<pools, thread>>
        /\ UNCHANGED <<spec, sent, changes>>

\* One frame is read, and a stream is recycled only when that frame is a whole
\* answer to this query.
ReceiveFrame(t, kind) ==
    LET d == thread[t].fd
        response == Head(fds[d].inbox)
    IN  /\ thread[t].pc = "wait"
        /\ thread[t].kind = kind
        /\ fds[d].inbox # <<>>
        /\ response_matches(thread[t].query, response)
        /\ Recycle(kind, d)
        /\ fds' = [fds EXCEPT ![d] = Recycled(kind, d, [fds[d] EXCEPT !.inbox = Tail(@)])]
        /\ thread' = [thread EXCEPT ![t].pc = "done", ![t].fd = 0, ![t].result = response]
        /\ UNCHANGED <<spec, sent, changes>>

exchange_tcp_stream(t) == ReceiveFrame(t, "tcp")

exchange_tls_stream(t) == \E kind \in Tls : ReceiveFrame(t, kind)

\* udp_path_mtu puts the socket back whether or not the kernel told it the MTU.
ReadMtu(t) ==
    LET d == thread[t].fd
    IN  /\ thread[t].pc = "ready"
        /\ thread[t].kind = "mtu"
        /\ Recycle("udp", d)
        /\ fds' = [fds EXCEPT ![d] = Recycled("udp", d, @)]
        /\ thread' = [thread EXCEPT ![t].pc = "done", ![t].fd = 0]
        /\ UNCHANGED <<spec, sent, changes>>

\* The exchange fails (a timeout, a short write, a frame that does not match or is
\* truncated, the stream closed): the socket is dropped.  exchange_tcp and
\* exchange_tls try once more on a fresh stream when the failed one came from the
\* pool and time is left.
FailExchange(t) ==
    LET kind == thread[t].kind
        again == [thread[t] EXCEPT !.pc = NewStream(kind),
                                   !.fd = 0, !.reused = FALSE]
    IN  /\ thread[t].pc \in {"ready", "wait"}
        /\ fds' = [fds EXCEPT ![thread[t].fd] = Closed]
        /\ \/ thread' = [thread EXCEPT ![t] = Failed(t)]
           \/ /\ kind \in Streams
              /\ thread[t].reused
              /\ thread' = [thread EXCEPT ![t] = again]
        /\ UNCHANGED <<spec, pools, sent, changes>>

\* The exchange returns its error; after a TLS one the caller's record_tls_failure
\* also throws away the idle streams of the same mode.
Return(t) ==
    LET kind == thread[t].kind
        dropped == IF thread[t].pc = "failed" /\ kind \in Tls THEN Range(pools[kind]) ELSE {}
    IN  /\ thread[t].pc \in {"failed", "done"}
        /\ fds' = [d \in Descriptors |-> IF d \in dropped THEN Closed ELSE fds[d]]
        /\ pools' = IF dropped # {} THEN [pools EXCEPT ![kind] = <<>>] ELSE pools
        /\ thread' = [thread EXCEPT ![t] = Idle]
        /\ UNCHANGED <<spec, sent, changes>>

(***************************************************************************)
(* The server, and changes of the specification.                           *)
(***************************************************************************)

\* The server answers a query it was sent: once on a stream, any number of times
\* and in any order on a UDP socket.  A query it never answers is a lost one.
Answer(d) ==
    /\ fds[d].open
    /\ Len(fds[d].inbox) < MaxInbox
    /\ \E q \in fds[d].asked :
         fds' = [fds EXCEPT ![d].inbox = Append(@, q),
                            ![d].asked = IF fds[d].kind \in Streams THEN @ \ {q} ELSE @]
    /\ UNCHANGED <<spec, pools, thread, sent, changes>>

\* SetDNSEx or networkd gives the server another interface or another name.
ChangeSpec ==
    /\ changes < MaxChanges
    /\ changes' = changes + 1
    /\ spec' \in [interface : Interfaces, server_name : Names] \ {spec}
    /\ UNCHANGED <<fds, pools, thread, sent>>

Step(t) ==
    \/ ReadName(t) \/ ReadInterface(t) \/ Open(t) \/ prepare_link_connect(t)
    \/ Finish(t) \/ Handshake(t) \/ FailConnect(t) \/ Send(t)
    \/ ReceiveDatagram(t) \/ exchange_tcp_stream(t)
    \/ exchange_tls_stream(t) \/ ReadMtu(t) \/ FailExchange(t) \/ Return(t)

Next ==
    \/ \E t \in Threads, q \in Questions : exchange_udp(t, q) \/ exchange_tcp(t, q) \/ exchange_tls(t, q)
    \/ \E t \in Threads : udp_path_mtu(t) \/ Step(t)
    \/ \E d \in Descriptors : Answer(d)
    \/ ChangeSpec

\* Every call has a timeout, so a thread that is in an exchange keeps moving: a
\* datagram that does not match is not enough to keep exchange_udp in its loop.
Fairness == \A t \in Threads : WF_vars(Step(t)) /\ WF_vars(FailExchange(t))

Spec == Init /\ [][Next]_vars /\ Fairness

(***************************************************************************)
(* Properties.                                                             *)
(***************************************************************************)

TypeOK ==
    /\ spec \in [interface : Interfaces, server_name : Names]
    /\ \A d \in Descriptors : fds[d].open =>
         /\ fds[d].kind \in Kinds
         /\ fds[d].bound \in Interfaces
         /\ fds[d].verified \in Names \cup {"no", "address"}
         /\ fds[d].asked \subseteq Queries
         /\ Range(fds[d].inbox) \subseteq Queries
    /\ \A k \in Kinds : Range(pools[k]) \subseteq Descriptors
    /\ \A t \in Threads :
         /\ thread[t].fd \in Descriptors \cup {0}
         /\ thread[t].result \in Queries \cup {NoQuery}
    /\ sent \in 0..MaxQueries
    /\ changes \in 0..MaxChanges

\* Every open descriptor has one owner: it waits once in one pool or is held by
\* one thread, whatever failed on the way, and no pool holds more than its limit.
\* The daemon runs for months: a connect that leaks its descriptor on one error
\* path, or a socket that is both pooled and in use, ends it.
DescriptorsAccounted ==
    /\ \A d \in Descriptors : fds[d].open =>
         Cardinality({t \in Threads : thread[t].fd = d})
           + Cardinality({ki \in Kinds \X (1..MaxDescriptors) :
                             /\ ki[2] \in DOMAIN pools[ki[1]]
                             /\ pools[ki[1]][ki[2]] = d}) = 1
    /\ \A k \in Kinds : /\ Len(pools[k]) <= PoolMax
                        /\ \A i \in DOMAIN pools[k] : fds[pools[k][i]].open

\* A stream that waits in a pool owes nobody an answer and holds none: the next
\* exchange on it (exchange_tcp_stream reads exactly one frame) cannot read the
\* answer to a query that gave up.
PooledStreamsIdle ==
    \A k \in Kinds \cap Streams : \A i \in DOMAIN pools[k] :
        /\ fds[pools[k][i]].asked = {}
        /\ fds[pools[k][i]].inbox = <<>>

\* What an exchange returns answers the question that was asked, although a pooled
\* UDP socket still receives late and repeated answers to earlier queries and ids
\* wrap.
AnswersMatch ==
    \A t \in Threads :
        thread[t].result # NoQuery => thread[t].result.question = thread[t].query.question

\* A socket that carries a query or waits in a pool is blocking and no longer
\* bound to the interface it was connected through, and a strict exchange only
\* ever uses a session whose certificate was checked, whatever the specification
\* and the opportunistic exchanges did meanwhile.
ReadySocketsConfigured ==
    /\ \A t \in Threads : thread[t].pc \in {"ready", "wait"} =>
         LET socket == fds[thread[t].fd]
         IN  /\ socket.bound = 0
             /\ ~ socket.nonblocking
             /\ socket.kind = PoolKey(thread[t].kind)
             /\ thread[t].kind = "strict" => socket.verified # "no"
    /\ \A k \in Kinds : \A i \in DOMAIN pools[k] :
         LET socket == fds[pools[k][i]]
         IN  socket.bound = 0 /\ socket.kind = k /\ (k = "strict" => socket.verified # "no")

\* Every exchange ends: the timeouts bound the connect, the handshake and the
\* wait, and a failed stream is retried once only.
ExchangesEnd == \A t \in Threads : thread[t].pc # "idle" ~> thread[t].pc = "idle"
=============================================================================
