------------------------------ MODULE Varlink ------------------------------
(***************************************************************************)
(* The Varlink service of varlink.rs: the accept loop over the Resolve and *)
(* the Monitor socket, and one thread per connection that cuts the byte    *)
(* stream into messages, dispatches each and writes one reply.             *)
(*                                                                         *)
(* A message is a sequence of bytes of which only the number matters; its  *)
(* last byte is the NUL that ends it.  The client writes its requests one  *)
(* after the other without waiting for replies, and the kernel hands the   *)
(* stream to the server in pieces of any length.  Reads have a timeout and *)
(* writes have none: a client that stops reading its replies holds the     *)
(* thread in write_all for as long as it likes.                            *)
(***************************************************************************)
EXTENDS Naturals, Sequences, SequencesExt, FiniteSets

CONSTANTS
    Clients,          \* [endpoint, uid] of the connections made
    Requests,         \* [method, size] of the messages a client may send
    MAX_MESSAGE_SIZE,
    CHUNK,            \* the bytes of one read
    MaxRequests       \* bound: requests per connection

Controls == {"FlushCaches", "ResetServerFeatures", "ResetStatistics", "Monitor.ResetStatistics"}

VARIABLES
    running,  \* the accept loop runs
    conn,     \* per client: the connection
    effects   \* the control operations carried out: [client, method]

vars == <<running, conn, effects>>

\* sent: requests written; stream: bytes not yet read; pending: bytes read.
\* A byte names the request it belongs to and whether it is its last.
\* replies: those made; the last may be in write_all still, and writing says
\* what the client does meanwhile.
NoConnection == [state |-> "none", sent |-> <<>>, stream |-> <<>>, pending |-> <<>>, handling |-> 0,
                 replies |-> <<>>, writing |-> "no", eof |-> FALSE]

Init ==
    /\ running = TRUE
    /\ conn = [c \in Clients |-> NoConnection]
    /\ effects = {}

Bytes(i, size) == [b \in 1 .. size |-> [req |-> i, last |-> b = size]]

(***************************************************************************)
(* The client                                                              *)
(***************************************************************************)

Connect(c) ==
    /\ running /\ conn[c].state = "none"
    /\ conn' = [conn EXCEPT ![c].state = "backlog"]
    /\ UNCHANGED <<running, effects>>

Send(c, r) ==
    /\ conn[c].state \in {"backlog", "served"} /\ ~conn[c].eof /\ Len(conn[c].sent) < MaxRequests
    /\ conn' = [conn EXCEPT ![c].sent = Append(@, r),
                            ![c].stream = @ \o Bytes(Len(conn[c].sent) + 1, r.size)]
    /\ UNCHANGED <<running, effects>>

\* The client closes its sending side.
Shutdown(c) ==
    /\ conn[c].state = "served" /\ ~conn[c].eof
    /\ conn' = [conn EXCEPT ![c].eof = TRUE]
    /\ UNCHANGED <<running, effects>>

\* The client leaves its replies unread, reads them again, or closes the
\* connection.
ClientReads(c) ==
    /\ conn[c].writing \in {"client reads", "client waits"}
    /\ \E w \in {"client reads", "client waits", "client gone"} \ {conn[c].writing} :
          conn' = [conn EXCEPT ![c].writing = w]
    /\ UNCHANGED <<running, effects>>

(***************************************************************************)
(* run                                                                     *)
(***************************************************************************)

\* accept_varlink_connection: a thread is spawned for the connection.
accept_varlink_connection(c) ==
    /\ running /\ conn[c].state = "backlog"
    /\ conn' = [conn EXCEPT ![c].state = "served"]
    /\ UNCHANGED <<running, effects>>

\* stop_requested: the loop ends and the sockets are removed; what is in the
\* backlog is refused, and the threads go on with their connections.
StopRequested ==
    /\ running
    /\ running' = FALSE
    /\ conn' = [c \in Clients |-> IF conn[c].state = "backlog" THEN [conn[c] EXCEPT !.state = "closed"]
                                  ELSE conn[c]]
    /\ UNCHANGED effects

(***************************************************************************)
(* serve_connection                                                        *)
(***************************************************************************)

Complete(pending) == \E i \in 1 .. Len(pending) : pending[i].last

\* The thread is at the top of its loop.
AtTop(c) == conn[c].state = "served" /\ conn[c].handling = 0 /\ conn[c].writing = "no"

MutantTakeAll(c) ==
    /\ AtTop(c) /\ Complete(conn[c].pending)
    /\ LET end == SelectLastInSeq(conn[c].pending, LAMBDA b : b.last)
       IN  conn' = [conn EXCEPT ![c].pending = SubSeq(@, end + 1, Len(@)),
                                ![c].handling = conn[c].pending[end].req]
    /\ UNCHANGED <<running, effects>>

\* A message of pending is complete: it is taken out to be dispatched.
TakeMessage(c) ==
    /\ AtTop(c) /\ Complete(conn[c].pending)
    /\ LET end == SelectInSeq(conn[c].pending, LAMBDA b : b.last)
       IN  conn' = [conn EXCEPT ![c].pending = SubSeq(@, end + 1, Len(@)),
                                ![c].handling = conn[c].pending[end].req]
    /\ UNCHANGED <<running, effects>>

\* VarlinkEndpoint::allows, for the endpoints that are listened on.
allows(endpoint, method) ==
    \/ method = "GetInfo"
    \/ endpoint = "Resolve" /\ method \notin {"Monitor.DumpCache", "Monitor.ResetStatistics"}
    \/ endpoint = "Monitor" /\ method \in {"Monitor.DumpCache", "Monitor.ResetStatistics"}

\* dispatch_for_endpoint: the kinds of reply a request can get.  A lookup may
\* also fail, whatever the caller.
dispatch_for_endpoint(c, method) ==
    CASE method = "malformed" -> {"InvalidParameter"}
      [] method # "malformed" /\ ~allows(c.endpoint, method) -> {"MethodNotFound"}
      [] method = "unknown" -> {"MethodNotFound"}
      [] method = "ResolveHostname" -> {"success", "ResolveError"}
      [] method \in Controls /\ allows(c.endpoint, method) /\ c.uid # 0 -> {"PermissionDenied"}
      [] OTHER -> {"success"}

\* The message is handled, in a while of its own; a control operation takes
\* effect before its reply is written.
Dispatch(c) ==
    /\ conn[c].state = "served" /\ conn[c].handling # 0
    /\ LET i == conn[c].handling
           method == conn[c].sent[i].method
       IN  \E r \in dispatch_for_endpoint(c, method) :
              /\ conn' = [conn EXCEPT ![c].handling = 0, ![c].writing = "client reads",
                                      ![c].replies = Append(@, [req |-> i, reply |-> r])]
              /\ effects' = IF method \in Controls /\ r = "success"
                            THEN effects \cup {[client |-> c, method |-> method]} ELSE effects
    /\ UNCHANGED running

\* write_all of the reply and its NUL: into the buffer of the socket, which may
\* have no room when the client does not read.
WriteReply(c) ==
    /\ conn[c].writing \in {"client reads", "client waits"}
    /\ conn' = [conn EXCEPT ![c].writing = "no"]
    /\ UNCHANGED <<running, effects>>

\* write_all fails, and with it serve_connection; what was read is dropped.
WriteFails(c) ==
    /\ conn[c].writing = "client gone"
    /\ conn' = [conn EXCEPT ![c].writing = "no", ![c].state = "broken"]
    /\ UNCHANGED <<running, effects>>

\* read: some bytes of the stream, at most a chunk of them.
ReadSome(c, n) ==
    /\ AtTop(c) /\ ~Complete(conn[c].pending)
    /\ n \in 1 .. Len(conn[c].stream)
    /\ LET pending == conn[c].pending \o SubSeq(conn[c].stream, 1, n)
       IN  conn' = [conn EXCEPT ![c].pending = pending,
                                ![c].stream = SubSeq(@, n + 1, Len(@)),
                                ![c].state = IF Len(pending) > MAX_MESSAGE_SIZE THEN "too large" ELSE @]
    /\ UNCHANGED <<running, effects>>

\* read finds the end of the stream, or nothing for 30 seconds.
ReadEnds(c) ==
    /\ AtTop(c) /\ ~Complete(conn[c].pending)
    /\ conn[c].stream = <<>>
    /\ conn' = [conn EXCEPT ![c].state = "closed"]
    /\ UNCHANGED <<running, effects>>

\* The steps that wait for nobody: of the writes, those to a client that reads.
ServerStep(c) ==
    \/ TakeMessage(c) \/ Dispatch(c) \/ WriteFails(c) \/ ReadEnds(c)
    \/ conn[c].writing = "client reads" /\ WriteReply(c)
    \/ \E n \in 1 .. CHUNK : ReadSome(c, n)

Next ==
    \/ StopRequested
    \/ \E c \in Clients :
          \/ Connect(c) \/ Shutdown(c) \/ ClientReads(c)
          \/ accept_varlink_connection(c) \/ ServerStep(c) \/ WriteReply(c)
          \/ \E r \in Requests : Send(c, r)

\* Each connection has a thread; the accept loop polls until it is stopped.
Spec ==
    /\ Init /\ [][Next]_vars
    /\ \A c \in Clients : WF_vars(ServerStep(c)) /\ WF_vars(accept_varlink_connection(c))

(***************************************************************************)
(* Properties                                                              *)
(***************************************************************************)

TypeOK ==
    /\ running \in BOOLEAN
    /\ \A c \in Clients :
          /\ conn[c].state \in {"none", "backlog", "served", "too large", "broken", "closed"}
          /\ conn[c].writing \in {"no", "client reads", "client waits", "client gone"}
          /\ conn[c].handling \in 0 .. Len(conn[c].sent)
          /\ conn[c].sent \in Seq(Requests)
    /\ effects \subseteq [client : Clients, method : Controls]

\* However the stream is cut, replies go out in the order of the requests, one
\* each and to the right one: the n-th reply is a reply that
\* dispatch_for_endpoint gives to the n-th request of that connection.
RepliesMatchRequests ==
    \A c \in Clients : \A n \in 1 .. Len(conn[c].replies) :
        /\ conn[c].replies[n].req = n
        /\ conn[c].replies[n].reply \in dispatch_for_endpoint(c, conn[c].sent[n].method)

\* A control operation is only carried out for root, and only through the
\* socket whose interface has the method; each one that took effect belongs to
\* a request whose reply is success, written or not.
ControlsAuthorised ==
    \A e \in effects :
        /\ e.client.uid = 0
        /\ (e.method = "Monitor.ResetStatistics") <=> (e.client.endpoint = "Monitor")
        /\ \E n \in 1 .. Len(conn[e.client].replies) :
              /\ conn[e.client].sent[n].method = e.method
              /\ conn[e.client].replies[n].reply = "success"

\* A connection is dropped for its size only when it sent a message longer than
\* the limit less one read.  (The check of pending also counts the bytes of the
\* messages behind: LegalNeverRefused does not hold.)
OnlyLargeRefused ==
    \A c \in Clients : conn[c].state = "too large" =>
        \E i \in 1 .. Len(conn[c].sent) : conn[c].sent[i].size > MAX_MESSAGE_SIZE - CHUNK

\* A connection whose messages all keep to MAX_MESSAGE_SIZE is never dropped for
\* its size.
LegalNeverRefused ==
    \A c \in Clients : conn[c].state = "too large" =>
        \E i \in 1 .. Len(conn[c].sent) : conn[c].sent[i].size > MAX_MESSAGE_SIZE

\* A connection comes to an end unless its client leaves the replies unread, and
\* unless it was refused for its size or the client has closed it, all complete
\* requests were answered before: the thread neither waits for ever nor forgets
\* a message that was read together with others.
ConnectionsEnd ==
    \A c \in Clients :
        (conn[c].state = "served") ~>
            (\/ conn[c].state = "too large"
             \/ conn[c].writing = "client waits"
             \/ conn[c].state = "broken"
             \/ /\ conn[c].state = "closed"
                /\ Len(conn[c].replies) = Len(conn[c].sent))
=============================================================================
