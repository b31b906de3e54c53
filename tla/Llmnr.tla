---------------------------------- MODULE Llmnr ----------------------------------
(***************************************************************************)
(* The LLMNR engine of llmnr/engine.rs: run_udp, which answers the         *)
(* questions of other hosts and watches for replies to its own names, the  *)
(* queries of this host and the changes of the link table.  The engine's   *)
(* socket is shared, so a datagram goes to whoever receives first.  The    *)
(* two tables have a parking_lot RwLock each: a reader waits for a writer  *)
(* that waits, even if the reader holds the lock already.  A name is       *)
(* already normalised; addresses matter to no property and are left out.   *)
(***************************************************************************)
EXTENDS Naturals, FiniteSets

CONSTANTS
    Links,        \* interface indexes
    Names,        \* host names
    Tasks,        \* calls of query()
    Ids,          \* what rand_id() may return: two calls may get the same one
    MaxChanges,   \* bound on set_link and clear_link
    MaxReceived,  \* bound on the datagrams peers send
    MaxQueued     \* bound on the datagrams waiting in the socket

VARIABLES
    links,     \* the link table
    writer,    \* what waits in links.write(): a change, or NoChange
    inflight,  \* id -> name of an outstanding query, or "none"
    socket,    \* datagrams not yet received
    listener,  \* run_udp
    query,     \* Tasks -> a call of query()
    conflicts, \* the conflicts recorded
    changes,   \* changes so far
    received   \* the replies peers have sent, and the number of datagrams

vars == <<links, writer, inflight, socket, listener, query, conflicts, changes, received>>

LinkConfigs == [mode : {"absent", "No", "Resolve", "Yes"}, claim_names : SUBSET Names]
Absent == [mode |-> "absent", claim_names |-> {}]
Changes == [ifindex : Links, config : {c \in LinkConfigs : c.mode = "absent" => c = Absent}]
NoChange == [ifindex |-> "none", config |-> Absent]
Query(name) == [kind |-> "query", id |-> "none", name |-> name]
Reply(id, name) == [kind |-> "reply", id |-> id, name |-> name]
Datagrams == {Query(n) : n \in Names} \union {Reply(i, n) : i \in Ids, n \in Names}
Receiving == [pc |-> "recv_from", name |-> "none", todo |-> {}]

Init ==
    /\ links = [l \in Links |-> Absent]
    /\ writer = NoChange
    /\ inflight = [i \in Ids |-> "none"]
    /\ socket = {}
    /\ listener = Receiving
    /\ query = [t \in Tasks |-> [pc |-> "idle", id |-> "none", name |-> "none", addrs |-> {}]]
    /\ conflicts = {}
    /\ changes = 0
    /\ received = [replies |-> {}, count |-> 0]

\* links.read() and inflight.write() by somebody who holds neither: the first
\* waits for a waiting writer, the second for handle_response.
CanRead == writer = NoChange
InflightFree == listener.pc # "handle_response"

we_own(ifindex, name) ==
    links[ifindex].mode = "Yes" /\ name \in links[ifindex].claim_names

\* set_link and clear_link: the lock, then the change.
RequestChange ==
    /\ changes < MaxChanges
    /\ writer = NoChange
    /\ writer' \in Changes
    /\ changes' = changes + 1
    /\ UNCHANGED <<links, inflight, socket, listener, query, conflicts, received>>
set_link ==
    /\ writer # NoChange
    /\ InflightFree   \* the one reader that keeps its guard
    /\ links' = [links EXCEPT ![writer.ifindex] = writer.config]
    /\ writer' = NoChange
    /\ UNCHANGED <<inflight, socket, listener, query, conflicts, changes, received>>

\* Peers ask, and answer what has been sent: late, and more than once.
PeerSends ==
    /\ received.count < MaxReceived /\ Cardinality(socket) < MaxQueued
    /\ \E d \in Datagrams \ socket :
          /\ d.kind = "reply" => \E t \in Tasks : /\ query[t].pc \in {"recv", "end", "done"}
                                                  /\ d = Reply(query[t].id, query[t].name)
          /\ socket' = socket \union {d}
          /\ received' = [replies |-> IF d.kind = "reply" THEN received.replies \union {d.name}
                                      ELSE received.replies,
                          count |-> received.count + 1]
    /\ UNCHANGED <<links, writer, inflight, listener, query, conflicts, changes>>

\* run_udp receives a question: handle_query copies the link table, and asks
\* we_own again for every Yes link of the copy before it sends an answer.
present == {l \in Links : links[l].mode # "absent"}
handle_query ==
    /\ listener.pc = "recv_from" /\ CanRead
    /\ \E d \in socket :
          /\ d.kind = "query"
          /\ socket' = socket \ {d}
          /\ listener' = [pc |-> "answer", name |-> d.name,
                          todo |-> {l \in present : links[l].mode = "Yes"}]
    /\ UNCHANGED <<links, writer, inflight, query, conflicts, changes, received>>
Answer ==
    /\ listener.pc = "answer"
    /\ \/ /\ listener.todo = {}
          /\ listener' = Receiving
       \/ \E l \in listener.todo :
             /\ CanRead
             /\ listener' = [listener EXCEPT !.todo = @ \ {l}]
    /\ UNCHANGED <<links, writer, inflight, socket, query, conflicts, changes, received>>

\* It receives a reply: handle_response takes the id out of inflight, and goes
\* on with both tables locked if the reply is about the name asked for.
Matches(id, name) == inflight[id] = name
handle_response ==
    /\ listener.pc = "recv_from"
    /\ \E d \in socket :
          /\ d.kind = "reply"
          /\ Matches(d.id, d.name) => CanRead
          /\ socket' = socket \ {d}
          /\ inflight' = [inflight EXCEPT ![d.id] = "none"]
          /\ listener' = IF Matches(d.id, d.name)
                         THEN [pc |-> "handle_response", name |-> inflight[d.id], todo |-> present]
                         ELSE listener
    /\ UNCHANGED <<links, writer, query, conflicts, changes, received>>

\* One link of the loop: we_own reads the table a second time.
RecordConflict ==
    /\ listener.pc = "handle_response"
    /\ \/ /\ listener.todo = {}
          /\ listener' = Receiving
          /\ UNCHANGED conflicts
       \/ \E l \in listener.todo :
             /\ CanRead
             /\ listener' = [listener EXCEPT !.todo = @ \ {l}]
             /\ conflicts' = IF we_own(l, listener.name)
                             THEN conflicts \union {[name |-> listener.name, ifindex |-> l]}
                             ELSE conflicts
    /\ UNCHANGED <<links, writer, inflight, socket, query, changes, received>>

\* query(): the entry in inflight, then the datagram; a failed send leaves the
\* entry behind.
StartQuery(t) ==
    /\ query[t].pc = "idle" /\ InflightFree
    /\ \E id \in Ids, name \in Names :
          /\ inflight' = [inflight EXCEPT ![id] = name]
          /\ query' = [query EXCEPT ![t] = [pc |-> "send", id |-> id, name |-> name, addrs |-> {}]]
    /\ UNCHANGED <<links, writer, socket, listener, conflicts, changes, received>>
SendQuery(t) ==
    /\ query[t].pc = "send"
    /\ \E pc \in {"recv", "failed"} : query' = [query EXCEPT ![t].pc = pc]
    /\ UNCHANGED <<links, writer, inflight, socket, listener, conflicts, changes, received>>

\* Every datagram is received; one with the id and the QR bit counts,
\* whatever name it is about.  The deadline, or an error, ends the loop.
ReceiveReply(t) ==
    /\ query[t].pc = "recv"
    /\ \E d \in socket :
          /\ socket' = socket \ {d}
          /\ query' = IF d.kind = "reply" /\ d.id = query[t].id
                      THEN [query EXCEPT ![t].addrs = @ \union {d.name}] ELSE query
    /\ UNCHANGED <<links, writer, inflight, listener, conflicts, changes, received>>
Deadline(t) ==
    /\ query[t].pc = "recv"
    /\ query' = [query EXCEPT ![t].pc = "end"]
    /\ UNCHANGED <<links, writer, inflight, socket, listener, conflicts, changes, received>>
MutantEndQuery(t) ==
    /\ query[t].pc = "end" /\ InflightFree
    /\ inflight' = IF query[t].addrs = {} THEN inflight
                   ELSE [inflight EXCEPT ![query[t].id] = "none"]
    /\ query' = [query EXCEPT ![t].pc = "done"]
    /\ UNCHANGED <<links, writer, socket, listener, conflicts, changes, received>>
EndQuery(t) ==
    /\ query[t].pc = "end" /\ InflightFree
    /\ inflight' = [inflight EXCEPT ![query[t].id] = "none"]
    /\ query' = [query EXCEPT ![t].pc = "done"]
    /\ UNCHANGED <<links, writer, socket, listener, conflicts, changes, received>>

ListenerStep == handle_query \/ Answer \/ handle_response \/ RecordConflict
QueryStep(t) == StartQuery(t) \/ SendQuery(t) \/ Deadline(t) \/ EndQuery(t)
Next ==
    \/ RequestChange \/ set_link \/ PeerSends \/ ListenerStep
    \/ \E t \in Tasks : QueryStep(t) \/ ReceiveReply(t)

\* The tasks and the waiting writer run; the deadline passes.
Fairness ==
    /\ WF_vars(ListenerStep) /\ WF_vars(set_link)
    /\ \A t \in Tasks : WF_vars(SendQuery(t) \/ Deadline(t) \/ EndQuery(t))
Spec == Init /\ [][Next]_vars
FairSpec == Spec /\ Fairness

\* ------------------------------------------------------------- properties
TypeOK ==
    /\ links \in [Links -> LinkConfigs]
    /\ writer \in Changes \union {NoChange}
    /\ inflight \in [Ids -> Names \union {"none"}]
    /\ socket \subseteq Datagrams
    /\ listener.pc \in {"recv_from", "answer", "handle_response"} /\ listener.todo \subseteq Links
    /\ \A t \in Tasks : query[t].pc \in {"idle", "send", "recv", "end", "done", "failed"}
    /\ conflicts \subseteq [name : Names, ifindex : Links]

\* query and handle_response both take ids out of inflight, and two queries may
\* have drawn the same id.  Still every entry has the name of a query that
\* runs, or of one whose send failed (query returns there without the removal);
\* and a query that runs has its entry, unless a peer has answered it or
\* another query has drawn its id.
Running == {"send", "recv", "end"}
InflightAccounted ==
    /\ \A i \in Ids : inflight[i] # "none" =>
          \E t \in Tasks : /\ query[t].id = i /\ query[t].name = inflight[i]
                           /\ query[t].pc \in Running \cup {"failed"}
    /\ \A t \in Tasks : query[t].pc \in Running =>
          \/ inflight[query[t].id] = query[t].name
          \/ query[t].name \in received.replies
          \/ \E u \in Tasks \ {t} : query[u].id = query[t].id

\* handle_response records a conflict only for a name that this host has asked
\* for and that a peer has answered, whichever replies were late, repeated or
\* met the entry of another query with the same id; and that the host claims
\* on the link, as long as no second change can have withdrawn the claim.  The
\* links that it has been through have their conflict if they claim the name.
ConflictsHaveCause ==
    /\ \A c \in conflicts :
          /\ c.name \in received.replies /\ \E t \in Tasks : query[t].name = c.name
          /\ changes <= 1 => we_own(c.ifindex, c.name)
    /\ listener.pc = "handle_response" =>
          \A l \in Links \ listener.todo :
              we_own(l, listener.name) => [name |-> listener.name, ifindex |-> l] \in conflicts

\* Every query that was sent ends, and so does every pass of run_udp, as long
\* as no link changes once links are set up (MaxChanges = 1): query waits only
\* for the deadline and for inflight, we_own for nobody.
QueriesEnd ==
    /\ \A t \in Tasks : query[t].pc = "recv" ~> query[t].pc = "done"
    /\ listener.pc # "recv_from" ~> listener.pc = "recv_from"

\* handle_response gets through its loop over the links and looks for the
\* conflict (engine.rs:163).  It does not when set_link comes in between:
\* the loop holds the read guard that set_link waits for, and we_own asks for
\* a second one, which waits for set_link.
ConflictsDetected ==
    listener.pc = "handle_response" ~> listener.pc = "recv_from"
=============================================================================
