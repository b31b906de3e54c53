------------------------- MODULE StubDaemon_proofs --------------------------
(***************************************************************************)
(* The proofs about StubDaemon: every datagram a listener takes has one    *)
(* holder until it is answered, rejected or dropped, and full queues end   *)
(* no listener.                                                            *)
(***************************************************************************)
EXTENDS StubDaemon, FiniteSetTheorems, TLAPS

(* What is assumed of the constants: there is a worker, and the jobs are   *)
(* none of the words for a worker without one.                             *)
StubConstants ==
    /\ Workers \in Nat \ {0} /\ UDP_QUEUE_PER_WORKER \in Nat /\ MaxTcpQueries \in Nat /\ MaxSignals \in Nat
    /\ "idle" \notin Jobs /\ "ended" \notin Jobs

(***************************************************************************)
(* Types                                                                   *)
(***************************************************************************)

(* TypeOK, with the domain of the queues.                                  *)
UdpTypes ==
    /\ next \in WorkerIds
    /\ listener \in [Endpoints -> {Receiving, Ended} \cup Dispatches]
    /\ queue \in [WorkerIds -> Seq(Jobs)]
    /\ \A w \in WorkerIds : Len(queue[w]) <= UDP_QUEUE_PER_WORKER
    /\ worker \in [WorkerIds -> Jobs \cup {"idle", "ended"}]
    /\ fate \in [Jobs -> {"unsent", "socket", "held", "answered", "rejected", "dropped"}]
LoopTypes ==
    /\ main \in {"bind", "check", "take", "clear", "taken", "sleep", "stopping", "failed", "joining", "exited"}
    /\ bound \subseteq Endpoints
    /\ stop \in BOOLEAN /\ reload \in BOOLEAN /\ unserved \in BOOLEAN
    /\ signals \in 0 .. MaxSignals
    /\ client \in [Connections -> [at : {"unopened", "backlog", "open", "closed"}, queries : 0 .. MaxTcpQueries]]
    /\ server \in [Servers -> {"running", "blocked", "failed", "ended"}]
Types == UdpTypes /\ LoopTypes

(* The words tell the states of a listener apart.                          *)
LEMMA ListenerKinds ==
    /\ Receiving.at = "recv" /\ Ended.at = "ended" /\ Receiving # Ended
    /\ \A d \in Dispatches : /\ d.at = "dispatch" /\ d # Receiving /\ d # Ended
                             /\ d.job \in Jobs /\ d.start \in WorkerIds /\ d.offset \in WorkerIds
                             /\ d.connected \in BOOLEAN
<1>1. Receiving.at = "recv" /\ Ended.at = "ended"  BY DEF Receiving, Ended
<1>2. Receiving # Ended  BY <1>1
<1>3. ASSUME NEW d \in Dispatches
      PROVE  /\ d.at = "dispatch" /\ d.job \in Jobs /\ d.start \in WorkerIds /\ d.offset \in WorkerIds
             /\ d.connected \in BOOLEAN
  BY Zenon, <1>3 DEF Dispatches
<1>4. ASSUME NEW d \in Dispatches  PROVE d # Receiving /\ d # Ended
  <2>1. d.at = "dispatch"  BY Zenon, <1>3
  <2> QED  BY <1>1, <2>1
<1> QED  BY Zenon, <1>1, <1>2, <1>3, <1>4

(* The fields of a dispatch.                                                *)
LEMMA DispatchFields ==
    ASSUME NEW j \in Jobs, NEW s \in WorkerIds, NEW o \in WorkerIds, NEW c \in BOOLEAN
    PROVE  /\ Dispatching(j, s, o, c) \in Dispatches
           /\ Dispatching(j, s, o, c).at = "dispatch" /\ Dispatching(j, s, o, c).job = j
           /\ Dispatching(j, s, o, c).connected = c
BY DEF Dispatching, Dispatches

(* The indexes that next and the offset of a dispatch lead to.             *)
LEMMA WorkerNumbers ==
    ASSUME StubConstants
    PROVE  /\ 0 \in WorkerIds
           /\ \A n \in Nat : n % Workers \in WorkerIds
           /\ \A o \in WorkerIds : o + 1 # Workers => o + 1 \in WorkerIds
BY SMT DEF StubConstants, WorkerIds

(***************************************************************************)
(* What a step does, for the proofs below                                  *)
(***************************************************************************)

(* Steps of the main loop, the signals, the server threads and TCP leave   *)
(* the UDP side alone.                                                     *)
LoopStep ==
    \/ CheckStop \/ TakeReload \/ ClearReload \/ Sleep \/ LeaveStub \/ JoinServers
    \/ Hangup \/ Terminate
    \/ \E s \in Servers : ServerFails(s) \/ ServerBlocks(s) \/ ServerEnds(s)
    \/ \E c \in Connections : Connect(c) \/ Accept(c) \/ ServeQuery(c) \/ CloseClient(c)
UdpStep ==
    \/ \E inUse, broken \in SUBSET Endpoints : run_stub(inUse, broken)
    \/ \E j \in Jobs : Send(j)
    \/ \E e \in Endpoints : ListenerStep(e)
    \/ \E w \in WorkerIds : WorkerStep(w)
(* Every step is one of the two kinds.                                     *)
LEMMA NextKinds == Next => LoopStep \/ UdpStep
BY Zenon DEF Next, MainStep, LoopStep, UdpStep

(* The main loop does not touch listeners, queues, workers and datagrams.  *)
LEMMA LoopLeaves == LoopStep => UNCHANGED udp /\ UNCHANGED bound
BY Zenon DEF LoopStep, CheckStop, TakeReload, ClearReload, Sleep, LeaveStub, JoinServers, Hangup, Terminate,
             ServerFails, ServerBlocks, ServerEnds, Connect, Accept, ServeQuery, CloseClient, loop

(* The three outcomes of offering a job to worker w: its queue takes it,   *)
(* the next worker is tried, or it was the last one.                       *)
Delivers(e, w) ==
    /\ worker[w] # "ended" /\ Len(queue[w]) < UDP_QUEUE_PER_WORKER
    /\ queue' = [queue EXCEPT ![w] = Append(@, listener[e].job)]
    /\ listener' = [listener EXCEPT ![e] = AfterDispatch(TRUE)]
    /\ fate' = fate
Passes(e, w, c) ==
    /\ listener[e].offset + 1 \in WorkerIds
    /\ listener' = [listener EXCEPT ![e] = Dispatching(listener[e].job, listener[e].start, listener[e].offset + 1, c)]
    /\ UNCHANGED <<queue, fate>>
Drops(e, w, c) ==
    /\ listener' = [listener EXCEPT ![e] = AfterDispatch(c)]
    /\ fate' = [fate EXCEPT ![listener[e].job] = "dropped"]
    /\ queue' = queue

(* A worker that has not ended and does not take the job has a full queue, *)
(* which counts as connected.                                              *)
LEMMA TrySendCases ==
    ASSUME StubConstants, Types, NEW e \in Endpoints, try_send(e)
    PROVE  /\ listener[e] \in Dispatches
           /\ UNCHANGED <<loop, stop, next, worker, client, server>>
           /\ \E w \in WorkerIds, c \in BOOLEAN :
                 \/ Delivers(e, w)
                 \/ (worker[w] # "ended" => c) /\ (Passes(e, w, c) \/ Drops(e, w, c))
<1> DEFINE d == listener[e]
           w == (d.start + d.offset) % Workers
           full == worker[w] # "ended" /\ Len(queue[w]) >= UDP_QUEUE_PER_WORKER
           gone == worker[w] = "ended"
           connected == d.connected \/ full
           last == d.offset + 1 = Workers
<1>1. d \in Dispatches
  <2>1. d \in {Receiving, Ended} \cup Dispatches /\ d.at = "dispatch"  BY Zenon DEF Types, UdpTypes, try_send
  <2> QED  BY <2>1, ListenerKinds
<1>2. d.start \in WorkerIds /\ d.offset \in WorkerIds /\ d.connected \in BOOLEAN  BY Zenon, <1>1, ListenerKinds
<1>3. w \in WorkerIds
  <2>1. d.start + d.offset \in Nat  BY SMT, <1>2 DEF WorkerIds
  <2> QED  BY Zenon, <2>1, WorkerNumbers
<1>4. Len(queue[w]) \in Nat /\ UDP_QUEUE_PER_WORKER \in Nat
  <2>1. queue[w] \in Seq(Jobs)  BY Zenon, <1>3 DEF Types, UdpTypes
  <2> QED  BY <2>1 DEF StubConstants
<1>5. UNCHANGED <<loop, stop, next, worker, client, server>>  BY Zenon DEF try_send
<1>6. \/ /\ ~full /\ ~gone
         /\ queue' = [queue EXCEPT ![w] = Append(@, d.job)]
         /\ listener' = [listener EXCEPT ![e] = AfterDispatch(TRUE)]
         /\ fate' = fate
      \/ /\ full \/ gone
         /\ ~last
         /\ listener' = [listener EXCEPT ![e] = Dispatching(d.job, d.start, d.offset + 1, connected)]
         /\ UNCHANGED <<queue, fate>>
      \/ /\ full \/ gone
         /\ last
         /\ listener' = [listener EXCEPT ![e] = AfterDispatch(Undelivered(connected))]
         /\ fate' = [fate EXCEPT ![d.job] = "dropped"]
         /\ queue' = queue
  BY Zenon DEF try_send
<1> HIDE DEF w, full, connected, last
<1>7. CASE ~full /\ ~gone
  <2>1. Len(queue[w]) < UDP_QUEUE_PER_WORKER  BY SMT, <1>4, <1>7 DEF full
  <2>2. Delivers(e, w)  BY Zenon, <1>6, <1>7, <2>1 DEF Delivers
  <2> QED  BY Zenon, <1>1, <1>3, <1>5, <2>2
<1>8. CASE full \/ gone
  <2>1. PICK c \in BOOLEAN : c = connected  BY Zenon, <1>2 DEF connected
  <2>2. worker[w] # "ended" => c  BY Zenon, <1>8, <2>1 DEF connected
  <2>3. ~last => d.offset + 1 \in WorkerIds  BY Zenon, <1>2, WorkerNumbers DEF last
  <2>4. Passes(e, w, c) \/ Drops(e, w, c)
    BY Zenon, <1>6, <1>8, <2>1, <2>3 DEF Passes, Drops, Undelivered
  <2> QED  BY Zenon, <1>1, <1>3, <1>5, <2>2, <2>4
<1> QED  BY Zenon, <1>7, <1>8

(***************************************************************************)
(* Types hold                                                              *)
(***************************************************************************)

(* What a queue holds after a job is added at its end or taken from its    *)
(* head.                                                                   *)
LEMMA Appended ==
    ASSUME NEW s \in Seq(Jobs), NEW j \in Jobs
    PROVE  /\ Append(s, j) \in Seq(Jobs) /\ Len(Append(s, j)) = Len(s) + 1 /\ Len(s) \in Nat
           /\ Append(s, j)[Len(s) + 1] = j
           /\ \A i \in 1 .. Len(s) : Append(s, j)[i] = s[i]
OBVIOUS
(* The head of a queue and what is left of it.                             *)
LEMMA Popped ==
    ASSUME NEW s \in Seq(Jobs), s # <<>>
    PROVE  /\ Tail(s) \in Seq(Jobs) /\ Len(Tail(s)) = Len(s) - 1 /\ Len(s) \in Nat /\ Len(s) >= 1
           /\ Head(s) = s[1] /\ Head(s) \in Jobs
           /\ \A i \in 1 .. Len(s) - 1 : Tail(s)[i] = s[i + 1]
OBVIOUS

(* A listener goes on or ends.                                             *)
LEMMA AfterDispatchIs == \A c : AfterDispatch(c) = IF c /\ ~stop THEN Receiving ELSE Ended
BY DEF AfterDispatch

(* The steps of a worker.                                                  *)
Takes(w) ==
    /\ worker[w] = "idle" /\ queue[w] # <<>>
    /\ worker' = [worker EXCEPT ![w] = Head(queue[w])]
    /\ queue' = [queue EXCEPT ![w] = Tail(@)]
    /\ fate' = fate
Stops(w) == worker[w] = "idle" /\ (stop \/ main = "stopping") /\ WorkerEnds(w)
Replies(w) ==
    /\ worker[w] \in Jobs
    /\ fate' = [fate EXCEPT ![worker[w]] = "answered"] \/ fate' = [fate EXCEPT ![worker[w]] = "rejected"]
    /\ worker' = [worker EXCEPT ![w] = "idle"]
    /\ queue' = queue
(* A worker takes a job, ends or replies.                                  *)
LEMMA WorkerCases ==
    ASSUME NEW w \in WorkerIds, WorkerStep(w)
    PROVE  /\ UNCHANGED <<loop, stop, next, listener, client, server>>
           /\ Takes(w) \/ Stops(w) \/ Replies(w)
BY Zenon DEF WorkerStep, WorkerReceives, WorkerReplies, Takes, Stops, Replies

(* A step keeps the types of the UDP side.                                 *)
LEMMA UdpTypesKept ==
    ASSUME StubConstants, Types, Next
    PROVE  UdpTypes'
<1>0. UdpTypes  BY DEF Types
<1>1. CASE LoopStep
  <2>1. UNCHANGED udp  BY Zenon, <1>1, LoopLeaves
  <2> QED  BY Zenon, <1>0, <2>1 DEF UdpTypes, udp
<1>2. ASSUME NEW inUse, NEW broken, run_stub(inUse, broken)  PROVE UdpTypes'
  <2>1. /\ next' = next /\ queue' = queue /\ fate' = fate
        /\ \E S : listener' = [e \in Endpoints |-> IF e \in S THEN Receiving ELSE Ended]
        /\ \E b \in BOOLEAN : worker' = [w \in WorkerIds |-> IF b THEN "ended" ELSE "idle"]
    BY Zenon, <1>2 DEF run_stub
  <2>2. listener' \in [Endpoints -> {Receiving, Ended} \cup Dispatches]  BY Zenon, <2>1
  <2>3. worker' \in [WorkerIds -> Jobs \cup {"idle", "ended"}]  BY Zenon, <2>1
  <2> QED  BY Zenon, <1>0, <2>1, <2>2, <2>3 DEF UdpTypes
<1>3. ASSUME NEW j \in Jobs, Send(j)  PROVE UdpTypes'
  BY Zenon, <1>0, <1>3 DEF Send, UdpTypes
<1>4. ASSUME NEW e \in Endpoints, NEW j \in Jobs, Receive(e, j)  PROVE UdpTypes'
  <2>1. next' \in WorkerIds
    <3>1. next + 1 \in Nat /\ next' = (next + 1) % Workers  BY SMT, <1>0, <1>4 DEF UdpTypes, Receive, WorkerIds
    <3> QED  BY Zenon, <3>1, WorkerNumbers
  <2>2. Dispatching(j, next, 0, FALSE) \in Dispatches
    BY Zenon, <1>0, WorkerNumbers, DispatchFields DEF UdpTypes
  <2>3. /\ listener' = [listener EXCEPT ![e] = Dispatching(j, next, 0, FALSE)]
        /\ fate' = [fate EXCEPT ![j] = "held"] /\ UNCHANGED <<queue, worker>>
    BY Zenon, <1>4 DEF Receive
  <2>4. listener' \in [Endpoints -> {Receiving, Ended} \cup Dispatches]  BY Zenon, <1>0, <2>2, <2>3 DEF UdpTypes
  <2> QED  BY Zenon, <1>0, <2>1, <2>3, <2>4 DEF UdpTypes
<1>5. ASSUME NEW e \in Endpoints, try_send(e)  PROVE UdpTypes'
  <2>1. listener[e] \in Dispatches /\ UNCHANGED <<next, worker>>  BY Zenon, <1>5, TrySendCases
  <2>2. PICK w \in WorkerIds, c \in BOOLEAN : Delivers(e, w) \/ Passes(e, w, c) \/ Drops(e, w, c)
    BY Zenon, <1>5, TrySendCases
  <2>3. listener[e].job \in Jobs /\ listener[e].start \in WorkerIds  BY Zenon, <2>1, ListenerKinds
  <2>4. \A b : AfterDispatch(b) \in {Receiving, Ended}  BY Zenon, AfterDispatchIs
  <2>5. CASE Delivers(e, w)
    <3>1. queue[w] \in Seq(Jobs)  BY Zenon, <1>0 DEF UdpTypes
    <3>2. Append(queue[w], listener[e].job) \in Seq(Jobs)  BY Zenon, <2>3, <3>1, Appended
    <3>3. Len(Append(queue[w], listener[e].job)) <= UDP_QUEUE_PER_WORKER
      <4>1. Len(Append(queue[w], listener[e].job)) = Len(queue[w]) + 1 /\ Len(queue[w]) \in Nat
        BY Zenon, <2>3, <3>1, Appended
      <4>2. Len(queue[w]) < UDP_QUEUE_PER_WORKER /\ UDP_QUEUE_PER_WORKER \in Nat
        BY Zenon, <2>5 DEF Delivers, StubConstants
      <4> QED  BY SMT, <4>1, <4>2
    <3>4. queue' \in [WorkerIds -> Seq(Jobs)] /\ \A v \in WorkerIds : Len(queue'[v]) <= UDP_QUEUE_PER_WORKER
      BY Zenon, <1>0, <2>5, <3>2, <3>3 DEF Delivers, UdpTypes
    <3> QED  BY Zenon, <1>0, <2>1, <2>4, <2>5, <3>4 DEF Delivers, UdpTypes
  <2>6. CASE Passes(e, w, c)
    <3>1. Dispatching(listener[e].job, listener[e].start, listener[e].offset + 1, c) \in Dispatches
      BY Zenon, <2>3, <2>6, DispatchFields DEF Passes
    <3> QED  BY Zenon, <1>0, <2>1, <2>6, <3>1 DEF Passes, UdpTypes
  <2>7. CASE Drops(e, w, c)
    BY Zenon, <1>0, <2>1, <2>3, <2>4, <2>7 DEF Drops, UdpTypes
  <2> QED  BY Zenon, <2>2, <2>5, <2>6, <2>7
<1>6. ASSUME NEW e \in Endpoints, ListenerStops(e)  PROVE UdpTypes'
  BY Zenon, <1>0, <1>6 DEF ListenerStops, UdpTypes
<1>7. ASSUME NEW w \in WorkerIds, WorkerStep(w)  PROVE UdpTypes'
  <2>1. UNCHANGED <<next, listener>>  BY Zenon, <1>7, WorkerCases
  <2>2. queue[w] \in Seq(Jobs)  BY Zenon, <1>0 DEF UdpTypes
  <2>3. CASE Takes(w)
    <3>1. Tail(queue[w]) \in Seq(Jobs) /\ Head(queue[w]) \in Jobs  BY Zenon, <2>2, <2>3, Popped DEF Takes
    <3>2. Len(Tail(queue[w])) <= UDP_QUEUE_PER_WORKER
      <4>1. Len(Tail(queue[w])) = Len(queue[w]) - 1 /\ Len(queue[w]) \in Nat  BY Zenon, <2>2, <2>3, Popped DEF Takes
      <4>2. Len(queue[w]) <= UDP_QUEUE_PER_WORKER /\ UDP_QUEUE_PER_WORKER \in Nat
        BY Zenon, <1>0 DEF UdpTypes, StubConstants
      <4> QED  BY SMT, <4>1, <4>2
    <3>3. queue' \in [WorkerIds -> Seq(Jobs)] /\ \A v \in WorkerIds : Len(queue'[v]) <= UDP_QUEUE_PER_WORKER
      BY Zenon, <1>0, <2>3, <3>1, <3>2 DEF Takes, UdpTypes
    <3>4. worker' \in [WorkerIds -> Jobs \cup {"idle", "ended"}]  BY Zenon, <1>0, <2>3, <3>1 DEF Takes, UdpTypes
    <3> QED  BY Zenon, <1>0, <2>1, <2>3, <3>3, <3>4 DEF Takes, UdpTypes
  <2>4. CASE Stops(w)
    <3>1. << >> \in Seq(Jobs) /\ Len(<< >>) <= UDP_QUEUE_PER_WORKER  BY SMT DEF StubConstants
    <3>2. queue' \in [WorkerIds -> Seq(Jobs)] /\ \A v \in WorkerIds : Len(queue'[v]) <= UDP_QUEUE_PER_WORKER
      BY Zenon, <1>0, <2>4, <3>1 DEF Stops, WorkerEnds, UdpTypes
    <3> QED  BY Zenon, <1>0, <2>1, <2>4, <3>2 DEF Stops, WorkerEnds, UdpTypes
  <2>5. CASE Replies(w)
    BY Zenon, <1>0, <2>1, <2>5 DEF Replies, UdpTypes
  <2> QED  BY Zenon, <1>7, <2>3, <2>4, <2>5, WorkerCases
<1> QED  BY Zenon, <1>1, <1>2, <1>3, <1>4, <1>5, <1>6, <1>7, NextKinds DEF UdpStep, ListenerStep

(* A step keeps the types of the main loop, of TCP and of the servers.     *)
LEMMA LoopTypesKept ==
    ASSUME StubConstants, Types, Next
    PROVE  LoopTypes'
<1>0. LoopTypes  BY DEF Types
<1>1. CASE UdpStep
  <2>1. UNCHANGED <<stop, reload, unserved, signals, client, server>>
        /\ (UNCHANGED <<main, bound>> \/ (bound' \subseteq Endpoints /\ main' \in {"failed", "check"}))
    <3>1. ASSUME NEW e \in Endpoints, try_send(e)
          PROVE  UNCHANGED <<stop, reload, unserved, signals, client, server, main, bound>>
      BY Zenon, <3>1, TrySendCases DEF loop
    <3>2. ASSUME NEW w \in WorkerIds, WorkerStep(w)
          PROVE  UNCHANGED <<stop, reload, unserved, signals, client, server, main, bound>>
      BY Zenon, <3>2, WorkerCases DEF loop
    <3> QED  BY Zenon, <1>1, <3>1, <3>2 DEF UdpStep, ListenerStep, run_stub, bind_endpoints, Send, Receive,
                                            ListenerStops, loop
  <2> QED  BY Zenon, <1>0, <2>1 DEF LoopTypes
<1>2. CASE CheckStop \/ TakeReload \/ ClearReload \/ Sleep \/ LeaveStub \/ Terminate
  BY Zenon, <1>0, <1>2 DEF CheckStop, TakeReload, ClearReload, Sleep, LeaveStub, Terminate, LoopTypes, loop
<1>3. CASE Hangup
  <2>1. signals' \in 0 .. MaxSignals  BY SMT, <1>0, <1>3 DEF Hangup, LoopTypes, StubConstants
  <2> QED  BY Zenon, <1>0, <1>3, <2>1 DEF Hangup, LoopTypes
<1>4. CASE \E s \in Servers : ServerFails(s) \/ ServerBlocks(s) \/ ServerEnds(s)
  BY Zenon, <1>0, <1>4 DEF ServerFails, ServerBlocks, ServerEnds, LoopTypes, loop
<1> DEFINE Clients == [at : {"unopened", "backlog", "open", "closed"}, queries : 0 .. MaxTcpQueries]
<1>5. ASSUME NEW r \in Clients, NEW x \in {"backlog", "open", "closed"}
      PROVE  [r EXCEPT !.at = x] \in Clients
  BY Zenon, <1>5
<1>6. CASE JoinServers
  <2>1. \A c \in Connections : client[c] \in Clients  BY Zenon, <1>0 DEF LoopTypes
  <2>2. client' \in [Connections -> Clients]  BY Zenon, <1>5, <1>6, <2>1 DEF JoinServers
  <2> QED  BY Zenon, <1>0, <1>6, <2>2 DEF JoinServers, LoopTypes
<1>7. ASSUME NEW c \in Connections, Connect(c) \/ Accept(c) \/ CloseClient(c)  PROVE LoopTypes'
  <2>1. PICK x \in {"backlog", "open", "closed"} : client' = [client EXCEPT ![c] = [@ EXCEPT !.at = x]]
    BY Zenon, <1>7 DEF Connect, Accept, CloseClient
  <2>2. [client[c] EXCEPT !.at = x] \in Clients  BY Zenon, <1>0, <1>5 DEF LoopTypes
  <2>3. client' \in [Connections -> Clients]  BY Zenon, <1>0, <2>1, <2>2 DEF LoopTypes
  <2> QED  BY Zenon, <1>0, <1>7, <2>3 DEF Connect, Accept, CloseClient, LoopTypes, loop
<1>8. ASSUME NEW c \in Connections, ServeQuery(c)  PROVE LoopTypes'
  <2>1. /\ client' = [client EXCEPT ![c] = [client[c] EXCEPT !.queries = client[c].queries + 1]]
        /\ client[c].queries < MaxTcpQueries
    BY Zenon, <1>8 DEF ServeQuery
  <2>2. client[c] \in Clients  BY Zenon, <1>0 DEF LoopTypes
  <2>3. client[c].queries + 1 \in 0 .. MaxTcpQueries  BY SMT, <2>1, <2>2 DEF StubConstants
  <2>4. [client[c] EXCEPT !.queries = client[c].queries + 1] \in Clients  BY Zenon, <2>2, <2>3
  <2>5. client' \in [Connections -> Clients]  BY Zenon, <1>0, <2>1, <2>4 DEF LoopTypes
  <2> QED  BY Zenon, <1>0, <1>8, <2>5 DEF ServeQuery, LoopTypes, loop
<1> QED  BY Zenon, <1>1, <1>2, <1>3, <1>4, <1>6, <1>7, <1>8, NextKinds DEF LoopStep

(* Both together, also when nothing happens.                               *)
LEMMA TypesKept == ASSUME StubConstants, Types, [Next]_vars PROVE Types'
<1>1. CASE Next  BY Zenon, <1>1, UdpTypesKept, LoopTypesKept DEF Types
<1>2. CASE UNCHANGED vars
  BY Zenon, <1>2 DEF Types, UdpTypes, LoopTypes, vars, udp, loop
<1> QED  BY <1>1, <1>2

(* The process starts with these types.                                    *)
LEMMA InitTypes == ASSUME StubConstants, Init PROVE Types
<1>1. 0 \in WorkerIds  BY WorkerNumbers
<1>2. << >> \in Seq(Jobs) /\ Len(<< >>) <= UDP_QUEUE_PER_WORKER /\ 0 \in 0 .. MaxSignals /\ 0 \in 0 .. MaxTcpQueries
  BY SMT DEF StubConstants
<1>3. UdpTypes  BY Zenon, <1>1, <1>2 DEF Init, UdpTypes
<1>4. LoopTypes  BY Zenon, <1>2 DEF Init, LoopTypes
<1> QED  BY <1>3, <1>4 DEF Types

(* The variables of the daemon keep their types; no queue of a worker      *)
(* grows beyond UDP_QUEUE_PER_WORKER.                                      *)
THEOREM StubTypesHold == ASSUME StubConstants PROVE Spec => []TypeOK
<1>1. Types => TypeOK
  <2> SUFFICES ASSUME Types PROVE TypeOK  OBVIOUS
  <2>1. \A w \in WorkerIds : queue[w] \in Seq(Jobs) /\ Len(queue[w]) <= UDP_QUEUE_PER_WORKER
    BY Zenon DEF Types, UdpTypes
  <2>2. /\ next \in WorkerIds /\ listener \in [Endpoints -> {Receiving, Ended} \cup Dispatches]
        /\ worker \in [WorkerIds -> Jobs \cup {"idle", "ended"}]
        /\ fate \in [Jobs -> {"unsent", "socket", "held", "answered", "rejected", "dropped"}]
    BY Zenon DEF Types, UdpTypes
  <2>3. LoopTypes  BY Zenon DEF Types
  <2> QED  BY Zenon, <2>1, <2>2, <2>3 DEF TypeOK, LoopTypes
<1>2. Init => Types  BY InitTypes
<1>3. Types /\ [Next]_vars => Types'  BY TypesKept
<1> QED  BY <1>1, <1>2, <1>3, PTL DEF Spec

(***************************************************************************)
(* Listeners.  As long as no stop is requested the workers run, so a       *)
(* listener that finds no room has met a full queue.                       *)
(***************************************************************************)
Running ==
    /\ main \in {"stopping", "joining", "exited"} => stop
    /\ ~stop /\ bound # {} => \A w \in WorkerIds : worker[w] # "ended"
    /\ ListenersSurviveOverload

(* Every step keeps the listeners.                                         *)
LEMMA RunningKept == ASSUME StubConstants, Types, Running, [Next]_vars PROVE Running'
<1>1. CASE LoopStep
  <2>1. UNCHANGED udp /\ bound' = bound  BY Zenon, <1>1, LoopLeaves
  <2>2. stop => stop'
    BY Zenon, <1>1 DEF LoopStep, CheckStop, TakeReload, ClearReload, Sleep, LeaveStub, JoinServers, Hangup, Terminate,
             ServerFails, ServerBlocks, ServerEnds, Connect, Accept, ServeQuery, CloseClient, loop
  <2>3. main' \in {"stopping", "joining", "exited"} => stop'
    BY Zenon, <1>1, <2>2 DEF LoopStep, CheckStop, TakeReload, ClearReload, Sleep, LeaveStub, JoinServers, Hangup,
             Terminate, ServerFails, ServerBlocks, ServerEnds, Connect, Accept, ServeQuery, CloseClient, loop, Running
  <2> QED  BY Zenon, <2>1, <2>2, <2>3 DEF Running, ListenersSurviveOverload, udp
<1>2. ASSUME NEW inUse \in SUBSET Endpoints, NEW broken \in SUBSET Endpoints, run_stub(inUse, broken)
      PROVE  Running'
  <2>1. main' \in {"failed", "check"} /\ (main' = "failed" => bound' = {})
    BY Zenon, <1>2 DEF run_stub, bind_endpoints
  <2>2. main' # "failed" => \A w \in WorkerIds : worker'[w] = "idle"  BY Zenon, <1>2 DEF run_stub
  <2>3. bound' \subseteq Endpoints  BY Zenon, <1>2 DEF run_stub, bind_endpoints
  <2>4. \A e \in bound' : listener'[e] = Receiving  BY Zenon, <1>2, <2>3 DEF run_stub
  <2> QED  BY Zenon, <2>1, <2>2, <2>4, ListenerKinds DEF Running, ListenersSurviveOverload
<1>3. ASSUME NEW j \in Jobs, Send(j)  PROVE Running'
  BY Zenon, <1>3 DEF Send, Running, ListenersSurviveOverload, loop
<1>4. ASSUME NEW e \in Endpoints, NEW j \in Jobs, Receive(e, j)  PROVE Running'
  <2>1. Dispatching(j, next, 0, FALSE) # Ended
    <3>1. Dispatching(j, next, 0, FALSE) \in Dispatches
      BY Zenon, WorkerNumbers, DispatchFields DEF Types, UdpTypes
    <3> QED  BY Zenon, <3>1, ListenerKinds
  <2>2. \A f \in Endpoints : listener'[f] = listener[f] \/ listener'[f] # Ended
    BY Zenon, <1>4, <2>1 DEF Receive, Types, UdpTypes
  <2>3. UNCHANGED <<main, stop, bound, worker>>  BY Zenon, <1>4 DEF Receive, loop
  <2> QED  BY Zenon, <2>2, <2>3 DEF Running, ListenersSurviveOverload, Types, LoopTypes
<1>5. ASSUME NEW e \in Endpoints, try_send(e)  PROVE Running'
  <2>1. listener[e] \in Dispatches /\ UNCHANGED <<main, stop, bound, worker>>
    BY Zenon, <1>5, TrySendCases DEF loop
  <2>2. PICK w \in WorkerIds, c \in BOOLEAN :
             Delivers(e, w) \/ ((worker[w] # "ended" => c) /\ (Passes(e, w, c) \/ Drops(e, w, c)))
    BY Zenon, <1>5, TrySendCases
  <2>3. ASSUME ~stop, e \in bound  PROVE listener'[e] # Ended
    <3>1. worker[w] # "ended"  BY Zenon, <2>3 DEF Running
    <3>2. AfterDispatch(TRUE) # Ended  BY Zenon, <2>3, AfterDispatchIs, ListenerKinds
    <3>3. CASE Delivers(e, w)  BY Zenon, <3>2, <3>3 DEF Delivers, Types, UdpTypes
    <3>4. CASE Passes(e, w, c)
      <4>1. Dispatching(listener[e].job, listener[e].start, listener[e].offset + 1, c) \in Dispatches
        BY Zenon, <2>1, <3>4, DispatchFields, ListenerKinds DEF Passes
      <4> QED  BY Zenon, <3>4, <4>1, ListenerKinds DEF Passes, Types, UdpTypes
    <3>5. CASE ~Delivers(e, w) /\ Drops(e, w, c)
      <4>1. c = TRUE  BY Zenon, <2>2, <3>1, <3>5
      <4> QED  BY Zenon, <3>2, <3>5, <4>1 DEF Drops, Types, UdpTypes
    <3> QED  BY Zenon, <2>2, <3>3, <3>4, <3>5
  <2>4. \A f \in Endpoints : f # e => listener'[f] = listener[f]
    BY Zenon, <2>2 DEF Delivers, Passes, Drops, Types, UdpTypes
  <2> QED  BY Zenon, <2>1, <2>3, <2>4 DEF Running, ListenersSurviveOverload, Types, LoopTypes
<1>6. ASSUME NEW e \in Endpoints, ListenerStops(e)  PROVE Running'
  BY Zenon, <1>6 DEF ListenerStops, Running, ListenersSurviveOverload, loop
<1>7. ASSUME NEW w \in WorkerIds, WorkerStep(w)  PROVE Running'
  <2>1. UNCHANGED <<main, stop, bound, listener>>  BY Zenon, <1>7, WorkerCases DEF loop
  <2>2. ASSUME ~stop, NEW v \in WorkerIds, worker[v] # "ended"  PROVE worker'[v] # "ended"
    <3>1. CASE Takes(w)
      <4>1. Head(queue[w]) \in Jobs  BY Zenon, <3>1, Popped DEF Takes, Types, UdpTypes
      <4>2. worker'[v] = worker[v] \/ worker'[v] \in Jobs  BY Zenon, <3>1, <4>1 DEF Takes, Types, UdpTypes
      <4> QED  BY Zenon, <2>2, <4>2 DEF StubConstants
    <3>2. CASE Stops(w)  BY Zenon, <2>2, <3>2 DEF Stops, Running
    <3>3. CASE Replies(w)  BY Zenon, <2>2, <3>3 DEF Replies, Types, UdpTypes
    <3> QED  BY Zenon, <1>7, <3>1, <3>2, <3>3, WorkerCases
  <2> QED  BY Zenon, <2>1, <2>2 DEF Running, ListenersSurviveOverload
<1>8. CASE UNCHANGED vars
  BY Zenon, <1>8 DEF Running, ListenersSurviveOverload, vars, udp, loop
<1> QED  BY Zenon, <1>1, <1>2, <1>3, <1>4, <1>5, <1>6, <1>7, <1>8, NextKinds DEF UdpStep, ListenerStep

(* Overload ends no listener: until a stop is requested every bound        *)
(* endpoint keeps its thread, however the queues fill and drain.           *)
THEOREM OverloadEndsNoListener == ASSUME StubConstants PROVE Spec => []ListenersSurviveOverload
<1>1. Init => Types /\ Running
  <2> SUFFICES ASSUME Init PROVE Types /\ Running  OBVIOUS
  <2>1. Types  BY InitTypes
  <2>2. main = "bind" /\ bound = {}  BY DEF Init
  <2> QED  BY <2>1, <2>2 DEF Running, ListenersSurviveOverload
<1>2. Types /\ Running /\ [Next]_vars => (Types /\ Running)'  BY Zenon, TypesKept, RunningKept
<1>3. Running => ListenersSurviveOverload  BY DEF Running
<1> QED  BY <1>1, <1>2, <1>3, PTL DEF Spec

(***************************************************************************)
(* Datagrams.  A datagram is nowhere, or in exactly one of the hands that  *)
(* Holders counts.                                                         *)
(***************************************************************************)
Held(j) == fate[j] = "held"
Lists(e, j) == listener[e].at = "dispatch" /\ listener[e].job = j
Queued(w, i, j) == i \in 1 .. Len(queue[w]) /\ queue[w][i] = j
Works(w, j) == worker[w] = j

Nowhere(j) ==
    /\ ~Held(j)
    /\ \A e \in Endpoints : ~Lists(e, j)
    /\ \A w \in WorkerIds : \A i \in Nat : ~Queued(w, i, j)
    /\ \A w \in WorkerIds : ~Works(w, j)
AtListener(e, j) ==
    /\ Held(j)
    /\ \A f \in Endpoints : Lists(f, j) <=> f = e
    /\ \A w \in WorkerIds : \A i \in Nat : ~Queued(w, i, j)
    /\ \A w \in WorkerIds : ~Works(w, j)
InQueue(w, i, j) ==
    /\ Held(j)
    /\ \A e \in Endpoints : ~Lists(e, j)
    /\ \A v \in WorkerIds : \A k \in Nat : Queued(v, k, j) <=> v = w /\ k = i
    /\ \A v \in WorkerIds : ~Works(v, j)
AtWorker(w, j) ==
    /\ Held(j)
    /\ \A e \in Endpoints : ~Lists(e, j)
    /\ \A v \in WorkerIds : \A i \in Nat : ~Queued(v, i, j)
    /\ \A v \in WorkerIds : Works(v, j) <=> v = w
Place(j) ==
    \/ Nowhere(j)
    \/ \E e \in Endpoints : AtListener(e, j)
    \/ \E w \in WorkerIds : \E i \in Nat : InQueue(w, i, j)
    \/ \E w \in WorkerIds : AtWorker(w, j)

(* The threads have not begun before run_stub has bound.                   *)
Placed ==
    /\ \A j \in Jobs : Place(j)
    /\ main = "bind" => /\ \A e \in Endpoints : listener[e] = Ended
                        /\ \A w \in WorkerIds : worker[w] = "ended"

(* Whoever has a datagram is its only holder.                              *)
LEMMA OnlyHolder ==
    ASSUME NEW j, Place(j)
    PROVE  /\ \A e \in Endpoints : Lists(e, j) => AtListener(e, j)
           /\ \A w \in WorkerIds : \A i \in Nat : Queued(w, i, j) => InQueue(w, i, j)
           /\ \A w \in WorkerIds : Works(w, j) => AtWorker(w, j)
           /\ ~Held(j) => Nowhere(j)
<1>1. CASE Nowhere(j)  BY Zenon, <1>1 DEF Nowhere
<1>2. ASSUME NEW e \in Endpoints, AtListener(e, j)
      PROVE  /\ Held(j)
             /\ \A f \in Endpoints : Lists(f, j) => f = e
             /\ \A w \in WorkerIds : \A i \in Nat : ~Queued(w, i, j)
             /\ \A w \in WorkerIds : ~Works(w, j)
  BY Zenon, <1>2 DEF AtListener
<1>3. ASSUME NEW w \in WorkerIds, NEW i \in Nat, InQueue(w, i, j)
      PROVE  /\ Held(j)
             /\ \A e \in Endpoints : ~Lists(e, j)
             /\ \A v \in WorkerIds : \A k \in Nat : Queued(v, k, j) => v = w /\ k = i
             /\ \A v \in WorkerIds : ~Works(v, j)
  BY Zenon, <1>3 DEF InQueue
<1>4. ASSUME NEW w \in WorkerIds, AtWorker(w, j)
      PROVE  /\ Held(j)
             /\ \A e \in Endpoints : ~Lists(e, j)
             /\ \A v \in WorkerIds : \A i \in Nat : ~Queued(v, i, j)
             /\ \A v \in WorkerIds : Works(v, j) => v = w
  BY Zenon, <1>4 DEF AtWorker
<1> QED  BY Zenon, <1>1, <1>2, <1>3, <1>4 DEF Place

(* A step that moves no holder of j and leaves whether it is held.         *)
Unmoved(j) ==
    /\ Held(j)' <=> Held(j)
    /\ \A e \in Endpoints : Lists(e, j)' <=> Lists(e, j)
    /\ \A w \in WorkerIds : \A i \in Nat : Queued(w, i, j)' <=> Queued(w, i, j)
    /\ \A w \in WorkerIds : Works(w, j)' <=> Works(w, j)
(* Then j stays where it is.                                               *)
LEMMA UnmovedStays == ASSUME NEW j, Place(j), Unmoved(j) PROVE Place(j)'
<1>1. CASE Nowhere(j)
  <2>1. Nowhere(j)'  BY Zenon, <1>1 DEF Unmoved, Nowhere
  <2> QED  BY Zenon, <2>1 DEF Place
<1>2. ASSUME NEW e \in Endpoints, AtListener(e, j)  PROVE Place(j)'
  <2>1. AtListener(e, j)'  BY Zenon, <1>2 DEF Unmoved, AtListener
  <2> QED  BY Zenon, <2>1 DEF Place
<1>3. ASSUME NEW w \in WorkerIds, NEW i \in Nat, InQueue(w, i, j)  PROVE Place(j)'
  <2>1. InQueue(w, i, j)'  BY Zenon, <1>3 DEF Unmoved, InQueue
  <2> QED  BY Zenon, <2>1 DEF Place
<1>4. ASSUME NEW w \in WorkerIds, AtWorker(w, j)  PROVE Place(j)'
  <2>1. AtWorker(w, j)'  BY Zenon, <1>4 DEF Unmoved, AtWorker
  <2> QED  BY Zenon, <2>1 DEF Place
<1> QED  BY Zenon, <1>1, <1>2, <1>3, <1>4 DEF Place

(* Which datagrams the listeners have after one of them moves.             *)
LEMMA ListenerMoves ==
    ASSUME Types, NEW e \in Endpoints, NEW x, listener' = [listener EXCEPT ![e] = x], NEW j
    PROVE  /\ \A f \in Endpoints : f # e => (Lists(f, j)' <=> Lists(f, j))
           /\ Lists(e, j)' <=> x.at = "dispatch" /\ x.job = j
BY Zenon DEF Types, UdpTypes, Lists

(* The same when a worker moves.                                           *)
LEMMA WorkerMoves ==
    ASSUME Types, NEW w \in WorkerIds, NEW x, worker' = [worker EXCEPT ![w] = x], NEW j
    PROVE  /\ \A v \in WorkerIds : v # w => (Works(v, j)' <=> Works(v, j))
           /\ Works(w, j)' <=> x = j
BY Zenon DEF Types, UdpTypes, Works

(* And when a queue changes.                                               *)
LEMMA QueueMoves ==
    ASSUME Types, NEW w \in WorkerIds, NEW x, queue' = [queue EXCEPT ![w] = x], NEW j
    PROVE  /\ \A v \in WorkerIds : v # w => \A i \in Nat : Queued(v, i, j)' <=> Queued(v, i, j)
           /\ \A i \in Nat : Queued(w, i, j)' <=> (i \in 1 .. Len(x) /\ x[i] = j)
BY Zenon DEF Types, UdpTypes, Queued

(* What a listener that goes on or ends has: nothing.                      *)
LEMMA AfterDispatchHas == \A c, j : ~(AfterDispatch(c).at = "dispatch" /\ AfterDispatch(c).job = j)
BY Zenon, AfterDispatchIs, ListenerKinds

(* A datagram that is received comes from a socket to the listener.        *)
LEMMA ReceivePlaces ==
    ASSUME StubConstants, Types, Placed, NEW e \in Endpoints, NEW j \in Jobs, Receive(e, j), NEW k \in Jobs
    PROVE  Place(k)'
<1> DEFINE d == Dispatching(j, next, 0, FALSE)
<1>1. /\ listener[e] = Receiving /\ fate[j] = "socket" /\ listener' = [listener EXCEPT ![e] = d]
      /\ fate' = [fate EXCEPT ![j] = "held"] /\ UNCHANGED <<queue, worker>>
  BY Zenon DEF Receive
<1>2. d.at = "dispatch" /\ d.job = j
  BY DEF Dispatching
<1> HIDE DEF d
<1>3. Place(k)  BY Zenon DEF Placed
<1>4. ~Lists(e, k)  BY Zenon, <1>1, ListenerKinds DEF Lists
<1>5. /\ \A w \in WorkerIds : \A i \in Nat : Queued(w, i, k)' <=> Queued(w, i, k)
      /\ \A w \in WorkerIds : Works(w, k)' <=> Works(w, k)
  BY Zenon, <1>1 DEF Queued, Works
<1>6. /\ \A f \in Endpoints : f # e => (Lists(f, k)' <=> Lists(f, k))
      /\ Lists(e, k)' <=> j = k
  BY Zenon, <1>1, <1>2, ListenerMoves
<1>7. CASE k = j
  <2>1. Nowhere(j)  BY Zenon, <1>1, <1>3, <1>7, OnlyHolder DEF Held
  <2>2. Held(j)'  BY Zenon, <1>1 DEF Held, Types, UdpTypes
  <2>3. AtListener(e, j)'  BY Zenon, <1>5, <1>6, <1>7, <2>1, <2>2 DEF Nowhere, AtListener
  <2> QED  BY Zenon, <1>7, <2>3 DEF Place
<1>8. CASE k # j
  <2>1. Held(k)' <=> Held(k)  BY Zenon, <1>1, <1>8 DEF Held, Types, UdpTypes
  <2>2. Unmoved(k)  BY Zenon, <1>4, <1>5, <1>6, <1>8, <2>1 DEF Unmoved
  <2> QED  BY Zenon, <1>3, <2>2, UnmovedStays
<1> QED  BY Zenon, <1>7, <1>8

(* A dispatch moves its datagram to the end of a queue, keeps it, or drops *)
(* it.                                                                     *)
LEMMA DispatchPlaces ==
    ASSUME StubConstants, Types, Placed, NEW e \in Endpoints, try_send(e), NEW k \in Jobs
    PROVE  Place(k)'
<1> DEFINE j == listener[e].job
<1>1. listener[e] \in Dispatches /\ worker' = worker  BY Zenon, TrySendCases
<1>2. PICK w \in WorkerIds, c \in BOOLEAN : Delivers(e, w) \/ Passes(e, w, c) \/ Drops(e, w, c)
  BY Zenon, TrySendCases
<1>3. j \in Jobs /\ listener[e].start \in WorkerIds /\ (Lists(e, k) <=> j = k)
  BY Zenon, <1>1, ListenerKinds DEF Lists
<1> HIDE DEF j
<1>4. Place(k)  BY Zenon DEF Placed
<1>5. k = j => AtListener(e, k)  BY Zenon, <1>3, <1>4, OnlyHolder
<1>6. \A v \in WorkerIds : Works(v, k)' <=> Works(v, k)  BY Zenon, <1>1 DEF Works
<1>7. CASE Delivers(e, w)
  <2>1. /\ listener' = [listener EXCEPT ![e] = AfterDispatch(TRUE)] /\ fate' = fate
        /\ queue' = [queue EXCEPT ![w] = Append(queue[w], j)]
    BY Zenon, <1>7 DEF Delivers, j
  <2>2. /\ \A f \in Endpoints : f # e => (Lists(f, k)' <=> Lists(f, k))
        /\ ~Lists(e, k)'
    BY ZenonT(60), <2>1, ListenerMoves, AfterDispatchHas
  <2>3. Held(k)' <=> Held(k)  BY Zenon, <2>1 DEF Held
  <2>4. /\ \A v \in WorkerIds : v # w => \A i \in Nat : Queued(v, i, k)' <=> Queued(v, i, k)
        /\ \A i \in Nat : Queued(w, i, k)' <=> (i \in 1 .. Len(Append(queue[w], j)) /\ Append(queue[w], j)[i] = k)
    BY Zenon, <2>1, QueueMoves
  <2>5. queue[w] \in Seq(Jobs)  BY Zenon DEF Types, UdpTypes
  <2>6. PICK n \in Nat : n = Len(queue[w]) + 1  BY <2>5
  <2>7. \A i \in Nat : (i \in 1 .. Len(Append(queue[w], j)) /\ Append(queue[w], j)[i] = k)
                          <=> Queued(w, i, k) \/ (i = n /\ j = k)
    BY SMT, <1>3, <2>5, <2>6, Appended DEF Queued
  <2>8. CASE k = j
    <3>1. InQueue(w, n, k)'
      BY Zenon, <1>5, <1>6, <2>2, <2>3, <2>4, <2>7, <2>8 DEF AtListener, InQueue
    <3> QED  BY Zenon, <3>1 DEF Place
  <2>9. CASE k # j
    <3>1. Unmoved(k)  BY Zenon, <1>3, <1>6, <2>2, <2>3, <2>4, <2>7, <2>9 DEF Unmoved
    <3> QED  BY Zenon, <1>4, <3>1, UnmovedStays
  <2> QED  BY Zenon, <2>8, <2>9
<1>8. CASE Passes(e, w, c)
  <2> DEFINE d == Dispatching(j, listener[e].start, listener[e].offset + 1, c)
  <2>1. /\ listener' = [listener EXCEPT ![e] = d] /\ UNCHANGED <<queue, fate>>
        /\ listener[e].offset + 1 \in WorkerIds
    BY Zenon, <1>8 DEF Passes, j
  <2>2. d.at = "dispatch" /\ d.job = j  BY <1>3, <2>1, DispatchFields
  <2> HIDE DEF d
  <2>3. /\ \A f \in Endpoints : f # e => (Lists(f, k)' <=> Lists(f, k))
        /\ Lists(e, k)' <=> j = k
    BY Zenon, <2>1, <2>2, ListenerMoves
  <2>4. Unmoved(k)  BY Zenon, <1>3, <1>6, <2>1, <2>3 DEF Unmoved, Held, Queued
  <2> QED  BY Zenon, <1>4, <2>4, UnmovedStays
<1>9. CASE Drops(e, w, c)
  <2>1. /\ listener' = [listener EXCEPT ![e] = AfterDispatch(c)] /\ queue' = queue
        /\ fate' = [fate EXCEPT ![j] = "dropped"]
    BY Zenon, <1>9 DEF Drops, j
  <2>2. /\ \A f \in Endpoints : f # e => (Lists(f, k)' <=> Lists(f, k))
        /\ ~Lists(e, k)'
    BY ZenonT(60), <2>1, ListenerMoves, AfterDispatchHas
  <2>3. \A v \in WorkerIds : \A i \in Nat : Queued(v, i, k)' <=> Queued(v, i, k)  BY Zenon, <2>1 DEF Queued
  <2>4. CASE k = j
    <3>1. ~Held(k)'  BY Zenon, <1>3, <2>1, <2>4 DEF Held, Types, UdpTypes
    <3>2. Nowhere(k)'  BY Zenon, <1>5, <1>6, <2>2, <2>3, <2>4, <3>1 DEF AtListener, Nowhere
    <3> QED  BY Zenon, <3>2 DEF Place
  <2>5. CASE k # j
    <3>1. Held(k)' <=> Held(k)  BY Zenon, <2>1, <2>5 DEF Held, Types, UdpTypes
    <3>2. Unmoved(k)  BY Zenon, <1>3, <1>6, <2>2, <2>3, <2>5, <3>1 DEF Unmoved
    <3> QED  BY Zenon, <1>4, <3>2, UnmovedStays
  <2> QED  BY Zenon, <2>4, <2>5
<1> QED  BY Zenon, <1>2, <1>7, <1>8, <1>9

(* A worker takes the head of its queue: the datagrams behind it move up.  *)
LEMMA TakePlaces ==
    ASSUME StubConstants, Types, Placed, NEW w \in WorkerIds, Takes(w), listener' = listener, NEW k \in Jobs
    PROVE  Place(k)'
<1> DEFINE s == queue[w]
<1>1. /\ worker[w] = "idle" /\ worker' = [worker EXCEPT ![w] = Head(s)]
      /\ queue' = [queue EXCEPT ![w] = Tail(s)] /\ fate' = fate
      /\ s \in Seq(Jobs) /\ s # <<>>
  BY Zenon DEF Takes, Types, UdpTypes
<1>2. /\ Len(Tail(s)) = Len(s) - 1 /\ Len(s) \in Nat /\ Len(s) >= 1 /\ Head(s) = s[1]
      /\ \A i \in 1 .. Len(s) - 1 : Tail(s)[i] = s[i + 1]
  BY Zenon, <1>1, Popped
<1>3. Queued(w, 1, k) <=> Head(s) = k  BY SMT, <1>2 DEF Queued
<1>4. \A i \in Nat : (i \in 1 .. Len(Tail(s)) /\ Tail(s)[i] = k) <=> i \in 1 .. Len(s) - 1 /\ Queued(w, i + 1, k)
  BY SMT, <1>2 DEF Queued
<1>5. /\ \A v \in WorkerIds : v # w => \A i \in Nat : Queued(v, i, k)' <=> Queued(v, i, k)
      /\ \A i \in Nat : Queued(w, i, k)' <=> i \in 1 .. Len(s) - 1 /\ Queued(w, i + 1, k)
  <2>1. /\ \A v \in WorkerIds : v # w => \A i \in Nat : Queued(v, i, k)' <=> Queued(v, i, k)
        /\ \A i \in Nat : Queued(w, i, k)' <=> (i \in 1 .. Len(Tail(s)) /\ Tail(s)[i] = k)
    BY ZenonT(60), <1>1, QueueMoves
  <2> QED  BY Zenon, <1>4, <2>1
<1>6. /\ \A v \in WorkerIds : v # w => (Works(v, k)' <=> Works(v, k))
      /\ Works(w, k)' <=> Head(s) = k
  BY Zenon, <1>1, WorkerMoves
<1>7. ~Works(w, k)  BY Zenon, <1>1 DEF Works, StubConstants
<1>8. (Held(k)' <=> Held(k)) /\ \A e \in Endpoints : Lists(e, k)' <=> Lists(e, k)
  BY Zenon, <1>1 DEF Held, Lists
<1>9. Place(k)  BY Zenon DEF Placed
<1>10. ASSUME NEW i \in Nat, Queued(w, i, k)
       PROVE  InQueue(w, i, k) /\ i \in 1 .. Len(s)
  <2>1. i \in 1 .. Len(s)  BY Zenon, <1>10 DEF Queued
  <2> QED  BY Zenon, <1>9, <1>10, <2>1, OnlyHolder
<1> HIDE DEF s
<1>11. CASE Head(s) = k
  <2>1. InQueue(w, 1, k)
    <3>1. Queued(w, 1, k) /\ 1 \in Nat  BY <1>3, <1>11
    <3> QED  BY Zenon, <1>10, <3>1
  <2>2. \A i \in Nat : ~Queued(w, i, k)'
    <3> SUFFICES ASSUME NEW i \in Nat, Queued(w, i, k)'  PROVE FALSE  OBVIOUS
    <3>1. i \in 1 .. Len(s) - 1 /\ Queued(w, i + 1, k)  BY Zenon, <1>5
    <3>2. i + 1 \in Nat /\ i + 1 # 1  BY SMT, <3>1
    <3> QED  BY Zenon, <2>1, <3>1, <3>2 DEF InQueue
  <2>3. \A v \in WorkerIds : \A i \in Nat : ~Queued(v, i, k)'
    BY Zenon, <1>5, <2>1, <2>2 DEF InQueue
  <2>4. AtWorker(w, k)'  BY Zenon, <1>6, <1>8, <1>11, <2>1, <2>3 DEF InQueue, AtWorker
  <2> QED  BY Zenon, <2>4 DEF Place
<1>12. CASE Head(s) # k /\ \E i \in Nat : Queued(w, i, k)
  <2>1. PICK i \in Nat : Queued(w, i, k)  BY Zenon, <1>12
  <2>2. InQueue(w, i, k) /\ i \in 1 .. Len(s)  BY Zenon, <1>10, <2>1
  <2>3. i # 1  BY Zenon, <1>3, <1>12, <2>1
  <2>4. PICK n \in Nat : n + 1 = i /\ n \in 1 .. Len(s) - 1  BY SMT, <1>2, <2>2, <2>3
  <2>5. \A m \in Nat : Queued(w, m, k)' <=> m = n
    <3> SUFFICES ASSUME NEW m \in Nat  PROVE Queued(w, m, k)' <=> m = n  OBVIOUS
    <3>1. m + 1 \in Nat /\ (m + 1 = i <=> m = n)  BY SMT, <2>4
    <3>2. Queued(w, m + 1, k) <=> m = n  BY Zenon, <2>2, <3>1 DEF InQueue
    <3> QED  BY Zenon, <1>5, <2>4, <3>2
  <2>6. \A v \in WorkerIds : \A m \in Nat : Queued(v, m, k)' <=> v = w /\ m = n
    <3> SUFFICES ASSUME NEW v \in WorkerIds, NEW m \in Nat  PROVE Queued(v, m, k)' <=> v = w /\ m = n  OBVIOUS
    <3>1. CASE v = w  BY Zenon, <2>5, <3>1
    <3>2. CASE v # w
      <4>1. Queued(v, m, k)' <=> Queued(v, m, k)  BY Zenon, <1>5, <3>2
      <4>2. ~Queued(v, m, k)  BY Zenon, <2>2, <3>2 DEF InQueue
      <4> QED  BY Zenon, <3>2, <4>1, <4>2
    <3> QED  BY Zenon, <3>1, <3>2
  <2>7. \A v \in WorkerIds : ~Works(v, k)'
    BY Zenon, <1>6, <1>12, <2>2 DEF InQueue
  <2>8. InQueue(w, n, k)'
    BY Zenon, <1>8, <2>2, <2>6, <2>7 DEF InQueue
  <2> QED  BY Zenon, <2>8 DEF Place
<1>13. CASE Head(s) # k /\ \A i \in Nat : ~Queued(w, i, k)
  <2>1. \A i \in Nat : ~Queued(w, i, k)'
    <3> SUFFICES ASSUME NEW i \in Nat, Queued(w, i, k)'  PROVE FALSE  OBVIOUS
    <3>1. Queued(w, i + 1, k)  BY Zenon, <1>5
    <3>2. i + 1 \in Nat  BY SMT
    <3> QED  BY Zenon, <1>13, <3>1, <3>2
  <2>2. \A v \in WorkerIds : \A i \in Nat : Queued(v, i, k)' <=> Queued(v, i, k)
    <3> SUFFICES ASSUME NEW v \in WorkerIds, NEW m \in Nat  PROVE Queued(v, m, k)' <=> Queued(v, m, k)  OBVIOUS
    <3>1. CASE v = w  BY Zenon, <1>13, <2>1, <3>1
    <3>2. CASE v # w  BY Zenon, <1>5, <3>2
    <3> QED  BY Zenon, <3>1, <3>2
  <2>3. \A v \in WorkerIds : Works(v, k)' <=> Works(v, k)
    BY Zenon, <1>6, <1>7, <1>13
  <2>4. Unmoved(k)  BY Zenon, <1>8, <2>2, <2>3 DEF Unmoved
  <2> QED  BY Zenon, <1>9, <2>4, UnmovedStays
<1> QED  BY Zenon, <1>11, <1>12, <1>13

(* A worker that ends drops what its queue holds.                          *)
LEMMA StopPlaces ==
    ASSUME StubConstants, Types, Placed, NEW w \in WorkerIds, Stops(w), listener' = listener, NEW k \in Jobs
    PROVE  Place(k)'
<1>1. /\ worker[w] = "idle" /\ worker' = [worker EXCEPT ![w] = "ended"]
      /\ queue' = [queue EXCEPT ![w] = <<>>]
      /\ fate' = [j \in Jobs |-> IF \E i \in DOMAIN queue[w] : queue[w][i] = j THEN "dropped" ELSE fate[j]]
      /\ queue[w] \in Seq(Jobs)
  BY Zenon DEF Stops, WorkerEnds, Types, UdpTypes
<1>2. (\E i \in DOMAIN queue[w] : queue[w][i] = k) <=> \E i \in Nat : Queued(w, i, k)
  BY SMT, <1>1 DEF Queued
<1>3. /\ \A v \in WorkerIds : v # w => \A i \in Nat : Queued(v, i, k)' <=> Queued(v, i, k)
      /\ \A i \in Nat : ~Queued(w, i, k)'
  <2>1. /\ \A v \in WorkerIds : v # w => \A i \in Nat : Queued(v, i, k)' <=> Queued(v, i, k)
        /\ \A i \in Nat : Queued(w, i, k)' <=> (i \in 1 .. Len(<< >>) /\ << >>[i] = k)
    BY Zenon, <1>1, QueueMoves
  <2>2. \A i \in Nat : i \notin 1 .. Len(<< >>)  BY SMT
  <2> QED  BY Zenon, <2>1, <2>2
<1>4. \A v \in WorkerIds : Works(v, k)' <=> Works(v, k)
  <2>1. /\ \A v \in WorkerIds : v # w => (Works(v, k)' <=> Works(v, k))
        /\ Works(w, k)' <=> "ended" = k
    BY Zenon, <1>1, WorkerMoves
  <2>2. "ended" # k /\ ~Works(w, k)  BY Zenon, <1>1 DEF Works, StubConstants
  <2> QED  BY Zenon, <2>1, <2>2
<1>5. \A e \in Endpoints : Lists(e, k)' <=> Lists(e, k)  BY Zenon DEF Lists
<1>6. Place(k)  BY Zenon DEF Placed
<1>7. CASE \E i \in Nat : Queued(w, i, k)
  <2>1. PICK i \in Nat : InQueue(w, i, k)  BY Zenon, <1>6, <1>7, OnlyHolder
  <2>2. ~Held(k)'  BY Zenon, <1>1, <1>2, <1>7 DEF Held
  <2>3. Nowhere(k)'  BY Zenon, <1>3, <1>4, <1>5, <2>1, <2>2 DEF InQueue, Nowhere
  <2> QED  BY Zenon, <2>3 DEF Place
<1>8. CASE ~\E i \in Nat : Queued(w, i, k)
  <2>1. Held(k)' <=> Held(k)  BY Zenon, <1>1, <1>2, <1>8 DEF Held
  <2>2. Unmoved(k)  BY Zenon, <1>3, <1>4, <1>5, <1>8, <2>1 DEF Unmoved
  <2> QED  BY Zenon, <1>6, <2>2, UnmovedStays
<1> QED  BY Zenon, <1>7, <1>8

(* A worker that replies lets go of its datagram.                          *)
LEMMA ReplyPlaces ==
    ASSUME StubConstants, Types, Placed, NEW w \in WorkerIds, Replies(w), listener' = listener, NEW k \in Jobs
    PROVE  Place(k)'
<1>1. /\ worker[w] \in Jobs /\ worker' = [worker EXCEPT ![w] = "idle"] /\ queue' = queue
      /\ \E x \in {"answered", "rejected"} : fate' = [fate EXCEPT ![worker[w]] = x]
  BY Zenon DEF Replies
<1>2. /\ \A v \in WorkerIds : v # w => (Works(v, k)' <=> Works(v, k))
      /\ ~Works(w, k)'
  BY Zenon, <1>1, WorkerMoves DEF StubConstants
<1>3. /\ \A e \in Endpoints : Lists(e, k)' <=> Lists(e, k)
      /\ \A v \in WorkerIds : \A i \in Nat : Queued(v, i, k)' <=> Queued(v, i, k)
  BY Zenon, <1>1 DEF Lists, Queued
<1>4. Place(k)  BY Zenon DEF Placed
<1>5. CASE worker[w] = k
  <2>1. AtWorker(w, k)  BY Zenon, <1>4, <1>5, OnlyHolder DEF Works
  <2>2. ~Held(k)'  BY Zenon, <1>1, <1>5 DEF Held, Types, UdpTypes
  <2>3. Nowhere(k)'  BY Zenon, <1>2, <1>3, <2>1, <2>2 DEF AtWorker, Nowhere
  <2> QED  BY Zenon, <2>3 DEF Place
<1>6. CASE worker[w] # k
  <2>1. Held(k)' <=> Held(k)  BY Zenon, <1>1, <1>6 DEF Held, Types, UdpTypes
  <2>2. ~Works(w, k)  BY Zenon, <1>6 DEF Works
  <2>3. Unmoved(k)  BY Zenon, <1>2, <1>3, <2>1, <2>2 DEF Unmoved
  <2> QED  BY Zenon, <1>4, <2>3, UnmovedStays
<1> QED  BY Zenon, <1>5, <1>6

(* Every step keeps each datagram in one place at most, and the datagrams  *)
(* that are held in one.                                                   *)
LEMMA PlacedKept == ASSUME StubConstants, Types, Placed, [Next]_vars PROVE Placed'
<1>1. ASSUME UNCHANGED udp, NEW k \in Jobs  PROVE Place(k)'
  <2>1. Unmoved(k)  BY Zenon, <1>1 DEF Unmoved, Held, Lists, Queued, Works, udp
  <2> QED  BY Zenon, <2>1, UnmovedStays DEF Placed
<1>2. ASSUME main' = "bind", main # "bind"  PROVE FALSE
  <2>1. ~UNCHANGED vars  BY Zenon, <1>2 DEF vars, loop
  <2>2. Next  BY Zenon, <2>1
  <2>3. ASSUME NEW e \in Endpoints, try_send(e)  PROVE main' = main  BY Zenon, <2>3, TrySendCases DEF loop
  <2>4. ASSUME NEW w \in WorkerIds, WorkerStep(w)  PROVE main' = main  BY Zenon, <2>4, WorkerCases DEF loop
  <2>5. ~LoopStep
    BY Zenon, <1>2 DEF LoopStep, CheckStop, TakeReload, ClearReload, Sleep, LeaveStub, JoinServers, Hangup, Terminate,
                       ServerFails, ServerBlocks, ServerEnds, Connect, Accept, ServeQuery, CloseClient, loop
  <2>6. ~UdpStep
    BY Zenon, <1>2, <2>3, <2>4 DEF UdpStep, ListenerStep, run_stub, Send, Receive, ListenerStops, loop
  <2> QED  BY Zenon, <2>2, <2>5, <2>6, NextKinds
<1>3. CASE UNCHANGED udp
  BY Zenon, <1>1, <1>2, <1>3 DEF Placed, udp
<1>4. ASSUME NEW inUse, NEW broken, run_stub(inUse, broken)  PROVE Placed'
  <2>1. /\ main' # "bind" /\ queue' = queue /\ fate' = fate
        /\ \A e \in Endpoints : listener[e] = Ended /\ listener'[e] \in {Receiving, Ended}
        /\ \A w \in WorkerIds : worker[w] = "ended" /\ worker'[w] \in {"idle", "ended"}
    BY Zenon, <1>4 DEF run_stub, Placed
  <2>2. ASSUME NEW k \in Jobs  PROVE Unmoved(k)
    <3>1. \A e \in Endpoints : ~Lists(e, k) /\ ~Lists(e, k)'  BY Zenon, <2>1, ListenerKinds DEF Lists
    <3>2. \A w \in WorkerIds : ~Works(w, k) /\ ~Works(w, k)'  BY Zenon, <2>1 DEF Works, StubConstants
    <3>3. Held(k)' <=> Held(k)  BY Zenon, <2>1 DEF Held
    <3>4. \A w \in WorkerIds : \A i \in Nat : Queued(w, i, k)' <=> Queued(w, i, k)  BY Zenon, <2>1 DEF Queued
    <3> QED  BY Zenon, <3>1, <3>2, <3>3, <3>4 DEF Unmoved
  <2> QED  BY Zenon, <2>1, <2>2, UnmovedStays DEF Placed
<1>5. ASSUME NEW j \in Jobs, Send(j)  PROVE Placed'
  <2>1. /\ fate[j] = "unsent" /\ fate' = [fate EXCEPT ![j] = "socket"]
        /\ UNCHANGED <<main, listener, queue, worker>>
    BY Zenon, <1>5 DEF Send, loop
  <2>2. ASSUME NEW k \in Jobs  PROVE Unmoved(k)
    <3>1. Held(k)' <=> Held(k)  BY Zenon, <2>1 DEF Held, Types, UdpTypes
    <3> QED  BY Zenon, <2>1, <3>1 DEF Unmoved, Lists, Queued, Works
  <2> QED  BY Zenon, <2>1, <2>2, UnmovedStays DEF Placed
<1>6. ASSUME NEW e \in Endpoints, NEW j \in Jobs, Receive(e, j)  PROVE Placed'
  <2>1. main # "bind"  BY Zenon, <1>6, ListenerKinds DEF Placed, Receive
  <2> QED  BY Zenon, <1>2, <1>6, <2>1, ReceivePlaces DEF Placed
<1>7. ASSUME NEW e \in Endpoints, try_send(e)  PROVE Placed'
  <2>1. main # "bind"  BY Zenon, <1>7, ListenerKinds DEF Placed, try_send
  <2> QED  BY Zenon, <1>2, <1>7, <2>1, DispatchPlaces DEF Placed
<1>8. ASSUME NEW e \in Endpoints, ListenerStops(e)  PROVE Placed'
  <2>1. /\ listener[e] = Receiving /\ listener' = [listener EXCEPT ![e] = Ended]
        /\ UNCHANGED <<main, fate, queue, worker>>
    BY Zenon, <1>8 DEF ListenerStops, loop
  <2>2. main # "bind"  BY Zenon, <2>1, ListenerKinds DEF Placed
  <2>3. ASSUME NEW k \in Jobs  PROVE Unmoved(k)
    <3>1. ~Lists(e, k)  BY Zenon, <2>1, ListenerKinds DEF Lists
    <3>2. /\ \A f \in Endpoints : f # e => (Lists(f, k)' <=> Lists(f, k))
          /\ ~Lists(e, k)'
      BY Zenon, <2>1, ListenerMoves, ListenerKinds
    <3>3. \A f \in Endpoints : Lists(f, k)' <=> Lists(f, k)  BY Zenon, <3>1, <3>2
    <3> QED  BY Zenon, <2>1, <3>3 DEF Unmoved, Held, Queued, Works
  <2> QED  BY Zenon, <1>2, <2>2, <2>3, UnmovedStays DEF Placed
<1>9. ASSUME NEW w \in WorkerIds, WorkerStep(w)  PROVE Placed'
  <2>1. listener' = listener /\ (Takes(w) \/ Stops(w) \/ Replies(w))  BY Zenon, <1>9, WorkerCases
  <2>2. worker[w] # "ended"
    <3>1. worker[w] = "idle" \/ worker[w] \in Jobs  BY Zenon, <2>1 DEF Takes, Stops, Replies
    <3> QED  BY Zenon, <3>1 DEF StubConstants
  <2>3. main # "bind"  BY Zenon, <2>2 DEF Placed
  <2>4. \A k \in Jobs : Place(k)'  BY Zenon, <2>1, TakePlaces, StopPlaces, ReplyPlaces
  <2> QED  BY Zenon, <1>2, <2>3, <2>4 DEF Placed
<1>10. UNCHANGED vars => UNCHANGED udp  BY Zenon DEF vars
<1> QED
  BY Zenon, <1>3, <1>4, <1>5, <1>6, <1>7, <1>8, <1>9, <1>10, NextKinds, LoopLeaves DEF UdpStep, ListenerStep

(* Holders(j) has as many members as the place of j says.                  *)
LEMMA PlacesCount ==
    ASSUME Types, NEW j \in Jobs, Place(j)
    PROVE  Cardinality(Holders(j)) = IF fate[j] = "held" THEN 1 ELSE 0
<1> DEFINE L == WithListeners(j)
           Q == InQueues(j)
           W == WithWorkers(j)
<1>1. Holders(j) = L \cup Q \cup W  BY Zenon DEF Holders
<1>2. \A h : h \in L <=> \E e \in Endpoints : Lists(e, j) /\ h = <<"listener", e>>
  BY Zenon DEF Lists, WithListeners
<1>3. \A h : h \in Q <=> \E w \in WorkerIds : \E i \in Nat : Queued(w, i, j) /\ h = <<"queue", w, i>>
  <2>1. \A w \in WorkerIds : DOMAIN queue[w] = 1 .. Len(queue[w]) /\ DOMAIN queue[w] \subseteq Nat
    <3> SUFFICES ASSUME NEW w \in WorkerIds
                 PROVE  DOMAIN queue[w] = 1 .. Len(queue[w]) /\ DOMAIN queue[w] \subseteq Nat
      OBVIOUS
    <3>1. queue[w] \in Seq(Jobs)  BY Zenon DEF Types, UdpTypes
    <3> QED  BY SMT, <3>1
  <2>2. ASSUME NEW w \in WorkerIds, NEW h
        PROVE  h \in InQueueOf(w, j) <=> \E i \in Nat : Queued(w, i, j) /\ h = <<"queue", w, i>>
    BY Zenon, <2>1 DEF Queued, InQueueOf
  <2>3. \A h : h \in Q <=> \E w \in WorkerIds : h \in InQueueOf(w, j)  BY Zenon DEF InQueues
  <2> HIDE DEF Q
  <2> SUFFICES ASSUME NEW h
               PROVE  h \in Q <=> \E w \in WorkerIds : \E i \in Nat : Queued(w, i, j) /\ h = <<"queue", w, i>>
    OBVIOUS
  <2>4. (\E w \in WorkerIds : h \in InQueueOf(w, j))
           <=> \E w \in WorkerIds : \E i \in Nat : Queued(w, i, j) /\ h = <<"queue", w, i>>
    BY ZenonT(60), <2>2
  <2> QED  BY Zenon, <2>3, <2>4
<1>4. \A h : h \in W <=> \E w \in WorkerIds : Works(w, j) /\ h = <<"worker", w>>
  BY Zenon DEF Works, WithWorkers
<1> HIDE DEF L, Q, W
<1>5. CASE Nowhere(j)
  <2>1. Holders(j) = {}  BY Zenon, <1>1, <1>2, <1>3, <1>4, <1>5 DEF Nowhere
  <2> QED  BY Zenon, <1>5, <2>1, FS_EmptySet DEF Nowhere, Held
<1>6. ASSUME NEW h, Holders(j) = {h}, Held(j)  PROVE Cardinality(Holders(j)) = IF fate[j] = "held" THEN 1 ELSE 0
  BY Zenon, <1>6, FS_Singleton DEF Held
<1>7. ASSUME NEW e \in Endpoints, AtListener(e, j)  PROVE Held(j) /\ Holders(j) = {<<"listener", e>>}
  <2>1. /\ Held(j) /\ \A f \in Endpoints : Lists(f, j) <=> f = e
        /\ \A w \in WorkerIds : \A i \in Nat : ~Queued(w, i, j)
        /\ \A w \in WorkerIds : ~Works(w, j)
    BY Zenon, <1>7 DEF AtListener
  <2>2. L = {<<"listener", e>>}  BY Zenon, <1>2, <2>1
  <2>3. Q = {} /\ W = {}  BY Zenon, <1>3, <1>4, <2>1
  <2> QED  BY Zenon, <1>1, <2>1, <2>2, <2>3
<1>8. ASSUME NEW w \in WorkerIds, NEW i \in Nat, InQueue(w, i, j)
      PROVE  Held(j) /\ Holders(j) = {<<"queue", w, i>>}
  <2>1. /\ Held(j) /\ \A e \in Endpoints : ~Lists(e, j)
        /\ \A v \in WorkerIds : \A k \in Nat : Queued(v, k, j) <=> v = w /\ k = i
        /\ \A v \in WorkerIds : ~Works(v, j)
    BY Zenon, <1>8 DEF InQueue
  <2>2. Q = {<<"queue", w, i>>}
    <3>1. Queued(w, i, j)  BY Zenon, <2>1
    <3>2. <<"queue", w, i>> \in Q  BY Zenon, <1>3, <3>1
    <3>3. ASSUME NEW h \in Q  PROVE h = <<"queue", w, i>>
      <4>1. PICK v \in WorkerIds, k \in Nat : Queued(v, k, j) /\ h = <<"queue", v, k>>  BY Zenon, <1>3, <3>3
      <4> QED  BY Zenon, <2>1, <4>1
    <3> QED  BY Zenon, <3>2, <3>3
  <2>3. L = {} /\ W = {}  BY Zenon, <1>2, <1>4, <2>1
  <2> QED  BY Zenon, <1>1, <2>1, <2>2, <2>3
<1>9. ASSUME NEW w \in WorkerIds, AtWorker(w, j)  PROVE Held(j) /\ Holders(j) = {<<"worker", w>>}
  <2>1. /\ Held(j) /\ \A e \in Endpoints : ~Lists(e, j)
        /\ \A v \in WorkerIds : \A i \in Nat : ~Queued(v, i, j)
        /\ \A v \in WorkerIds : Works(v, j) <=> v = w
    BY Zenon, <1>9 DEF AtWorker
  <2>2. W = {<<"worker", w>>}  BY Zenon, <1>4, <2>1
  <2>3. L = {} /\ Q = {}  BY Zenon, <1>2, <1>3, <2>1
  <2> QED  BY Zenon, <1>1, <2>1, <2>2, <2>3
<1> QED  BY Zenon, <1>5, <1>6, <1>7, <1>8, <1>9 DEF Place

(* Before the start no datagram is anywhere.                               *)
LEMMA InitPlaced == ASSUME StubConstants, Init PROVE Placed
<1>1. /\ main = "bind" /\ \A e \in Endpoints : listener[e] = Ended
      /\ \A w \in WorkerIds : worker[w] = "ended" /\ queue[w] = << >>
      /\ \A j \in Jobs : fate[j] = "unsent"
  BY Zenon DEF Init
<1>2. ASSUME NEW j \in Jobs  PROVE Nowhere(j)
  <2>1. \A i \in Nat : i \notin 1 .. Len(<< >>)  BY SMT
  <2> QED  BY Zenon, <1>1, <2>1, ListenerKinds DEF Nowhere, Held, Lists, Queued, Works, StubConstants
<1> QED  BY Zenon, <1>1, <1>2 DEF Placed, Place

(* The invariant that the two theorems below rest on.                      *)
LEMMA PlacedAlways == ASSUME StubConstants PROVE Spec => [](Types /\ Placed)
<1>1. Init => Types /\ Placed  BY Zenon, InitTypes, InitPlaced
<1>2. Types /\ Placed /\ [Next]_vars => (Types /\ Placed)'  BY Zenon, TypesKept, PlacedKept
<1> QED  BY <1>1, <1>2, PTL DEF Spec

(* A datagram that a listener has taken has exactly one holder until it is *)
(* answered, rejected or dropped, and none before and after: dispatch, the *)
(* queues, the workers and the shutdown neither duplicate nor forget it.   *)
THEOREM DatagramsHeldOnce == ASSUME StubConstants PROVE Spec => []EveryDatagramHeldOnce
<1>1. Types /\ Placed => EveryDatagramHeldOnce
  BY Zenon, PlacesCount DEF Placed, EveryDatagramHeldOnce
<1> QED  BY <1>1, PlacedAlways, PTL

(* What has become of a datagram stays so: no second reply is sent, and    *)
(* nothing that was dropped is answered after all.                         *)
Settled == {"answered", "rejected", "dropped"}
FatesAreFinal == [][\A j \in Jobs : fate[j] \in Settled => fate'[j] = fate[j]]_vars
(* No step of a listener, a worker or the main loop changes a fate that is *)
(* settled.                                                                *)
THEOREM SettledDatagramsStay == ASSUME StubConstants PROVE Spec => FatesAreFinal
<1> DEFINE Final == \A j \in Jobs : fate[j] \in Settled => fate'[j] = fate[j]
<1>1. ASSUME Types, Placed, [Next]_vars  PROVE [Final]_vars
  <2> SUFFICES ASSUME Next, NEW j \in Jobs, fate[j] \in Settled  PROVE fate'[j] = fate[j]
    BY Zenon, <1>1
  <2> USE <1>1
  <2>1. fate[j] \notin {"held", "unsent", "socket"}  BY Zenon DEF Settled
  <2>2. Nowhere(j)  BY Zenon, <2>1, OnlyHolder DEF Placed, Held
  <2>3. ASSUME NEW k \in Jobs, k # j, NEW x, fate' = [fate EXCEPT ![k] = x]  PROVE fate'[j] = fate[j]
    BY Zenon, <2>3 DEF Types, UdpTypes
  <2>4. CASE LoopStep  BY Zenon, <2>4, LoopLeaves DEF udp
  <2>5. ASSUME NEW inUse, NEW broken, run_stub(inUse, broken)  PROVE fate'[j] = fate[j]
    BY Zenon, <2>5 DEF run_stub
  <2>6. ASSUME NEW k \in Jobs, Send(k)  PROVE fate'[j] = fate[j]
    BY Zenon, <2>1, <2>3, <2>6 DEF Send
  <2>7. ASSUME NEW e \in Endpoints, NEW k \in Jobs, Receive(e, k)  PROVE fate'[j] = fate[j]
    BY Zenon, <2>1, <2>3, <2>7 DEF Receive
  <2>8. ASSUME NEW e \in Endpoints, try_send(e)  PROVE fate'[j] = fate[j]
    <3>1. listener[e].job \in Jobs /\ listener[e].at = "dispatch"  BY Zenon, <2>8, TrySendCases, ListenerKinds
    <3>2. listener[e].job # j  BY Zenon, <2>2, <3>1 DEF Nowhere, Lists
    <3>3. fate' = fate \/ fate' = [fate EXCEPT ![listener[e].job] = "dropped"]
      BY Zenon, <2>8, TrySendCases DEF Delivers, Passes, Drops
    <3> QED  BY Zenon, <2>3, <3>1, <3>2, <3>3
  <2>9. ASSUME NEW e \in Endpoints, ListenerStops(e)  PROVE fate'[j] = fate[j]
    BY Zenon, <2>9 DEF ListenerStops
  <2>10. ASSUME NEW w \in WorkerIds, WorkerStep(w)  PROVE fate'[j] = fate[j]
    <3>1. CASE Takes(w)  BY Zenon, <3>1 DEF Takes
    <3>2. CASE Stops(w)
      <4>1. queue[w] \in Seq(Jobs)  BY Zenon DEF Types, UdpTypes
      <4>2. (\E i \in DOMAIN queue[w] : queue[w][i] = j) => \E i \in Nat : Queued(w, i, j)
        BY SMT, <4>1 DEF Queued
      <4>3. ~\E i \in DOMAIN queue[w] : queue[w][i] = j  BY Zenon, <2>2, <4>2 DEF Nowhere
      <4> QED  BY Zenon, <3>2, <4>3 DEF Stops, WorkerEnds
    <3>3. CASE Replies(w)
      <4>1. worker[w] \in Jobs /\ worker[w] # j  BY Zenon, <2>2, <3>3 DEF Replies, Nowhere, Works
      <4> QED  BY Zenon, <2>3, <3>3, <4>1 DEF Replies
    <3> QED  BY Zenon, <2>10, <3>1, <3>2, <3>3, WorkerCases
  <2> QED
    BY Zenon, <2>4, <2>5, <2>6, <2>7, <2>8, <2>9, <2>10, NextKinds DEF UdpStep, ListenerStep
<1> QED  BY <1>1, PlacedAlways, PTL DEF Spec, FatesAreFinal
=============================================================================
