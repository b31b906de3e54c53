----------------------------- MODULE LinkRouting -----------------------------
(***************************************************************************)
(* The per-link DNS state of the resolver and the threads that keep it:    *)
(* the RTNL monitor (netlink.rs), the networkd monitor (networkd.rs), the  *)
(* D-Bus setters and the queries that read it.  The state is in three      *)
(* places, each under a lock of its own: the routing table (routing.rs),   *)
(* networkd_links and link_server_specs.                                   *)
(*                                                                         *)
(* A step is what a thread does under one lock.  Only two locks are ever   *)
(* held from one step to the next: networkd_links for writing while        *)
(* npc = "table" (sync_networkd_links, which then waits for the routing    *)
(* table) and the routing table for reading while qpc[q] = "filter"        *)
(* (query_on_link, which then waits for networkd_links).                   *)
(*                                                                         *)
(* A list of servers is one value; so is everything else a link is set to  *)
(* (domains, default route, LLMNR, mDNS, DNS over TLS, DNSSEC, negative    *)
(* trust anchors), whose setters have one shape.  unpublished, lost and    *)
(* abandoned are history variables.                                        *)
(***************************************************************************)
EXTENDS Integers

CONSTANTS
    Links,        \* interface indices
    Setters,      \* threads that run D-Bus methods
    Queriers,     \* threads that run query_on_link
    DnsLists,     \* lists of DNS servers, normalized, not empty
    NoDns,        \* the empty list
    Names,        \* server names a list can come with
    NoName,       \* no server name
    Options,      \* the other settings of a link
    DefaultOption,\* those of LinkState::new
    KernelStates, \* states the kernel puts a link in: of "gone", "down", "up"
    FileStates,   \* FileStates[l]: what networkd writes about link l, Garbled included
    MaxEvents,    \* bound: changes by the kernel and networkd
    MaxCalls      \* bound: calls of each setter

-----------------------------------------------------------------------------
(* LinkState of routing.rs, kernel state included; live if the table has   *)
(* the link at all.                                                        *)
LinkStates == [live : BOOLEAN, up : BOOLEAN, dns : DnsLists \cup {NoDns}, option : Options]
NewLink(up) == [live |-> TRUE, up |-> up, dns |-> NoDns, option |-> DefaultOption]
NoLink == [live |-> FALSE, up |-> FALSE, dns |-> NoDns, option |-> DefaultOption]

(* LinkState of networkd.rs.  An unmanaged link is treated as one without  *)
(* a file.  refused: it has a domain or a trust anchor that parses here    *)
(* and that normalize_name of routing.rs does not take (~~.x is one).      *)
NetworkdStates == [managed : BOOLEAN, relevant : BOOLEAN, dns : DnsLists \cup {NoDns},
                   name : Names \cup {NoName}, option : Options, refused : BOOLEAN]
Unmanaged == [managed |-> FALSE, relevant |-> TRUE, dns |-> NoDns, name |-> NoName,
              option |-> DefaultOption, refused |-> FALSE]
Garbled == [garbled |-> TRUE]
Nobody == [l \in Links |-> Unmanaged]

(* An entry of link_server_specs; one for the empty list is never stored.  *)
Specs == [dns : DnsLists \cup {NoDns}, name : Names \cup {NoName}]
NoSpec == [dns |-> NoDns, name |-> NoName]

VARIABLES
    kernel,      \* kernel[l]: the state of link l in the kernel
    file,        \* file[l]: networkd's file about link l
    rtnl,        \* the RTNL socket: closed, open (nothing to read), signalled
    watch,       \* the inotify descriptor, likewise
    events,      \* changes of kernel and file so far
    stop,        \* request_stop was called
    table,       \* table[l]: RoutingTable.links
    networkd,    \* networkd[l]: networkd_links
    specs,       \* specs[l]: link_server_specs
    kpc,         \* the RTNL thread: the step it takes next
    snapshot,    \*   what link_snapshot last gave, NoSnapshot if it failed
    live,        \*   live_ifindices
    kchanged,    \*   route_changed || identity_changed
    npc,         \* the networkd thread: the step it takes next
    incoming,    \*   what it has read of the files
    unread,      \*   the files it has still to read
    todo,        \*   removed_identities and managed_identities left to do
    nchanged,    \*   changed || identity_changed
    started,     \* networkd::spawn has returned; D-Bus and the stub run
    pc,          \* pc[u]: the step setter u takes next
    call,        \* call[u]: the method u runs
    changed,     \* changed[u]: route_changed || spec_changed
    calls,       \* calls[u]: calls so far
    qpc,         \* qpc[q]: the step query q takes next
    scopes,      \* scopes[q]: the link scopes q selected
    unpublished, \* table or specs changed since the last bump
    lost,        \* so they did in a synchronization that failed
    abandoned    \* links such a one has changed and none has set since

envVars == <<kernel, file, events, stop>>
kernelVars == <<kpc, snapshot, live, kchanged>>
networkdVars == <<npc, incoming, unread, todo, nchanged, started>>
setterVars == <<pc, call, changed, calls>>
queryVars == <<qpc, scopes>>
stateVars == <<table, networkd, specs>>
history == <<unpublished, lost, abandoned>>
vars == <<envVars, rtnl, watch, stateVars, kernelVars, networkdVars, setterVars, queryVars,
          history>>

RoutingRead == \E q \in Queriers : qpc[q] = "filter"
NetworkdWritten == npc = "table"

NoCall == [op |-> "none"]
Calls ==
    [op : {"dns"}, link : Links, dns : DnsLists, name : Names \cup {NoName}]
    \cup [op : {"dns"}, link : Links, dns : {NoDns}, name : {NoName}]
    \cup [op : {"option"}, link : Links, option : Options]
    \cup [op : {"revert"}, link : Links]

(* RoutingTable::sync_kernel_links: keep a known link's settings, add new  *)
(* links, drop those that are gone.                                        *)
KernelSynced(tab, snap) ==
    [l \in Links |->
        IF snap[l] = "gone" THEN NoLink
        ELSE IF tab[l].live THEN [tab[l] EXCEPT !.up = (snap[l] = "up")]
        ELSE NewLink(snap[l] = "up")]

NoSnapshot == [l \in Links |-> "none"]

(* main: the first netlink::synchronize has been made, its socket is not   *)
(* open yet.                                                               *)
Init ==
    /\ kernel \in [Links -> KernelStates]
    /\ file \in {f \in [Links -> UNION {FileStates[l] : l \in Links}] :
                    \A l \in Links : f[l] \in FileStates[l]}
    /\ rtnl = "closed"
    /\ watch = "closed"
    /\ events = 0
    /\ stop = FALSE
    /\ table = KernelSynced([l \in Links |-> NoLink], kernel)
    /\ networkd = Nobody
    /\ specs = [l \in Links |-> NoSpec]
    /\ kpc = "open"
    /\ snapshot = NoSnapshot
    /\ live = {}
    /\ kchanged = FALSE
    /\ npc = "spawn"
    /\ incoming = Nobody
    /\ unread = {}
    /\ todo = {}
    /\ nchanged = FALSE
    /\ started = FALSE
    /\ pc = [u \in Setters |-> "idle"]
    /\ call = [u \in Setters |-> NoCall]
    /\ changed = [u \in Setters |-> FALSE]
    /\ calls = [u \in Setters |-> 0]
    /\ qpc = [q \in Queriers |-> "idle"]
    /\ scopes = [q \in Queriers |-> {}]
    /\ unpublished = FALSE
    /\ lost = FALSE
    /\ abandoned = {}

(***************************************************************************)
(* The kernel and networkd                                                 *)
(***************************************************************************)
Signal(fd) == IF fd = "open" THEN "signalled" ELSE fd

KernelChanges(l) ==
    /\ events < MaxEvents
    /\ events' = events + 1
    /\ \E s \in KernelStates \ {kernel[l]} : kernel' = [kernel EXCEPT ![l] = s]
    /\ rtnl' = Signal(rtnl)
    /\ UNCHANGED <<file, stop, watch, stateVars, kernelVars, networkdVars, setterVars, queryVars,
                   history>>

NetworkdWrites(l) ==
    /\ events < MaxEvents
    /\ events' = events + 1
    /\ \E s \in FileStates[l] \ {file[l]} : file' = [file EXCEPT ![l] = s]
    /\ watch' = Signal(watch)
    /\ UNCHANGED <<kernel, stop, rtnl, stateVars, kernelVars, networkdVars, setterVars, queryVars,
                   history>>

(***************************************************************************)
(* The RTNL thread: netlink::spawn, monitor and sync_kernel_links          *)
(***************************************************************************)
OpenRtnl ==
    /\ kpc = "open"
    /\ rtnl' = "open"
    /\ kpc' = "wait"
    /\ UNCHANGED <<envVars, watch, stateVars, snapshot, live, kchanged, networkdVars, setterVars,
                   queryVars, history>>

(* rtnl_wait drains the socket, then link_snapshot.  When that fails, the  *)
(* failure is logged and the thread waits for the next signal.  (Of what   *)
(* follows, only validate_ifindex could fail, for no index of a kernel.)   *)
RtnlWakes ==
    /\ kpc = "wait" /\ rtnl = "signalled"
    /\ rtnl' = "open"
    /\ \/ snapshot' = kernel /\ kpc' = "table"
       \/ snapshot' = NoSnapshot /\ UNCHANGED kpc
    /\ UNCHANGED <<envVars, watch, stateVars, live, kchanged, networkdVars, setterVars, queryVars,
                   history>>

SyncKernelUnlocked ==
    /\ kpc = "table"
    /\ table' = KernelSynced(table, snapshot)
    /\ kchanged' = (table' # table)
    /\ unpublished' = (unpublished \/ table' # table)
    /\ abandoned' = {l \in abandoned : table'[l].live}
    /\ kpc' = "list"
    /\ UNCHANGED <<envVars, rtnl, watch, networkd, specs, snapshot, live, networkdVars, setterVars,
                   queryVars, lost>>

SyncKernelTable ==
    /\ kpc = "table" /\ ~RoutingRead
    /\ table' = KernelSynced(table, snapshot)
    /\ kchanged' = (table' # table)
    /\ unpublished' = (unpublished \/ table' # table)
    /\ abandoned' = {l \in abandoned : table'[l].live}
    /\ kpc' = "list"
    /\ UNCHANGED <<envVars, rtnl, watch, networkd, specs, snapshot, live, networkdVars, setterVars,
                   queryVars, lost>>

ListLinks ==
    /\ kpc = "list"
    /\ live' = {l \in Links : table[l].live}
    /\ kpc' = "specs"
    /\ UNCHANGED <<envVars, rtnl, watch, stateVars, snapshot, kchanged, networkdVars, setterVars,
                   queryVars, history>>

RetainSpecs ==
    /\ kpc = "specs"
    /\ specs' = [l \in Links |-> IF l \in live THEN specs[l] ELSE NoSpec]
    /\ kchanged' = (kchanged \/ specs' # specs)
    /\ unpublished' = (unpublished \/ specs' # specs)
    /\ kpc' = "finish"
    /\ UNCHANGED <<envVars, rtnl, watch, table, networkd, snapshot, live, networkdVars, setterVars,
                   queryVars, lost, abandoned>>

DrainAfterSync ==
    /\ kpc = "finish"
    /\ unpublished' = (unpublished /\ ~kchanged)
    /\ lost' = (lost /\ ~kchanged)
    /\ kchanged' = FALSE
    /\ live' = {}
    /\ rtnl' = "open"
    /\ kpc' = "wait"
    /\ UNCHANGED <<envVars, watch, stateVars, snapshot, networkdVars, setterVars, queryVars,
                   abandoned>>

(* finish_routing_change bumps the generation and flushes the cache.       *)
FinishKernel ==
    /\ kpc = "finish"
    /\ unpublished' = (unpublished /\ ~kchanged)
    /\ lost' = (lost /\ ~kchanged)
    /\ kchanged' = FALSE
    /\ live' = {}
    /\ kpc' = "wait"
    /\ UNCHANGED <<envVars, rtnl, watch, stateVars, snapshot, networkdVars, setterVars, queryVars,
                   abandoned>>

(* The loop of monitor ends: a stop was requested, or rtnl_wait fails and  *)
(* requests one.                                                           *)
RtnlEnds ==
    /\ kpc = "wait"
    /\ kpc' = "ended"
    /\ stop' = TRUE
    /\ UNCHANGED <<kernel, file, events, rtnl, watch, stateVars, snapshot, live, kchanged,
                   networkdVars, setterVars, queryVars, history>>

(***************************************************************************)
(* The networkd thread: networkd::spawn, monitor and sync_networkd_links   *)
(***************************************************************************)
OpenWatch ==
    /\ npc = "open"
    /\ watch' = "open"
    /\ npc' = "wait"
    /\ UNCHANGED <<envVars, rtnl, stateVars, kernelVars, incoming, unread, todo, nchanged, started,
                   setterVars, queryVars, history>>

(* synchronize is called by spawn, before there is a watch, and when       *)
(* networkd_wait has drained the watch.                                    *)
BeginSync ==
    /\ \/ npc = "spawn" /\ kpc # "open" /\ UNCHANGED watch
       \/ npc = "wait" /\ watch = "signalled" /\ watch' = "open"
    /\ unread' = Links
    /\ npc' = "read"
    /\ UNCHANGED <<envVars, rtnl, stateVars, kernelVars, incoming, todo, nchanged, started,
                   setterVars, queryVars, history>>

(* A synchronization that fails: at start the daemon gives up, later the   *)
(* monitor logs it and opens a new watch.                                  *)
GiveUp ==
    /\ npc' = IF started THEN "open" ELSE "exit"
    /\ watch' = "closed"
    /\ incoming' = Nobody
    /\ unread' = {}

(* read_directory, one file.  One that cannot be parsed ends the           *)
(* synchronization, and so does any that cannot be read.                   *)
ReadFile(l) ==
    /\ npc = "read" /\ l \in unread
    /\ \/ /\ file[l] # Garbled
          /\ incoming' = [incoming EXCEPT ![l] = file[l]]
          /\ unread' = unread \ {l}
          /\ npc' = IF unread' = {} THEN "lock" ELSE "read"
          /\ UNCHANGED watch
       \/ GiveUp
    /\ UNCHANGED <<envVars, rtnl, stateVars, kernelVars, todo, nchanged, started, setterVars,
                   queryVars, history>>

LockNetworkd ==
    /\ npc = "lock"
    /\ npc' = "table"
    /\ UNCHANGED <<envVars, rtnl, watch, stateVars, kernelVars, incoming, unread, todo, nchanged,
                   started, setterVars, queryVars, history>>

(* Links networkd no longer manages are reverted; managed ones get every   *)
(* setting, if the table has them.                                         *)
NoLongerManaged(l) == networkd[l].managed /\ ~incoming[l].managed

SyncedWhenNew(l) ==
    IF ~table[l].live \/ networkd[l].managed = incoming[l].managed THEN table[l]
    ELSE IF NoLongerManaged(l) THEN NewLink(table[l].up)
    ELSE [table[l] EXCEPT !.dns = incoming[l].dns, !.option = incoming[l].option]

Synced(l) ==
    IF ~table[l].live THEN table[l]
    ELSE IF NoLongerManaged(l) THEN NewLink(table[l].up)
    ELSE IF incoming[l].managed
         THEN [table[l] EXCEPT !.dns = incoming[l].dns, !.option = incoming[l].option]
    ELSE table[l]

(* removed_identities and managed_identities.                              *)
Identity(l) ==
    [link |-> l,
     spec |-> IF table[l].live /\ incoming[l].managed /\ incoming[l].dns # NoDns
              THEN [dns |-> incoming[l].dns, name |-> incoming[l].name] ELSE NoSpec]

(* set_domains or set_dnssec_negative_trust_anchors fails for this link.   *)
Refusing(l) == table[l].live /\ incoming[l].managed /\ incoming[l].refused

SyncNetworkdTable ==
    /\ npc = "table" /\ ~RoutingRead
    /\ \A l \in Links : ~Refusing(l)
    /\ table' = [l \in Links |-> Synced(l)]
    /\ todo' = {Identity(l) : l \in {m \in Links : NoLongerManaged(m) \/ incoming[m].managed}}
    /\ networkd' = incoming
    /\ nchanged' = (table' # table)
    /\ unpublished' = (unpublished \/ table' # table)
    /\ abandoned' = {l \in abandoned : ~NoLongerManaged(l) /\ ~incoming[l].managed}
    /\ npc' = "specs"
    /\ UNCHANGED <<envVars, rtnl, watch, specs, kernelVars, incoming, unread, started, setterVars,
                   queryVars, lost>>

(* The early returns of sync_networkd_links.  The links networkd has given *)
(* up are reverted, and of the managed ones, in the order of a hash map,   *)
(* some are set before a setter fails at link l, which has its servers and *)
(* a mixture of old and new settings.  networkd_links and the server specs *)
(* stay as they were and finish_routing_change is not called.              *)
SyncNetworkdFails ==
    /\ npc = "table" /\ ~RoutingRead
    /\ \E l \in {m \in Links : Refusing(m)}, option \in Options,
          done \in SUBSET {m \in Links : incoming[m].managed /\ ~incoming[m].refused} :
             table' = [m \in Links |->
                         IF m = l THEN [table[m] EXCEPT !.dns = incoming[m].dns, !.option = option]
                         ELSE IF NoLongerManaged(m) \/ m \in done THEN Synced(m)
                         ELSE table[m]]
    /\ unpublished' = (unpublished \/ table' # table)
    /\ lost' = (lost \/ table' # table)
    /\ abandoned' = abandoned \cup {m \in Links : table'[m] # table[m]}
    /\ GiveUp
    /\ UNCHANGED <<envVars, rtnl, networkd, specs, kernelVars, todo, nchanged, started, setterVars,
                   queryVars>>

(* remove_link_server_specs or replace_link_server_specs, for one link.    *)
StoreSpecs ==
    /\ npc = "specs"
    /\ \E i \in todo :
          /\ specs' = [specs EXCEPT ![i.link] = i.spec]
          /\ todo' = todo \ {i}
    /\ nchanged' = (nchanged \/ specs' # specs)
    /\ unpublished' = (unpublished \/ specs' # specs)
    /\ UNCHANGED <<envVars, rtnl, watch, table, networkd, kernelVars, npc, incoming, unread,
                   started, setterVars, queryVars, lost, abandoned>>

FinishNetworkd ==
    /\ npc = "specs" /\ todo = {}
    /\ unpublished' = (unpublished /\ ~nchanged)
    /\ lost' = (lost /\ ~nchanged)
    /\ nchanged' = FALSE
    /\ incoming' = Nobody
    /\ started' = TRUE
    /\ watch' = "closed"
    /\ npc' = "open"
    /\ UNCHANGED <<envVars, rtnl, stateVars, kernelVars, unread, todo, setterVars, queryVars,
                   abandoned>>

(* The loops of monitor end: a stop was requested, or networkd_open or     *)
(* networkd_wait fails and requests one.                                   *)
NetworkdEnds ==
    /\ npc \in {"open", "wait"}
    /\ npc' = "ended"
    /\ watch' = "closed"
    /\ stop' = TRUE
    /\ UNCHANGED <<kernel, file, events, rtnl, stateVars, kernelVars, incoming, unread, todo,
                   nchanged, started, setterVars, queryVars, history>>

(***************************************************************************)
(* The setters: set_link_dns_specs, set_link_domains and its likes,        *)
(* revert_link                                                             *)
(***************************************************************************)
StartCall(u) ==
    /\ pc[u] = "idle" /\ started /\ calls[u] < MaxCalls
    /\ calls' = [calls EXCEPT ![u] = @ + 1]
    /\ \E c \in Calls : call' = [call EXCEPT ![u] = c]
    /\ pc' = [pc EXCEPT ![u] = "check"]
    /\ UNCHANGED <<envVars, rtnl, watch, stateVars, kernelVars, networkdVars, changed, queryVars,
                   history>>

EndCall(u) ==
    /\ pc' = [pc EXCEPT ![u] = "idle"]
    /\ call' = [call EXCEPT ![u] = NoCall]

(* Managed links are refused with ManagedLink.                             *)
ensure_link_writable(u) ==
    /\ pc[u] = "check" /\ ~NetworkdWritten
    /\ IF networkd[call[u].link].managed
       THEN EndCall(u)
       ELSE pc' = [pc EXCEPT ![u] = "table"] /\ UNCHANGED call
    /\ UNCHANGED <<envVars, rtnl, watch, stateVars, kernelVars, networkdVars, changed, calls,
                   queryVars, history>>

(* set_dns, set_domains and its likes, revert; NoSuchLink if the table     *)
(* does not have the link.                                                 *)
Applied(link, c) ==
    CASE c.op = "dns"    -> [link EXCEPT !.dns = c.dns]
      [] c.op = "option" -> [link EXCEPT !.option = c.option]
      [] c.op = "revert" -> NewLink(link.up)

SetTable(u) ==
    /\ pc[u] = "table" /\ ~RoutingRead
    /\ LET c == call[u] IN
       IF table[c.link].live
       THEN /\ table' = [table EXCEPT ![c.link] = Applied(@, c)]
            /\ changed' = [changed EXCEPT ![u] = table' # table]
            /\ unpublished' = (unpublished \/ table' # table)
            /\ pc' = [pc EXCEPT ![u] = IF c.op = "option" THEN "finish" ELSE "specs"]
            /\ UNCHANGED call
       ELSE EndCall(u) /\ UNCHANGED <<table, changed, unpublished>>
    /\ UNCHANGED <<envVars, rtnl, watch, networkd, specs, kernelVars, networkdVars, calls,
                   queryVars, lost, abandoned>>

SetSpecsUncounted(u) ==
    /\ pc[u] = "specs"
    /\ LET c == call[u]
           spec == IF c.op = "dns" THEN [dns |-> c.dns, name |-> c.name] ELSE NoSpec
       IN  specs' = [specs EXCEPT ![c.link] = spec]
    /\ unpublished' = (unpublished \/ specs' # specs)
    /\ pc' = [pc EXCEPT ![u] = "finish"]
    /\ UNCHANGED <<envVars, rtnl, watch, table, networkd, kernelVars, networkdVars, call, calls,
                   changed, queryVars, lost, abandoned>>

(* replace_link_server_specs, or remove_link_server_specs after revert.    *)
SetSpecs(u) ==
    /\ pc[u] = "specs"
    /\ LET c == call[u]
           spec == IF c.op = "dns" THEN [dns |-> c.dns, name |-> c.name] ELSE NoSpec
       IN  specs' = [specs EXCEPT ![c.link] = spec]
    /\ changed' = [changed EXCEPT ![u] = @ \/ specs' # specs]
    /\ unpublished' = (unpublished \/ specs' # specs)
    /\ pc' = [pc EXCEPT ![u] = "finish"]
    /\ UNCHANGED <<envVars, rtnl, watch, table, networkd, kernelVars, networkdVars, call, calls,
                   queryVars, lost, abandoned>>

FinishCall(u) ==
    /\ pc[u] = "finish"
    /\ unpublished' = (unpublished /\ ~changed[u])
    /\ lost' = (lost /\ ~changed[u])
    /\ changed' = [changed EXCEPT ![u] = FALSE]
    /\ EndCall(u)
    /\ UNCHANGED <<envVars, rtnl, watch, stateVars, kernelVars, networkdVars, calls, queryVars,
                   abandoned>>

(***************************************************************************)
(* A query: RoutingTable::select and, under its lock, the filter by        *)
(* networkd_link_relevant                                                  *)
(***************************************************************************)
Eligible(l) == table[l].live /\ table[l].up /\ table[l].dns # NoDns

(* The link the client named, or the links whose domains match best, or    *)
(* those that are default routes: any set of eligible links.               *)
Select(q) ==
    /\ qpc[q] = "idle" /\ started
    /\ \E chosen \in SUBSET {l \in Links : Eligible(l)} :
          /\ chosen # {}
          /\ scopes' = [scopes EXCEPT ![q] = chosen]
    /\ qpc' = [qpc EXCEPT ![q] = "filter"]
    /\ UNCHANGED <<envVars, rtnl, watch, stateVars, kernelVars, networkdVars, setterVars,
                   history>>

(* networkd_links cannot change between two scopes: its writer needs the   *)
(* routing table.                                                          *)
Filter(q) ==
    /\ qpc[q] = "filter" /\ ~NetworkdWritten
    /\ scopes' = [scopes EXCEPT ![q] = {l \in @ : networkd[l].managed => networkd[l].relevant}]
    /\ qpc' = [qpc EXCEPT ![q] = "ask"]
    /\ UNCHANGED <<envVars, rtnl, watch, stateVars, kernelVars, networkdVars, setterVars,
                   history>>

(* The query is over.                                                      *)
Ask(q) ==
    /\ qpc[q] = "ask"
    /\ scopes' = [scopes EXCEPT ![q] = {}]
    /\ qpc' = [qpc EXCEPT ![q] = "idle"]
    /\ UNCHANGED <<envVars, rtnl, watch, stateVars, kernelVars, networkdVars, setterVars,
                   history>>

(* Nothing is under way and nothing is signalled: the threads sleep.       *)
Quiescent ==
    /\ kpc = "ended" \/ (kpc = "wait" /\ rtnl = "open")
    /\ npc \in {"exit", "ended"} \/ (npc = "wait" /\ watch = "open")
    /\ \A u \in Setters : pc[u] = "idle"
    /\ \A q \in Queriers : qpc[q] = "idle"
    /\ UNCHANGED vars

RtnlThread == RtnlWakes \/ SyncKernelTable \/ ListLinks \/ RetainSpecs \/ FinishKernel
NetworkdThread ==
    \/ OpenWatch \/ BeginSync \/ LockNetworkd \/ SyncNetworkdTable \/ SyncNetworkdFails
    \/ StoreSpecs \/ FinishNetworkd
    \/ \E l \in Links : ReadFile(l)
Setter(u) == ensure_link_writable(u) \/ SetTable(u) \/ SetSpecs(u) \/ FinishCall(u)
Querier(q) == Filter(q) \/ Ask(q)

Next ==
    \/ \E l \in Links : KernelChanges(l) \/ NetworkdWrites(l)
    \/ OpenRtnl \/ RtnlThread \/ RtnlEnds \/ NetworkdThread \/ NetworkdEnds
    \/ \E u \in Setters : StartCall(u) \/ Setter(u)
    \/ \E q \in Queriers : Select(q) \/ Querier(q)
    \/ Quiescent

Spec == Init /\ [][Next]_vars

(* Every thread that is not blocked on a lock or a descriptor keeps        *)
(* running.  A thread that waits for the routing lock gets it although     *)
(* new queries keep reading: std's RwLock prefers waiting writers.         *)
FairSpec ==
    /\ Spec
    /\ WF_vars(OpenRtnl) /\ SF_vars(RtnlThread) /\ SF_vars(NetworkdThread)
    /\ WF_vars(stop /\ RtnlEnds) /\ WF_vars(stop /\ NetworkdEnds)
    /\ \A u \in Setters : SF_vars(Setter(u))
    /\ \A q \in Queriers : WF_vars(Querier(q))

-----------------------------------------------------------------------------
(* Every variable has its type.                                            *)
TypeOK ==
    /\ kernel \in [Links -> KernelStates]
    /\ \A l \in Links : file[l] \in FileStates[l]
    /\ {rtnl, watch} \subseteq {"closed", "open", "signalled"}
    /\ events \in 0 .. MaxEvents
    /\ table \in [Links -> LinkStates]
    /\ {networkd, incoming} \subseteq [Links -> NetworkdStates]
    /\ specs \in [Links -> Specs]
    /\ kpc \in {"open", "wait", "table", "list", "specs", "finish", "ended"}
    /\ snapshot \in [Links -> KernelStates] \cup {NoSnapshot}
    /\ {live, unread, abandoned} \subseteq SUBSET Links
    /\ {kchanged, nchanged, started, stop, unpublished, lost} \subseteq BOOLEAN
    /\ npc \in {"spawn", "exit", "open", "wait", "read", "lock", "table", "specs", "ended"}
    /\ todo \subseteq [link : Links, spec : Specs]
    /\ pc \in [Setters -> {"idle", "check", "table", "specs", "finish"}]
    /\ call \in [Setters -> Calls \cup {NoCall}]
    /\ \A u \in Setters : pc[u] # "idle" => call[u] \in Calls
    /\ changed \in [Setters -> BOOLEAN]
    /\ calls \in [Setters -> 0 .. MaxCalls]
    /\ qpc \in [Queriers -> {"idle", "filter", "ask"}]
    /\ scopes \in [Queriers -> SUBSET Links]

(***************************************************************************)
(* finish_routing_change is never forgotten by a call that comes to its    *)
(* end: whenever the routing table or the server specs have changed and    *)
(* the generation has not been bumped since, some thread is on its way to  *)
(* bump it, or sync_networkd_links has returned early after a change.      *)
(* Otherwise queries would go on to be answered from a cache filled under  *)
(* the old state.                                                          *)
(***************************************************************************)
EveryChangePublished ==
    unpublished => kchanged \/ nchanged \/ lost \/ \E u \in Setters : changed[u]

(***************************************************************************)
(* What sync_networkd_links has changed before an early return is          *)
(* published as well.                                                      *)
(***************************************************************************)
NothingLost == ~lost

(***************************************************************************)
(* The two halves of a link's servers, kept under different locks, agree   *)
(* when no thread is between them: the servers of a link have their own    *)
(* specs (the server name TLS checks, the interface), not another list's.  *)
(* For links that stay managed or stay unmanaged, and were not left half   *)
(* done by an early return of sync_networkd_links.                         *)
(***************************************************************************)
AtRest(l) ==
    /\ kpc \in {"open", "wait", "ended"}
    /\ \A i \in todo : i.link # l
    /\ \A u \in Setters : pc[u] = "specs" => call[u].link # l

SpecsDescribeServers ==
    \A l \in Links \ abandoned :
        AtRest(l) /\ table[l].live /\ table[l].dns # NoDns => specs[l].dns = table[l].dns

(***************************************************************************)
(* When the RTNL thread sleeps with nothing signalled, after having been   *)
(* woken at least once and with the last link_snapshot successful, the     *)
(* table has exactly the kernel's links, each in the kernel's state.       *)
(* (After one that failed nothing wakes the thread before the next change  *)
(* of the kernel.)                                                         *)
(***************************************************************************)
KernelUpToDate ==
    kpc = "wait" /\ rtnl = "open" /\ snapshot # NoSnapshot =>
        \A l \in Links : /\ table[l].live <=> kernel[l] # "gone"
                         /\ table[l].live => (table[l].up <=> kernel[l] = "up")

(***************************************************************************)
(* "managed networkd state populates effective link": while the networkd   *)
(* thread is not applying a synchronization, a managed link of the table   *)
(* has the servers and the settings networkd gave it.  Holds while the     *)
(* kernel's links come and go no more (a link that appears after networkd  *)
(* has described it breaks it) and for links that no early return of       *)
(* sync_networkd_links has left half done.                                 *)
(***************************************************************************)
ManagedLinksConfigured ==
    \A l \in Links \ abandoned :
        table[l].live /\ networkd[l].managed =>
            table[l].dns = networkd[l].dns /\ table[l].option = networkd[l].option

(***************************************************************************)
(* A link that networkd stops managing loses what networkd had set.  With  *)
(* no setter, a link that is not managed has no server specs, and no       *)
(* settings unless sync_networkd_links has returned early while setting it *)
(* (networkd_links does not have it then, so that nothing reverts it).     *)
(***************************************************************************)
UnmanagedLinksReverted ==
    \A l \in Links :
        ~networkd[l].managed =>
            /\ l \notin abandoned => table[l].dns = NoDns /\ table[l].option = DefaultOption
            /\ npc # "specs" => specs[l] = NoSpec

(***************************************************************************)
(* "... and blocks mutation": no setter changes a link that networkd       *)
(* manages.                                                                *)
(***************************************************************************)
ManagedBlocksMutation ==
    [][\A u \in Setters : (SetTable(u) \/ SetSpecs(u)) =>
          \A l \in Links : networkd[l].managed => table'[l] = table[l] /\ specs'[l] = specs[l]]_vars

(***************************************************************************)
(* What a query goes out with is consistent: when the last scope has       *)
(* passed networkd_link_relevant, every scope is still one that select     *)
(* would choose, and one networkd finds relevant.                          *)
(***************************************************************************)
AsksEligible ==
    \A q \in Queriers : qpc[q] = "filter" /\ qpc'[q] = "ask" =>
        \A l \in scopes'[q] : Eligible(l) /\ (networkd[l].managed => networkd[l].relevant)
ScopesAgree == [][AsksEligible]_vars

(***************************************************************************)
(* "live systemd-networkd managed DNS/domain/default-route/... state       *)
(* synchronization": when the networkd thread sleeps with nothing          *)
(* signalled, networkd_links is what the files say.                        *)
(***************************************************************************)
MonitorUpToDate ==
    npc = "wait" /\ watch = "open" => \A l \in Links : networkd[l] = file[l] \/ file[l] = Garbled

(***************************************************************************)
(* The synchronization with networkd always comes to its end.              *)
(***************************************************************************)
SyncsEnd == (npc \in {"lock", "table", "specs"}) ~> (npc \in {"open", "exit"})
=============================================================================
