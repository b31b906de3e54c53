------------------------------- MODULE Monitor -------------------------------
(***************************************************************************)
(* The dumps of the Varlink service: DumpDNSConfiguration of               *)
(* varlink_dns_configuration.rs, DumpServerState and DumpCache of          *)
(* varlink_monitor.rs.  A dump copies the links under one lock and then    *)
(* asks for each link's servers again, under two more, while setters, the  *)
(* kernel's thread and queries go on; a cache dump reads one shard after   *)
(* the other, and the boot clock for each entry.                           *)
(*                                                                         *)
(* Links are unmanaged and the kernel's links have been read once.  The    *)
(* texts of the replies are left out: a reply is its values.  In a spec,    *)
(* interface 0 and name "" say that there is none.                         *)
(***************************************************************************)
EXTENDS Integers, Sequences, SequencesExt, FiniteSets

CONSTANTS
    Links,         \* ifindexes
    SpecLists,     \* lists of [address, interface, name] a setter writes
    LinkLocal,     \* the addresses of link-local servers
    Kernels,       \* "down", or up with addresses: "global" or only "local"
    LinkModes,     \* [dnssec, tls] a setter writes; they stand for all settings
    Global,        \* Config: [upstreams, fallback, stub, modes]
    Learned,       \* ServerState values queries leave behind
    Keys, Shards,  \* of the cache; Shards: set of sets of keys
    Values,        \* [rcode, records, ttl] of what is inserted
    MAX_STALE,     \* how long an entry serves after it has expired
    MaxTime, MaxChanges  \* bounds

VARIABLES
    table,   \* RoutingTable.links
    specs,   \* link_server_specs
    states,  \* ServerKey -> ServerState; absent ones are the default
    setter,  \* set_link_dns_specs between its two locks
    kernel,  \* sync_kernel_links, likewise
    cache, now,
    dump,    \* the dump under way, or the last reply
    seen,    \* since the dump began: per link its states and stored specs
    changes

vars == <<table, specs, states, setter, kernel, cache, now, dump, seen, changes>>

\* ------------------------------------------------------------------- values
Udp == 0
Edns0 == 1
DnssecOk == 2
MinOf(a, b) == IF a < b THEN a ELSE b
TRANSPORT_RETRY_ATTEMPTS == 3
FreshServer == [possible |-> DnssecOk, verified |-> Udp, once |-> FALSE, badOpt |-> FALSE,
                noRrsig |-> FALSE, doOff |-> FALSE, mode |-> "Udp", failedTcp |-> 0,
                tlsPossible |-> TRUE, tlsVerified |-> FALSE]

NewLink == [live |-> TRUE, up |-> "global", dns |-> <<>>, modes |-> [dnssec |-> "allow-downgrade", tls |-> "no"]]
NoLink == [NewLink EXCEPT !.live = FALSE]
NoEntry == [rcode |-> 0, records |-> 0, expires |-> -1, stale_until |-> -1]
Idle == [pc |-> "idle", link |-> 0, list |-> <<>>, changed |-> FALSE, live |-> {}]

\* set_dns keeps the first of equal addresses.
Distinct(list) == FoldLeft(LAMBDA out, x : IF x \in ToSet(out) THEN out ELSE Append(out, x), <<>>, list)
Addresses(list) == [i \in DOMAIN list |-> list[i].address]

\* project_link_specs, filtered_server_specs: the stored specs of each address,
\* or a bare one.
Bare(address) == [address |-> address, interface |-> 0, name |-> ""]
OfAddress(a, stored) ==
    LET mine == Distinct(SelectSeq(stored, LAMBDA s : s.address = a))
    IN  IF mine = <<>> THEN <<Bare(a)>> ELSE mine
project_link_specs(addresses, stored) ==
    FoldLeft(LAMBDA out, a : out \o OfAddress(a, stored), <<>>, addresses)
filtered_server_specs(list) ==
    project_link_specs(SelectSeq(list.addresses, LAMBDA a : a \notin Global.stub), list.specs)

\* server_keys_for_specs: equal addresses of a scope are told apart by a slot.
server_keys_for_specs(scope, list) ==
    [i \in DOMAIN list |->
        <<scope, list[i].address, Cardinality({j \in 1 .. (i - 1) : list[j].address = list[i].address})>>]
StateOf(key) == IF key \in DOMAIN states THEN states[key] ELSE FreshServer

Init ==
    /\ table = [l \in Links |-> NewLink]
    /\ specs = [l \in Links |-> <<>>]
    /\ states = <<>>
    /\ setter = Idle /\ kernel = Idle
    /\ cache = [k \in Keys |-> NoEntry] /\ now = 0
    /\ dump = [pc |-> "idle", kind |-> "none", since |-> 0, left |-> <<>>, addresses |-> <<>>,
               shards |-> {}, found |-> {}, reply |-> <<>>]
    /\ seen = [l \in Links |-> [states |-> {}, specs |-> {}]]
    /\ changes = 0

\* ------------------------------------------------------------------ writers
Changing == changes < MaxChanges /\ changes' = changes + 1
Flushed == [k \in Keys |-> NoEntry]
See == seen' = [l \in Links |-> [states |-> seen[l].states \union {table'[l]},
                                 specs |-> seen[l].specs \union {specs'[l]}]]

\* set_link_dns_specs: the addresses in the table, then the specs; the cache
\* is flushed at the end if either changed.
SetTable(l, list) ==
    /\ setter.pc = "idle" /\ table[l].live /\ Changing
    /\ table' = [table EXCEPT ![l].dns = Distinct(Addresses(list))]
    /\ setter' = [setter EXCEPT !.pc = "specs", !.link = l, !.list = Distinct(list),
                                !.changed = table' # table]
    /\ specs' = specs /\ See
    /\ UNCHANGED <<states, kernel, cache, now, dump>>

SetSpecs ==
    /\ setter.pc = "specs"
    /\ specs' = [specs EXCEPT ![setter.link] = setter.list]
    /\ setter' = Idle
    /\ cache' = IF setter.changed \/ specs' # specs THEN Flushed ELSE cache
    /\ table' = table /\ See
    /\ UNCHANGED <<states, kernel, now, dump, changes>>

\* set_link_dnssec and set_link_dns_over_tls.
SetModes(l, modes) ==
    /\ table[l].live /\ table[l].modes # modes /\ Changing
    /\ table' = [table EXCEPT ![l].modes = modes]
    /\ cache' = Flushed
    /\ specs' = specs /\ See
    /\ UNCHANGED <<states, setter, kernel, now, dump>>

\* sync_kernel_links after a link came, went, or changed its flags: the table;
\* the links it now has; the specs of the others go.
SyncTable(l, state) ==
    /\ kernel.pc = "idle" /\ state # table[l] /\ Changing
    /\ table' = [table EXCEPT ![l] = state]
    /\ kernel' = [kernel EXCEPT !.pc = "live"]
    /\ specs' = specs /\ See
    /\ UNCHANGED <<states, setter, cache, now, dump>>
Synced(l) ==
    {NoLink} \union {[IF table[l].live THEN table[l] ELSE NewLink EXCEPT !.up = up] : up \in Kernels}

ReadLive ==
    /\ kernel.pc = "live"
    /\ kernel' = [kernel EXCEPT !.pc = "retain", !.live = {l \in Links : table[l].live}]
    /\ UNCHANGED <<table, specs, states, setter, cache, now, dump, seen, changes>>

RetainSpecs ==
    /\ kernel.pc = "retain"
    /\ specs' = [l \in Links |-> IF l \in kernel.live THEN specs[l] ELSE <<>>]
    /\ kernel' = Idle
    /\ cache' = Flushed
    /\ table' = table /\ See
    /\ UNCHANGED <<states, setter, now, dump, changes>>

\* A query leaves what it learned with one server of a link.
Learn(l, i, state) ==
    LET list == project_link_specs(table[l].dns, specs[l])
        key == server_keys_for_specs(l, list)[i]
    IN  /\ table[l].live /\ i \in DOMAIN list /\ Changing
        /\ states' = [k \in DOMAIN states \union {key} |-> IF k = key THEN state ELSE states[k]]
        /\ UNCHANGED <<table, specs, setter, kernel, cache, now, dump, seen>>

Insert(k, v) ==
    /\ Changing
    /\ cache' = [cache EXCEPT ![k] = [rcode |-> v.rcode, records |-> v.records, expires |-> now + v.ttl,
                                      stale_until |-> now + v.ttl + MAX_STALE]]
    /\ UNCHANGED <<table, specs, states, setter, kernel, now, dump, seen>>

Tick ==
    /\ now < MaxTime /\ now' = now + 1
    /\ UNCHANGED <<table, specs, states, setter, kernel, cache, dump, seen, changes>>

\* -------------------------------------------------------------------- dumps
\* kernel_relevant_unicast: link-local addresses reach link-local servers only.
kernel_relevant_unicast(link) ==
    link.up = "global" \/ (link.up = "local" /\ ToSet(link.dns) \intersect LinkLocal # {})

\* dns_server_configuration: a spec that names an interface is shown with it,
\* any other with the link's.
dns_server_configuration(spec, ifindex, accessible) ==
    [address |-> spec.address, name |-> spec.name, accessible |-> accessible,
     ifindex |-> IF spec.interface # 0 THEN spec.interface ELSE ifindex]
configured_server_specs(list) ==
    IF list.specs = <<>> THEN [i \in DOMAIN list.addresses |-> Bare(list.addresses[i])] ELSE list.specs
Shown(list, ifindex, accessible) ==
    [i \in DOMAIN list |-> dns_server_configuration(list[i], ifindex, accessible)]

global_dns_configuration ==
    [link |-> 0, modes |-> Global.modes, specs |-> configured_server_specs(Global.upstreams),
     servers |-> Shown(configured_server_specs(Global.upstreams), 0, TRUE),
     fallback |-> Shown(configured_server_specs(Global.fallback), 0, TRUE)]
link_dns_configuration(link, list) ==
    [link |-> link.ifindex, modes |-> link.state.modes, specs |-> list, fallback |-> <<>>,
     servers |-> Shown(list, link.ifindex, kernel_relevant_unicast(link.state))]

\* extend_server_state_descriptors, and the row of each descriptor.
Descriptors(scope, list, modes) ==
    [i \in DOMAIN list |->
        [key |-> server_keys_for_specs(scope, list)[i], link |-> scope, spec |-> list[i], modes |-> modes]]
resolver_feature_level_name(level, mode, tls) ==
    CASE tls -> IF level = DnssecOk THEN "TLS+EDNS0+DO" ELSE "TLS+EDNS0"
      [] ~tls /\ level = DnssecOk -> "UDP+EDNS0+DO"
      [] ~tls /\ level = Edns0 -> "UDP+EDNS0"
      [] ~tls /\ level = Udp -> IF mode = "Tcp" THEN "TCP" ELSE "UDP"
Best(dnssec) == IF dnssec = "no" THEN Edns0 ELSE DnssecOk
Row(d) ==
    LET state == StateOf(d.key)
        tls == d.modes.tls # "no"
    IN  [link |-> d.link, spec |-> d.spec, modes |-> d.modes, state |-> state,
         verified |-> IF state.once
                      THEN resolver_feature_level_name(state.verified, state.mode, tls /\ state.tlsVerified)
                      ELSE "n/a",
         possible |-> resolver_feature_level_name(MinOf(state.possible, Best(d.modes.dnssec)), state.mode,
                                                  tls /\ state.tlsPossible),
         supported |-> d.modes.dnssec = "yes"
                       \/ (~state.badOpt /\ ~state.noRrsig /\ ~state.doOff
                             /\ state.failedTcp < TRANSPORT_RETRY_ATTEMPTS)]

\* monitor_cache_entry, with the uptime read for it; 0 when it cannot be read.
cache_type_name(rcode) ==
    CASE rcode = 0 -> "NODATA" [] rcode = 2 -> "SERVFAIL" [] rcode = 3 -> "NXDOMAIN"
      [] rcode = 5 -> "REFUSED" [] OTHER -> "ERROR"
monitor_cache_entry(e, uptime) ==
    [key |-> e.key, entry |-> e.entry, uptime |-> uptime, until |-> uptime + e.remaining,
     shows |-> IF e.entry.rcode = 0 /\ e.entry.records > 0 THEN "rrs" ELSE cache_type_name(e.entry.rcode)]

StartDump(kind) ==
    /\ dump.pc = "idle"
    /\ dump' = [dump EXCEPT !.kind = kind, !.since = now,
                            !.pc = IF kind = "cache" THEN "shards" ELSE "links",
                            !.shards = IF kind = "cache" THEN Shards ELSE {},
                            !.reply = CASE kind = "configuration" -> <<global_dns_configuration>>
                                        [] kind = "servers" ->
                                              Descriptors(0, filtered_server_specs(Global.upstreams), Global.modes)
                                              \o Descriptors(-1, filtered_server_specs(Global.fallback),
                                                             Global.modes)
                                        [] kind = "cache" -> <<>>]
    /\ seen' = [l \in Links |-> [states |-> {table[l]}, specs |-> {specs[l]}]]
    /\ UNCHANGED <<table, specs, states, setter, kernel, cache, now, changes>>

Dumping == UNCHANGED <<table, specs, states, setter, kernel, cache, now, seen, changes>>

\* links: a copy of the table, in the order of the indexes.  A cache dump adds
\* a scope without entries for each and is done.
ReadLinks ==
    LET live == {l \in Links : table[l].live}
        copy == [i \in 1 .. Cardinality(live) |->
                    LET l == CHOOSE x \in live : Cardinality({y \in live : y < x}) = i - 1
                    IN  [ifindex |-> l, state |-> table[l]]]
    IN  /\ dump.pc = "links"
        /\ dump' = IF dump.kind = "cache" THEN [dump EXCEPT !.pc = "replied"]
                   ELSE [dump EXCEPT !.pc = "link", !.left = copy]
        /\ Dumping

\* link_dns_specs: the addresses of the link as it is now, then its specs.
Servers(list) ==
    LET link == Head(dump.left)
    IN  [dump EXCEPT !.pc = "link", !.left = Tail(@), !.addresses = <<>>,
            !.reply = IF dump.kind = "configuration" THEN Append(@, link_dns_configuration(link, list))
                      ELSE @ \o Descriptors(link.ifindex, list, link.state.modes)]
ReadAddresses ==
    /\ dump.pc = "link" /\ dump.left # <<>>
    /\ LET link == table[Head(dump.left).ifindex]
       IN  dump' = IF link.live THEN [dump EXCEPT !.pc = "specs", !.addresses = link.dns] ELSE Servers(<<>>)
    /\ Dumping
ReadSpecs ==
    /\ dump.pc = "specs"
    /\ dump' = Servers(project_link_specs(dump.addresses, specs[Head(dump.left).ifindex]))
    /\ Dumping

\* The states of all servers are read under one lock.
Reply ==
    /\ dump.pc = "link" /\ dump.left = <<>>
    /\ dump' = [dump EXCEPT !.pc = "replied",
                            !.reply = IF dump.kind = "configuration" THEN @
                                      ELSE [i \in DOMAIN @ |-> Row(@[i])]]
    /\ Dumping

\* cache_snapshot takes the time first; what may still be served then is kept.
ReadShard(S) ==
    /\ dump.pc = "shards" /\ S \in dump.shards
    /\ dump' = [dump EXCEPT !.shards = @ \ {S},
            !.found = @ \union
                {[key |-> k, entry |-> cache[k],
                  remaining |-> IF cache[k].expires > dump.since THEN cache[k].expires - dump.since ELSE 0] :
                     k \in {j \in S : dump.since < cache[j].stale_until}}]
    /\ Dumping

ShowEntry(e) ==
    /\ dump.pc = "shards" /\ dump.shards = {} /\ e \in dump.found
    /\ \A o \in dump.found : e.key <= o.key
    /\ \E uptime \in {0, now} :
          dump' = [dump EXCEPT !.found = @ \ {e}, !.reply = Append(@, monitor_cache_entry(e, uptime))]
    /\ Dumping

EntriesShown ==
    /\ dump.pc = "shards" /\ dump.shards = {} /\ dump.found = {}
    /\ dump' = [dump EXCEPT !.pc = "links"]
    /\ Dumping

Next ==
    \/ \E l \in Links : \/ \E list \in SpecLists : SetTable(l, list)
                        \/ \E modes \in LinkModes : SetModes(l, modes)
                        \/ \E state \in Synced(l) : SyncTable(l, state)
                        \/ \E i \in 1 .. 3, state \in Learned : Learn(l, i, state)
    \/ SetSpecs \/ ReadLive \/ RetainSpecs \/ Tick
    \/ \E k \in Keys, v \in Values : Insert(k, v)
    \/ \E kind \in {"configuration", "servers", "cache"} : StartDump(kind)
    \/ ReadLinks \/ ReadAddresses \/ ReadSpecs \/ Reply
    \/ \E S \in dump.shards : ReadShard(S)
    \/ \E e \in dump.found : ShowEntry(e)
    \/ EntriesShown
Spec == Init /\ [][Next]_vars

-----------------------------------------------------------------------------
TypeOK ==
    /\ \A l \in Links : table[l].up \in Kernels \union {"global"} /\ table[l].live \in BOOLEAN
    /\ dump.pc \in {"idle", "shards", "links", "link", "specs", "replied"}
    /\ now \in 0 .. MaxTime /\ changes \in 0 .. MaxChanges

Replied(kind) == dump.pc = "replied" /\ dump.kind = kind
OfLink(l) == SelectSeq(dump.reply, LAMBDA e : e.link = l)

\* The servers shown for a link are those of one moment of the call: its
\* addresses in their order, with names that were stored for them, or none if
\* the link was away; with no change during the call they are exactly what
\* queries use.
ServersOfAMoment(l, list) ==
    /\ \/ list = <<>> /\ \E s \in seen[l].states : ~s.live
       \/ \E s \in seen[l].states : s.live /\ Distinct(Addresses(list)) = s.dns
    /\ \A spec \in ToSet(list) :
          spec # Bare(spec.address) => \E stored \in seen[l].specs : spec \in ToSet(stored)
    /\ \A s \in seen[l].states, stored \in seen[l].specs :
          (seen[l].states = {s} /\ seen[l].specs = {stored}) =>
              list = IF s.live THEN project_link_specs(s.dns, stored) ELSE <<>>

\* DumpDNSConfiguration, while links and their settings change: a link that was
\* there all along has one entry, an entry's settings and its reachability are
\* those of one moment, its servers those of one moment, perhaps another.
ConfigurationTrue ==
    Replied("configuration") => \A l \in Links :
        /\ Len(OfLink(l)) <= 1
        /\ (\A s \in seen[l].states : s.live) => Len(OfLink(l)) = 1
        /\ \A e \in ToSet(OfLink(l)) :
              /\ \E s \in seen[l].states :
                    /\ s.live /\ e.modes = s.modes
                    /\ \A x \in ToSet(e.servers) : x.accessible = kernel_relevant_unicast(s)
              /\ ServersOfAMoment(l, e.specs)

\* DumpServerState: the rows of a link likewise, one for each server; no level
\* above what the modes shown let a query try, and no server is shown twice.
ServerRowsTrue ==
    Replied("servers") =>
        /\ \A l \in Links :
              LET rows == OfLink(l)
              IN  rows # <<>> =>
                    /\ ServersOfAMoment(l, [i \in DOMAIN rows |-> rows[i].spec])
                    /\ \E s \in seen[l].states : s.live /\ \A i \in DOMAIN rows : rows[i].modes = s.modes
        /\ \A i \in DOMAIN dump.reply :
              LET row == dump.reply[i]
              IN  /\ row.modes.dnssec = "no" => row.possible \notin {"UDP+EDNS0+DO", "TLS+EDNS0+DO"}
                  /\ row.modes.tls = "no" => row.possible \notin {"TLS+EDNS0", "TLS+EDNS0+DO"}
                  /\ \A j \in DOMAIN dump.reply : j # i => <<dump.reply[j].link, dump.reply[j].spec>>
                                                          # <<row.link, row.spec>>

\* DumpCache: an entry is shown once and never as ending before it does, nor
\* later than the dump took; one past serving is not shown.
EntriesInTime ==
    dump.kind = "cache" => \A i \in DOMAIN dump.reply :
        LET e == dump.reply[i]
        IN  /\ dump.since < e.entry.stale_until
            /\ e.uptime # 0 =>
                  /\ e.entry.expires <= e.until
                  /\ e.until <= e.uptime + e.entry.expires - dump.since \/ e.until = e.uptime
            /\ \A j \in DOMAIN dump.reply : j # i => dump.reply[j].key # e.key
=============================================================================
