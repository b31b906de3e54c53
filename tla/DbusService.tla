----------------------------- MODULE DbusService -----------------------------
(***************************************************************************)
(* The D-Bus service: the loop of DbusServer::run that keeps one bus       *)
(* object per link (synchronize_link_objects), the calls that reach the    *)
(* resolver through those objects or through the manager, and what a call  *)
(* converts on its way in and out.  Calls run on the bus connection's own  *)
(* thread, between any two steps of the loop.                              *)
(*                                                                         *)
(* The resolver behind a call is atomic here; LinkRouting takes its locks  *)
(* apart.  A server is [ip, port, name]; BadIp stands for octets whose     *)
(* number does not fit their family.                                       *)
(***************************************************************************)
EXTENDS Naturals, Sequences, SequencesExt

CONSTANTS
    Ifindexes,      \* interface indexes
    ServerLists,    \* arguments of SetDNSEx
    Modes,          \* arguments of the mode setters: [setting, value]
    ManagedLists,   \* servers that networkd configures
    MaxChanges,     \* bound on the changes of kernel and networkd
    MaxFaults       \* bound on the failures of the bus

VARIABLES
    links,          \* the resolver's links: [servers, modes, managed] by index
    synchronized,   \* the kernel's links have been read once
    objects,        \* the links that have an object on the bus
    registered,     \* the links the loop believes have one
    loop,           \* [pc, current, gone]: its place, its snapshot, what it removed
    stop,           \* a stop was requested
    call,           \* the call in progress: [at, via, link, op, arg]
    changes, faults

vars == <<links, synchronized, objects, registered, loop, stop, call, changes, faults>>

BadIp == "bad"
NoMode == [setting |-> "none", value |-> ""]
NewLink == [servers |-> <<>>, managed |-> FALSE,
            modes |-> [LLMNR |-> "Yes", DNSOverTLS |-> "No", DNSSEC |-> "AllowDowngrade"]]
Idle == [at |-> "idle", via |-> "", link |-> 0, op |-> "", servers |-> <<>>, mode |-> NoMode]
LoopAt(pc, current) == [pc |-> pc, current |-> current, gone |-> {}]
Put(f, i, v) == [j \in DOMAIN f \union {i} |-> IF j = i THEN v ELSE f[j]]

\* ----------------------------------------------------------- conversions
MutantInputPort(port) == IF port \in {0, 53} THEN 53 ELSE port
dns_ex_input_port(port) == IF port \in {0, 53, 853} THEN 53 ELSE port
dns_ex_output_port(port) == IF port \in {53, 853} THEN 0 ELSE port

\* decode_dns_server_specs and what set_link_dns_specs and link_dns_specs make
\* of it together: each address once, in order, with every specification it was
\* given.  The order the specifications are stored in is not kept apart from the
\* order they are reported in.
decode_dns_server_specs(list) ==
    [i \in 1..Len(list) |-> [list[i] EXCEPT !.port = dns_ex_input_port(@)]]
Project(specs) ==
    LET At(s) == [ip |-> s.ip, port |-> s.port]
        Add(out, e) == IF Contains(out, e) THEN out ELSE Append(out, e)
        addresses == FoldLeft(LAMBDA out, s : Add(out, At(s)), <<>>, specs)
        Of(a) == SelectSeq(specs, LAMBDA s : At(s) = a)
    IN  FoldLeft(LAMBDA out, a : FoldLeft(Add, out, Of(a)), <<>>, addresses)

\* link_dns_ex_entry.
dns_ex(i) == [k \in 1..Len(links[i].servers) |->
                 [links[i].servers[k] EXCEPT !.port = dns_ex_output_port(@)]]

\* The words a mode is set with and the word it reads as.
False == {"no", "false", "off", "0"}
True == {"yes", "true", "on", "1"}
parse_support_mode(value) ==
    CASE value \in True \union {""} -> "Yes" [] value = "resolve" -> "Resolve"
      [] value \in False -> "No" [] OTHER -> "InvalidArgs"
parse_tls_mode(value) ==
    CASE value \in False \union {""} -> "No" [] value = "opportunistic" -> "Opportunistic"
      [] value \in True -> "Yes" [] OTHER -> "InvalidArgs"
parse_validation_mode(value) ==
    CASE value \in {"", "allow-downgrade"} -> "AllowDowngrade"
      [] value \in False -> "No" [] value \in True -> "Yes" [] OTHER -> "InvalidArgs"
parse_mode(setting, value) ==
    CASE setting = "LLMNR" -> parse_support_mode(value)
      [] setting = "DNSOverTLS" -> parse_tls_mode(value)
      [] setting = "DNSSEC" -> parse_validation_mode(value)
mode_string(mode) ==
    CASE mode = "No" -> "no" [] mode = "Yes" -> "yes" [] mode = "Resolve" -> "resolve"
      [] mode = "Opportunistic" -> "opportunistic" [] mode = "AllowDowngrade" -> "allow-downgrade"

\* ------------------------------------------------------------ the resolver
\* link_mut: unknown links are accepted until the kernel has been read.
link_mut(i) == i \in DOMAIN links \/ ~synchronized
Current(i) == IF i \in DOMAIN links THEN links[i] ELSE NewLink

\* Netlink hands over the kernel's links (Routing::sync_kernel_links).
sync_kernel_links(found) ==
    /\ changes < MaxChanges /\ changes' = changes + 1
    /\ links' = [i \in found |-> Current(i)]
    /\ synchronized' = TRUE
    /\ UNCHANGED <<objects, registered, loop, stop, call, faults>>

\* networkd takes a link over, or gives it up and the link is reverted.  The
\* file leaves the modes at their defaults, and networkd forgets a link that
\* is gone; LinkRouting has files that differ and arrive at any time.
Manage(i, list) ==
    /\ changes < MaxChanges /\ changes' = changes + 1
    /\ i \in DOMAIN links
    /\ links' = [links EXCEPT ![i] = [NewLink EXCEPT !.servers = list, !.managed = TRUE]]
    /\ UNCHANGED <<synchronized, objects, registered, loop, stop, call, faults>>

Unmanage(i) ==
    /\ changes < MaxChanges /\ changes' = changes + 1
    /\ i \in DOMAIN links /\ links[i].managed
    /\ links' = [links EXCEPT ![i] = NewLink]
    /\ UNCHANGED <<synchronized, objects, registered, loop, stop, call, faults>>

\* ---------------------------------------------------------------- the loop
\* synchronize_link_objects takes its snapshot, adds the objects that are
\* missing, removes those of links that are gone, and remembers the snapshot.
Snapshot ==
    /\ loop.pc = "sleep"
    /\ IF stop THEN loop' = LoopAt("end", {})
       ELSE loop' = LoopAt("sync", DOMAIN links)
    /\ UNCHANGED <<links, synchronized, objects, registered, stop, call, changes, faults>>

AddObject(i) ==
    /\ loop.pc = "sync" /\ i \in loop.current \ registered /\ i \notin objects
    /\ objects' = objects \union {i}
    /\ UNCHANGED <<links, synchronized, registered, loop, stop, call, changes, faults>>

AllAdded == loop.pc = "sync" /\ loop.current \ registered \subseteq objects

Fail ==
    /\ loop' = LoopAt("failed", {})
    /\ stop' = TRUE

\* Removing an object that is not there is an error of the bus library.
RemoveObject(i) ==
    /\ AllAdded /\ i \in registered \ (loop.current \union loop.gone)
    /\ IF i \in objects
       THEN /\ objects' = objects \ {i}
            /\ loop' = [loop EXCEPT !.gone = @ \union {i}]
            /\ UNCHANGED stop
       ELSE Fail /\ UNCHANGED objects
    /\ UNCHANGED <<links, synchronized, registered, call, changes, faults>>

Remember ==
    /\ AllAdded /\ registered \subseteq loop.current \union loop.gone
    /\ registered' = loop.current
    /\ loop' = LoopAt("sleep", {})
    /\ UNCHANGED <<links, synchronized, objects, stop, call, changes, faults>>

\* The bus fails under the loop: the thread ends and stops the daemon.
BusFails ==
    /\ loop.pc = "sync" /\ faults < MaxFaults /\ faults' = faults + 1
    /\ Fail
    /\ UNCHANGED <<links, synchronized, objects, registered, call, changes>>

RequestStop ==
    /\ ~stop /\ faults < MaxFaults /\ faults' = faults + 1 /\ stop' = TRUE
    /\ UNCHANGED <<links, synchronized, objects, registered, loop, call, changes>>

\* --------------------------------------------------------------- the calls
\* A method is called on the manager, or on a link's object: an object that
\* is not there is refused by the bus library.
Call(via, i, op, servers, mode) ==
    /\ call.at = "idle"
    /\ via = "object" => i \in objects
    /\ call' = [at |-> "called", via |-> via, link |-> i, op |-> op,
                servers |-> servers, mode |-> mode]
    /\ UNCHANGED <<links, synchronized, objects, registered, loop, stop, changes, faults>>

Reply(result) == call' = [Idle EXCEPT !.at = result, !.link = call.link, !.op = call.op]
Refuse(result) == Reply(result) /\ UNCHANGED links
Store(link) == Reply("ok") /\ links' = Put(links, call.link, link)

\* ensure_link_writable, then link_mut: map_link_error says what the caller hears.
Write(link) ==
    CASE Current(call.link).managed -> Refuse("LinkBusy")
      [] ~link_mut(call.link) -> Refuse("NoSuchLink")
      [] OTHER -> Store(link)

set_dns_ex ==
    /\ call.at = "called" /\ call.op = "SetDNSEx"
    /\ IF \E k \in DOMAIN call.servers : call.servers[k].ip = BadIp
       THEN Refuse("InvalidArgs")
       ELSE Write([Current(call.link) EXCEPT !.servers =
                      Project(decode_dns_server_specs(call.servers))])
    /\ UNCHANGED <<synchronized, objects, registered, loop, stop, changes, faults>>

set_mode ==
    /\ call.at = "called" /\ call.op = "SetMode"
    /\ LET mode == parse_mode(call.mode.setting, call.mode.value)
       IN  IF mode = "InvalidArgs" THEN Refuse(mode)
           ELSE Write([Current(call.link) EXCEPT !.modes[call.mode.setting] = mode])
    /\ UNCHANGED <<synchronized, objects, registered, loop, stop, changes, faults>>

revert ==
    /\ call.at = "called" /\ call.op = "Revert"
    /\ Write(NewLink)
    /\ UNCHANGED <<synchronized, objects, registered, loop, stop, changes, faults>>

\* get_link answers from the resolver, not from the objects.
get_link ==
    /\ call.at = "called" /\ call.op = "GetLink"
    /\ Refuse(IF call.link \in DOMAIN links THEN "path" ELSE "NoSuchLink")
    /\ UNCHANGED <<synchronized, objects, registered, loop, stop, changes, faults>>

Hear ==
    /\ call.at \notin {"idle", "called"} /\ call' = Idle
    /\ UNCHANGED <<links, synchronized, objects, registered, loop, stop, changes, faults>>

Init ==
    /\ links = [i \in {} |-> NewLink] /\ synchronized = FALSE
    /\ objects = {} /\ registered = {} /\ loop = LoopAt("sleep", {})
    /\ stop = FALSE /\ call = Idle /\ changes = 0 /\ faults = 0

LoopStep == Snapshot \/ Remember \/ \E i \in Ifindexes : AddObject(i) \/ RemoveObject(i)
Execute == set_dns_ex \/ set_mode \/ revert \/ get_link

Next ==
    \/ LoopStep \/ Execute \/ Hear \/ BusFails \/ RequestStop
    \/ \E found \in SUBSET Ifindexes : sync_kernel_links(found)
    \/ \E i \in Ifindexes :
        \/ Unmanage(i)
        \/ \E list \in ManagedLists : Manage(i, list)
        \/ Call("manager", i, "GetLink", <<>>, NoMode)
        \/ \E via \in {"manager", "object"} :
            \/ Call(via, i, "Revert", <<>>, NoMode)
            \/ \E list \in ServerLists : Call(via, i, "SetDNSEx", list, NoMode)
            \/ \E mode \in Modes : Call(via, i, "SetMode", <<>>, mode)

\* The loop sleeps 100 ms between two passes and is never blocked.
Fairness == WF_vars(LoopStep)
Spec == Init /\ [][Next]_vars /\ Fairness

\* ------------------------------------------------------------- properties
TypeOK ==
    /\ DOMAIN links \subseteq Ifindexes /\ objects \subseteq Ifindexes
    /\ registered \subseteq Ifindexes /\ loop.current \subseteq Ifindexes
    /\ \A i \in DOMAIN links : \A m \in DOMAIN links[i].modes : links[i].modes[m] # "InvalidArgs"
    /\ loop.pc \in {"sleep", "sync", "end", "failed"}
    /\ stop \in BOOLEAN /\ synchronized \in BOOLEAN

\* What a client reads from DNSEx and the modes, it can write back without
\* changing the link: ports 53 and 853 read as 0 and are written as 53, a
\* missing name as the empty string, modes by the words that parse to them.
ReadBackIsNoChange ==
    \A i \in DOMAIN links : ~links[i].managed =>
        /\ Project(decode_dns_server_specs(dns_ex(i))) = links[i].servers
        /\ \A m \in DOMAIN links[i].modes :
               parse_mode(m, mode_string(links[i].modes[m])) = links[i].modes[m]

\* The path that GetLink returned leads to an object, unless the link went or
\* the daemon stops; and the object of a link that is gone goes too.
ObjectsFollowLinks ==
    \A i \in Ifindexes :
        /\ i \in DOMAIN links ~> (i \in objects \/ i \notin DOMAIN links \/ stop)
        /\ i \notin DOMAIN links ~> (i \notin objects \/ i \in DOMAIN links \/ stop)
=============================================================================
