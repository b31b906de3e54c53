---------------------------- MODULE MdnsResponder ----------------------------
(***************************************************************************)
(* The mDNS responders of several hosts on shared links: responder_loop of *)
(* mdns_responder.rs with the probing automaton of mdns_full.rs.           *)
(*                                                                         *)
(* An interface is an index and a family, so it has one type of address    *)
(* record, and its set of addresses is represented by its rank in the      *)
(* order probe_tie_break compares by.  A name is the ordinal put after the *)
(* host name, which all hosts have in common; generation, which changes    *)
(* with it, is the ordinal as well.  The loop visits every interface each  *)
(* 10 ms and never waits for one: a visit of an interface and the receipt  *)
(* of a datagram are steps that can be taken at any time.  Deadlines are   *)
(* steps that may be late; recent stands for a defense less than           *)
(* DEFENSE_WINDOW ago.  A datagram that fails validate_ingress or          *)
(* parse_message is dropped there, which is one way of losing it.          *)
(*                                                                         *)
(* lossy and trail are history variables.                                  *)
(***************************************************************************)
EXTENDS Naturals, FiniteSets

CONSTANTS
    Hosts,
    Interfaces,
    Addresses,     \* Addresses[h][i]: what h can be given on i, ranks
    MaxOrdinal,    \* bound: names a host goes through
    MaxChanges,    \* bound: changes of addresses
    MaxInFlight,   \* datagrams the socket buffers hold
    Faulty         \* whether sends may fail and datagrams be lost

NoAddress == 0
MDNS_PROBE_COUNT == 3
MDNS_ANNOUNCEMENT_COUNT == 2

VARIABLES
    kernel,   \* kernel[h][i]: the address of i, or NoAddress
    changes,  \* changes of kernel so far
    running,  \* running[h]: the stop flag is not set
    name,     \* name[h]: NameState
    state,    \* state[h][i]: InterfaceState, or Closed
    net,      \* datagrams in the socket buffers
    lossy,    \* a datagram was lost
    trail     \* trail[h][i]: the claim last probed for on i, and how often in
              \* a row since the socket was opened

vars == <<kernel, changes, running, name, state, net, lossy, trail>>

Closed == [phase |-> "closed", probes |-> 0, announcements |-> 0,
           address |-> NoAddress, generation |-> 0, recent |-> FALSE]
NoTrail == [name |-> 0, address |-> NoAddress, count |-> 0]

Claims == UNION {Addresses[h][i] : h \in Hosts, i \in Interfaces}

(* What two hosts say about a name.  A goodbye is a response as well:      *)
(* detect_conflict does not look at the TTL.                               *)
Datagrams == [to : Hosts, on : Interfaces, kind : {"probe", "response"},
              name : 1..MaxOrdinal, address : Claims]

TypeOK ==
    /\ \A h \in Hosts, i \in Interfaces : kernel[h][i] \in Addresses[h][i] \cup {NoAddress}
    /\ changes \in 0..MaxChanges
    /\ running \in [Hosts -> BOOLEAN]
    /\ name \in [Hosts -> 1..MaxOrdinal]
    /\ \A h \in Hosts, i \in Interfaces :
          /\ state[h][i].phase \in {"closed", "probing", "announcing", "established"}
          /\ state[h][i].probes \in 0..MDNS_PROBE_COUNT
          /\ state[h][i].announcements \in 0..MDNS_ANNOUNCEMENT_COUNT
          /\ state[h][i].generation \in 0..MaxOrdinal
          /\ state[h][i].recent \in BOOLEAN
          /\ state[h][i].address \in Addresses[h][i] \cup {NoAddress}
          /\ state[h][i].phase # "closed" => state[h][i].address # NoAddress
    /\ net \subseteq Datagrams
    /\ lossy \in BOOLEAN

-----------------------------------------------------------------------------
(* MdnsProbeState::new, with the rest of a fresh InterfaceState.           *)
NewInterface(address, n) ==
    [phase |-> "probing", probes |-> 0, announcements |-> 0,
     address |-> address, generation |-> n, recent |-> FALSE]

restart_probe(s, n) == IF s.phase = "closed" THEN s ELSE NewInterface(s.address, n)

MutantPoll(s) ==
    CASE s.phase = "probing" ->
            [s EXCEPT !.probes = @ + 1,
                      !.phase = IF s.probes + 1 = MDNS_PROBE_COUNT THEN "announcing" ELSE @]
      [] OTHER -> s

(* The state is advanced here, whatever becomes of the datagram.           *)
poll(s) ==
    CASE s.phase = "probing" ->
            [s EXCEPT !.probes = @ + 1,
                      !.phase = IF s.probes + 1 = MDNS_PROBE_COUNT THEN "announcing" ELSE @]
      [] s.phase = "announcing" ->
            [s EXCEPT !.announcements = @ + 1,
                      !.phase = IF s.announcements + 1 = MDNS_ANNOUNCEMENT_COUNT
                                THEN "established" ELSE @]
      [] OTHER -> s

(* What a multicast puts into the buffers of the sockets open on the link. *)
Multicast(h, i, kind) ==
    {[to |-> g, on |-> i, kind |-> kind, name |-> name[h], address |-> state[h][i].address] :
        g \in {g \in Hosts \ {h} : state[g][i].phase # "closed"}}

(* send_multicast returns Ok (sent) and the datagrams reach every socket;  *)
(* or some are lost, with the sender told or not.  base is what else the   *)
(* buffers hold.                                                           *)
Send(base, datagrams, sent) ==
    \/ /\ sent
       /\ Cardinality(base \cup datagrams) <= MaxInFlight
       /\ net' = base \cup datagrams
       /\ UNCHANGED lossy
    \/ /\ Faulty
       /\ lossy' = TRUE
       /\ \E arrived \in SUBSET datagrams :
             /\ Cardinality(base \cup arrived) <= MaxInFlight
             /\ net' = base \cup arrived

-----------------------------------------------------------------------------
Init ==
    /\ kernel \in [Hosts -> [Interfaces -> Claims \cup {NoAddress}]]
    /\ \A h \in Hosts, i \in Interfaces : kernel[h][i] \in Addresses[h][i] \cup {NoAddress}
    /\ changes = 0
    /\ running = [h \in Hosts |-> TRUE]
    /\ name = [h \in Hosts |-> 1]
    /\ state = [h \in Hosts |-> [i \in Interfaces |-> Closed]]
    /\ net = {}
    /\ lossy = FALSE
    /\ trail = [h \in Hosts |-> [i \in Interfaces |-> NoTrail]]

ChangeAddress(h, i, address) ==
    /\ changes < MaxChanges
    /\ address # kernel[h][i]
    /\ changes' = changes + 1
    /\ kernel' = [kernel EXCEPT ![h][i] = address]
    /\ UNCHANGED <<running, name, state, net, lossy, trail>>

(* The interfaces of the host that have an address.                        *)
discover_interfaces(h) == {i \in Interfaces : kernel[h][i] # NoAddress}

(* synchronize_interfaces, unless discover_interfaces fails, with opened   *)
(* the interfaces open_socket succeeds on.  An interface whose addresses   *)
(* changed is closed and opened afresh.                                    *)
synchronize_interfaces(h, opened) ==
    LET kept == {i \in Interfaces : /\ state[h][i].phase # "closed"
                                    /\ kernel[h][i] = state[h][i].address}
        new == (discover_interfaces(h) \ kept) \cap opened
    IN  /\ running[h]
        /\ state' = [state EXCEPT ![h] =
                        [i \in Interfaces |->
                            IF i \in kept THEN @[i]
                            ELSE IF i \in new THEN NewInterface(kernel[h][i], name[h])
                            ELSE Closed]]
        /\ trail' = [trail EXCEPT ![h] =
                        [i \in Interfaces |-> IF i \in kept THEN @[i] ELSE NoTrail]]
        /\ net' = {m \in net : m.to = h => m.on \in kept}
        /\ UNCHANGED <<kernel, changes, running, name, lossy>>

(* A visit of the interface: drive_probe, after a restart if the name was  *)
(* changed since.                                                          *)
drive_probe(h, i, sent) ==
    LET s == IF state[h][i].generation # name[h]
             THEN restart_probe(state[h][i], name[h]) ELSE state[h][i]
    IN  /\ running[h]
        /\ s.phase \in {"probing", "announcing"}
        /\ state' = [state EXCEPT ![h][i] = poll(s)]
        /\ Send(net, Multicast(h, i, IF s.phase = "probing" THEN "probe" ELSE "response"), sent)
        /\ trail' = IF s.phase # "probing" THEN trail
                    ELSE [trail EXCEPT ![h][i] =
                            [name |-> name[h], address |-> s.address,
                             count |-> IF @.name = name[h] /\ @.address = s.address
                                       THEN @.count + 1 ELSE 1]]
        /\ UNCHANGED <<kernel, changes, running, name>>

MutantDetectConflict(h, m) ==
    LET s == state[h][m.on]
    IN  /\ s.phase # "established"
        /\ m.name = name[h] /\ m.address # s.address
        /\ m.kind = "probe" => s.address < m.address

(* The interface's records and the datagram's differ.  A probe seen while  *)
(* probing counts only if theirs come later in the order.                  *)
detect_conflict(h, m) ==
    LET s == state[h][m.on]
    IN  /\ m.name = name[h]
        /\ m.address # s.address
        /\ s.phase # "established" /\ m.kind = "probe" => s.address < m.address

(* The name is given up on all interfaces.                                 *)
rename(h) ==
    /\ name' = [name EXCEPT ![h] = @ + 1]
    /\ state' = [state EXCEPT ![h] = [i \in Interfaces |-> restart_probe(@[i], name[h] + 1)]]

(* A conflict the host does not answer by a defense: still probing, or     *)
(* defended already in this window.                                        *)
ReceiveAndRename(h, m) ==
    /\ running[h] /\ m.to = h
    /\ detect_conflict(h, m)
    /\ state[h][m.on].phase # "established" \/ state[h][m.on].recent
    /\ name[h] < MaxOrdinal
    /\ rename(h)
    /\ net' = net \ {m}
    /\ UNCHANGED <<kernel, changes, running, lossy, trail>>

(* A conflict the host defends its name in.  A probe is a question as well *)
(* and is then answered too, which says the same again.                    *)
ReceiveAndDefend(h, m, sent) ==
    /\ running[h] /\ m.to = h
    /\ detect_conflict(h, m)
    /\ state[h][m.on].phase = "established" /\ ~state[h][m.on].recent
    /\ Send(net \ {m}, Multicast(h, m.on, "response"), sent)
    /\ state' = [state EXCEPT ![h][m.on].recent = sent]
    /\ UNCHANGED <<kernel, changes, running, name, trail>>

(* A datagram that is no conflict: about another name, or a probe that     *)
(* loses to the host's own.  There is nothing in it to answer.             *)
ReceiveAndGoOn(h, m) ==
    /\ running[h] /\ m.to = h
    /\ ~detect_conflict(h, m)
    /\ net' = net \ {m}
    /\ UNCHANGED <<kernel, changes, running, name, state, lossy, trail>>

(* A client asks for the name and the answer is multicast.  One that goes  *)
(* to the client alone (a legacy or QU question), or to nobody (the client *)
(* knows it already), changes nothing.                                     *)
answer_query(h, i, sent) ==
    /\ running[h]
    /\ state[h][i].phase = "established"
    /\ Send(net, Multicast(h, i, "response"), sent)
    /\ UNCHANGED <<kernel, changes, running, name, state, trail>>

(* DEFENSE_WINDOW passes since the last defense on the interface.          *)
WindowPasses(h, i) ==
    /\ state[h][i].recent
    /\ state' = [state EXCEPT ![h][i].recent = FALSE]
    /\ UNCHANGED <<kernel, changes, running, name, net, lossy, trail>>

(* MdnsResponder is dropped: the loop ends and says goodbye.               *)
Stop(h, sent) ==
    /\ running[h]
    /\ running' = [running EXCEPT ![h] = FALSE]
    /\ Send({m \in net : m.to # h},
            UNION {Multicast(h, i, "response") :
                     i \in {i \in Interfaces : state[h][i].phase # "closed"}},
            sent)
    /\ state' = [state EXCEPT ![h] = [i \in Interfaces |-> Closed]]
    /\ trail' = [trail EXCEPT ![h] = [i \in Interfaces |-> NoTrail]]
    /\ UNCHANGED <<kernel, changes, name>>

-----------------------------------------------------------------------------
Next ==
    \E h \in Hosts :
        \/ \E i \in Interfaces, address \in Claims \cup {NoAddress} :
              address \in Addresses[h][i] \cup {NoAddress} /\ ChangeAddress(h, i, address)
        \/ \E opened \in SUBSET Interfaces : synchronize_interfaces(h, opened)
        \/ \E i \in Interfaces, sent \in BOOLEAN : drive_probe(h, i, sent)
        \/ \E i \in Interfaces, sent \in BOOLEAN : answer_query(h, i, sent)
        \/ \E i \in Interfaces : WindowPasses(h, i)
        \/ \E m \in net : ReceiveAndRename(h, m) \/ ReceiveAndGoOn(h, m)
        \/ \E m \in net, sent \in BOOLEAN : ReceiveAndDefend(h, m, sent)
        \/ \E sent \in BOOLEAN : Stop(h, sent)

Spec == Init /\ [][Next]_vars

(* A responder that is not stopped goes on visiting its interfaces and     *)
(* scanning for them, every 2 s, and a scan that opens all is not put off  *)
(* for ever.                                                               *)
Fairness ==
    \A h \in Hosts :
        /\ WF_vars(synchronize_interfaces(h, Interfaces))
        /\ \A i \in Interfaces : WF_vars(\E sent \in BOOLEAN : drive_probe(h, i, sent))

-----------------------------------------------------------------------------
(* A host announces, defends and answers for a name with its addresses     *)
(* only on an interface where it has tried to probe three times for that   *)
(* very name and those addresses since it opened the socket: conflicts on  *)
(* another interface and changed addresses included.                       *)
ClaimsWereProbed ==
    \A h \in Hosts, i \in Interfaces :
        state[h][i].phase \in {"announcing", "established"} =>
            /\ trail[h][i].name = name[h]
            /\ trail[h][i].address = state[h][i].address
            /\ trail[h][i].count >= MDNS_PROBE_COUNT

(* When nothing was lost and nothing is left to be read, no two hosts hold *)
(* the same name on one link: probing, the tie break and the defenses      *)
(* between them leave no pair that overlooked each other.                  *)
NamesAreUnique ==
    ~lossy /\ net = {} =>
        \A g, h \in Hosts, i \in Interfaces :
            g # h /\ state[g][i].phase = "established" /\ state[h][i].phase = "established"
                => name[g] # name[h]

(* An interface that has an address ends up established, as long as the    *)
(* responder runs and names are left to try.                               *)
ProbingEnds ==
    \A h \in Hosts, i \in Interfaces :
        kernel[h][i] # NoAddress ~> \/ state[h][i].phase = "established"
                                   \/ kernel[h][i] = NoAddress
                                   \/ ~running[h]
                                   \/ name[h] = MaxOrdinal
=============================================================================
