----------------------------- MODULE NssLookup -----------------------------
(***************************************************************************)
(* The NSS module: one process's forward and reverse lookups, which ask    *)
(* the shared table (forward only), then the daemon's Varlink socket, then *)
(* the DNS stub (nss_resolve.c, nss_varlink.c, nss_dns_stub.c).            *)
(*                                                                         *)
(* The daemon is another process: it may crash, hang, come back and write  *)
(* the shared table between any two steps of the lookup.  What it knows of *)
(* the name asked is `zone`.  Addresses are records of a family and a      *)
(* number, names are numbers; a Varlink reply is the sequence of the       *)
(* members of its objects, in the order in which the daemon writes them.   *)
(***************************************************************************)
EXTENDS Naturals, Sequences, SequencesExt, FiniteSets

CONSTANTS
    Zones,      \* what the name may own: [exists, addrs, names]
    Operations, \* [op, family]: gethostbyname4, gethostbyname3, gethostbyaddr2
    MaxFaults   \* bound: changes of the daemon's state

VARIABLES
    zone,    \* the truth about the name
    table,   \* the shared table: per type "miss", "hit" or "negative"
    daemon,  \* "up", "stalled", "gone" (socket left behind), "removed"
    faults,  \* changes of daemon so far
    call     \* the lookup in progress

vars == <<zone, table, daemon, faults, call>>

Types == {"A", "AAAA"}
FamilyOf(type) == IF type = "A" THEN 4 ELSE 6
OfFamily(family) == SelectSeq(zone.addrs, LAMBDA a : a.family = family)

\* A call not yet made; found is out[], heard what the sources said of the name.
NoCall == [at |-> "idle", op |-> "", family |-> 0, found |-> <<>>, errno |-> "0", first |-> "0",
           heard |-> {}, small |-> FALSE, status |-> "none"]

Init ==
    /\ zone \in Zones
    /\ table = [t \in Types |-> "miss"]
    /\ daemon = "up"
    /\ faults = 0
    /\ call = NoCall

(***************************************************************************)
(* The daemon (external to this module)                                    *)
(***************************************************************************)

\* It crashes, hangs, or is started again.
DaemonChanges ==
    /\ faults < MaxFaults
    /\ faults' = faults + 1
    /\ daemon' \in {"up", "stalled", "gone", "removed"} \ {daemon}
    /\ UNCHANGED <<zone, table, call>>

\* It publishes an answer in the shared table, or the answer expires.
TableChanges(t) ==
    /\ call.at # "done"
    /\ table' = [table EXCEPT ![t] = IF @ # "miss" THEN "miss"
                                     ELSE IF zone.exists THEN "hit" ELSE "negative"]
    /\ UNCHANGED <<zone, daemon, faults, call>>

(***************************************************************************)
(* The answers                                                             *)
(***************************************************************************)

\* write_json of an address: the members of a BTreeMap, sorted by key.
resolve_hostname_Reply(addrs) ==
    FlattenSeq([i \in 1 .. Len(addrs) |-> <<[key |-> "address", of |-> addrs[i]],
                                            [key |-> "family", of |-> addrs[i]],
                                            [key |-> "ifindex", of |-> addrs[i]]>>])

\* json_find_key: the first such member at or after a position, if any.
json_find_key(reply, from, key) ==
    LET At == {p \in from .. Len(reply) : reply[p].key = key}
    IN  IF At = {} THEN 0 ELSE CHOOSE p \in At : \A q \in At : p <= q

\* parse_varlink_addresses: from the cursor, the next family and the next
\* address; kept if the address has the family's length.  The next search
\* starts right after the address.
parse_varlink_addresses(reply) ==
    LET at == SelectSeq([p \in 1 .. Len(reply) |-> p], LAMBDA p : reply[p].key = "address")
        Cursor(k) == IF k = 1 THEN 1 ELSE at[k - 1] + 1
        Family(k) == json_find_key(reply, Cursor(k), "family")
        kept == SelectSeq([k \in 1 .. Len(at) |-> k],
                          LAMBDA k : Family(k) # 0 /\ reply[Family(k)].of.family = reply[at[k]].of.family)
    IN  [i \in 1 .. Len(kept) |-> reply[at[kept[i]]].of]

\* varlink_error: the errno of an error identifier.
varlink_error(id) ==
    CASE id = "NoSuchResourceRecord" -> "ESRCH"
      [] id \in {"QueryTimedOut", "MaxAttemptsReached"} -> "ETIMEDOUT"
      [] id = "DNSSECValidationFailed" -> "EACCES"
      [] OTHER -> "EIO"

\* resolver_error of the daemon: what it may say of the name when asked.
resolver_error(wanted) ==
    {"QueryTimedOut", "NoNameServers", "DNSSECValidationFailed"}
        \cup (IF ~zone.exists THEN {"DNSError"} ELSE {})
        \cup (IF zone.exists /\ wanted = <<>> THEN {"NoSuchResourceRecord"} ELSE {})

varlink_fallback_allowed(errno) ==
    errno \in {"ENOENT", "ECONNREFUSED", "ECONNRESET", "EPIPE", "EPROTO", "ETIMEDOUT"}

\* status_from_errno
status_from_errno(errno) ==
    CASE errno \in {"ENOENT", "ESRCH", "ENODATA"} -> "NOTFOUND"
      [] errno \in {"ETIMEDOUT", "EAGAIN", "ERANGE"} -> "TRYAGAIN"
      [] OTHER -> "UNAVAIL"

(***************************************************************************)
(* The lookup                                                              *)
(***************************************************************************)

Return(c, errno) == [c EXCEPT !.at = "done", !.errno = errno, !.status = status_from_errno(errno)]

\* A caller asks, with a buffer that may be too small for the answer.
Call(o, small) ==
    /\ call.at = "idle"
    /\ call' = [NoCall EXCEPT !.at = IF o.op = "gethostbyaddr2" THEN "connect" ELSE "shm A",
                              !.op = o.op, !.family = o.family, !.small = small]
    /\ UNCHANGED <<zone, table, daemon, faults>>

\* sr_shm_lookup of the A records, then of the AAAA records; a hit with rcode 0
\* counts.  With no address from either, the daemon is asked.
ShmLookup(type, next) ==
    /\ call.at = "shm " \o type
    /\ LET found == IF table[type] = "hit" THEN call.found \o OfFamily(FamilyOf(type)) ELSE call.found
       IN  call' = [call EXCEPT !.found = found,
                                !.heard = IF table[type] = "miss" THEN @ ELSE @ \cup {"table"},
                                !.at = IF type = "A" THEN next
                                       ELSE IF found = <<>> THEN next ELSE "pack"]
    /\ UNCHANGED <<zone, table, daemon, faults>>

\* What follows an errno of the Varlink attempt.
AfterVarlink(c, errno) ==
    IF varlink_fallback_allowed(errno)
    THEN [c EXCEPT !.errno = errno, !.found = <<>>,
                   !.at = IF c.op = "gethostbyaddr2" THEN "stub PTR" ELSE "stub A"]
    ELSE Return(c, errno)

\* connect and send of varlink_call.
varlink_connect ==
    /\ call.at = "connect"
    /\ call' = CASE daemon = "removed" -> AfterVarlink(call, "ENOENT")
                 [] daemon = "gone" -> AfterVarlink(call, "ECONNREFUSED")
                 [] OTHER -> [call EXCEPT !.at = "recv"]
    /\ UNCHANGED <<zone, table, daemon, faults>>

\* recv of varlink_call: the reply, end of file when the daemon went away, or
\* SO_RCVTIMEO expiring, which is EAGAIN.
varlink_recv ==
    /\ call.at = "recv"
    /\ \/ /\ daemon = "up"
          /\ LET wanted == IF call.op = "gethostbyaddr2" THEN zone.names ELSE zone.addrs
                 said == [call EXCEPT !.heard = @ \cup {"varlink"}]
             IN  \/ /\ wanted # <<>>
                    /\ LET found == IF call.op = "gethostbyaddr2" THEN wanted
                                    ELSE parse_varlink_addresses(resolve_hostname_Reply(wanted))
                       IN  call' = IF found = <<>> THEN AfterVarlink(said, "ENODATA")
                                   ELSE [said EXCEPT !.found = found, !.at = "pack"]
                 \/ \E id \in resolver_error(wanted) :
                        call' = AfterVarlink(IF id \in {"NoSuchResourceRecord", "DNSError"} THEN said ELSE call,
                                             varlink_error(id))
       \/ daemon \in {"gone", "removed"} /\ call' = AfterVarlink(call, "ECONNRESET")
       \/ daemon = "stalled" /\ call' = AfterVarlink(call, "EAGAIN")
    /\ UNCHANGED <<zone, table, daemon, faults>>

\* sr_varlink_resolve_*: the stub failed as well; the errno of the Varlink
\* attempt wins unless nobody listened there.
AfterStub(c, errno) ==
    Return(c, IF c.errno \in {"ENOENT", "ECONNREFUSED"} THEN errno ELSE c.errno)

\* dns_query and parse_addresses or parse_ptr_names: what one question to the
\* stub may yield, [records, errno, said].
Asked(records) ==
    CASE daemon \in {"gone", "removed"} -> {[found |-> <<>>, errno |-> "ECONNREFUSED", said |-> {}]}
      [] daemon = "stalled" -> {[found |-> <<>>, errno |-> "EAGAIN", said |-> {}]}
      [] OTHER -> {[found |-> records,
                    errno |-> IF ~zone.exists THEN "ENOENT" ELSE IF records = <<>> THEN "ENODATA" ELSE "0",
                    said |-> {"stub"}],
                   [found |-> <<>>, errno |-> "EAGAIN", said |-> {}],   \* SERVFAIL
                   [found |-> <<>>, errno |-> "EIO", said |-> {}]}      \* another rcode

\* resolve_type of sr_stub_resolve_hostname: A, then AAAA; an error of one is
\* only reported when neither found an address, and the first one wins.
resolve_type(type) ==
    /\ call.at = "stub " \o type
    /\ \E r \in Asked(OfFamily(FamilyOf(type))) :
          LET c == [call EXCEPT !.found = @ \o r.found, !.heard = @ \cup r.said,
                                !.first = IF @ = "0" THEN r.errno ELSE @]
          IN  call' = IF type = "A" THEN [c EXCEPT !.at = "stub AAAA"]
                      ELSE IF c.found = <<>> THEN AfterStub(c, c.first)
                      ELSE [c EXCEPT !.at = "pack"]
    /\ UNCHANGED <<zone, table, daemon, faults>>

sr_stub_resolve_address ==
    /\ call.at = "stub PTR"
    /\ \E r \in Asked(zone.names) :
          LET c == [call EXCEPT !.found = r.found, !.heard = @ \cup r.said]
          IN  call' = IF r.found = <<>> THEN AfterStub(c, r.errno) ELSE [c EXCEPT !.at = "pack"]
    /\ UNCHANGED <<zone, table, daemon, faults>>

FamilyAsked == IF call.family = 0 THEN 4 ELSE call.family

MutantPackAll ==
    /\ call.at = "pack"
    /\ call' = [call EXCEPT !.at = "done", !.status = "SUCCESS", !.errno = "0"]
    /\ UNCHANGED <<zone, table, daemon, faults>>

\* pack_gaih, pack_hostent, pack_reverse_hostent: the addresses of the family
\* asked (AF_INET when none), if the buffer holds them.
Pack ==
    /\ call.at = "pack"
    /\ LET wanted == IF call.op = "gethostbyname3"
                     THEN SelectSeq(call.found, LAMBDA a : a.family = FamilyAsked)
                     ELSE call.found
       IN  call' = CASE wanted = <<>> -> Return([call EXCEPT !.found = <<>>], "ENODATA")
                     [] wanted # <<>> /\ call.small -> Return(call, "ERANGE")
                     [] OTHER -> [call EXCEPT !.found = wanted, !.at = "done", !.status = "SUCCESS", !.errno = "0"]
    /\ UNCHANGED <<zone, table, daemon, faults>>

\* The caller takes the result; told ERANGE, it asks again with a larger buffer.
Taken ==
    /\ call.at = "done"
    /\ call' = IF call.errno # "ERANGE" THEN NoCall
               ELSE [NoCall EXCEPT !.at = IF call.op = "gethostbyaddr2" THEN "connect" ELSE "shm A",
                                   !.op = call.op, !.family = call.family]
    /\ UNCHANGED <<zone, table, daemon, faults>>

ClientStep ==
    \/ ShmLookup("A", "shm AAAA") \/ ShmLookup("AAAA", "connect")
    \/ varlink_connect \/ varlink_recv
    \/ \E t \in Types : resolve_type(t)
    \/ sr_stub_resolve_address \/ Pack \/ Taken

Next ==
    \/ DaemonChanges
    \/ \E t \in Types : TableChanges(t)
    \/ \E o \in Operations, small \in BOOLEAN : Call(o, small)
    \/ ClientStep

Spec == Init /\ [][Next]_vars /\ WF_vars(ClientStep)

(***************************************************************************)
(* Properties                                                              *)
(***************************************************************************)

TypeOK ==
    /\ zone \in Zones
    /\ table \in [Types -> {"miss", "hit", "negative"}]
    /\ daemon \in {"up", "stalled", "gone", "removed"}
    /\ faults \in 0 .. MaxFaults
    /\ call.at \in {"idle", "shm A", "shm AAAA", "connect", "recv", "stub A", "stub AAAA", "stub PTR",
                    "pack", "done"}
    /\ call.status \in {"none", "SUCCESS", "NOTFOUND", "TRYAGAIN", "UNAVAIL"}

\* What the caller asks for.
Wanted ==
    CASE call.op = "gethostbyaddr2" -> zone.names
      [] call.op = "gethostbyname3" -> OfFamily(FamilyAsked)
      [] OTHER -> zone.addrs

\* A successful lookup returns records that the name has, of the family asked,
\* each once, whatever mixture of sources and failures it went through: the
\* fallback of sr_varlink_resolve_hostname never adds to what the Varlink
\* attempt left in out[], and no address is read with another one's family.
SuccessIsTrue ==
    call.status = "SUCCESS" =>
        /\ call.found # <<>>
        /\ ToSet(call.found) \subseteq ToSet(IF call.op = "gethostbyaddr2" THEN zone.names ELSE zone.addrs)
        /\ Cardinality(ToSet(call.found)) = Len(call.found)
        /\ call.op = "gethostbyname3" => \A a \in ToSet(call.found) : a.family = FamilyAsked

\* NSS_STATUS_NOTFOUND is only returned when some source spoke of the name and
\* the name has nothing of what was asked: a socket that is missing (errno
\* ENOENT from connect, the errno that status_from_errno turns into "host not
\* found"), a timeout or a failed fallback never pass for an answer.  Excepted
\* are gethostbyname3 for a name with addresses of both families, since
\* collect_addrs is content with those of the other, and a name with only IPv6
\* addresses at the stub, whose "no data" for A stands when the question for
\* AAAA fails (see FamiliesIndependent).
NotFoundIsTrue ==
    call.status = "NOTFOUND" =>
        /\ call.heard # {}
        /\ Wanted # <<>> =>
              \/ call.op = "gethostbyname3" /\ \E a \in ToSet(zone.addrs) : a.family # FamilyAsked
              \/ call.op # "gethostbyaddr2" /\ "stub" \in call.heard /\ OfFamily(4) = <<>>

\* test_hostent_family of test_nss.c expects success for either family of a name
\* with both.  It is not found when the parser of the Varlink reply drops the
\* address, when the shared table has only the other type, and when the stub
\* fails for one type.
FamiliesIndependent == call.status = "NOTFOUND" => Wanted = <<>>

\* Every lookup returns: each wait has a timeout, and a buffer that is too
\* small is asked for at most once more.
CallsReturn == (call.at # "idle") ~> (call.at = "idle")

\* test_gaih of test_nss.c fails with "gaih tuple list is incomplete" unless
\* both the IPv4 and the IPv6 address of the daemon's reply come back.
GaihListComplete ==
    call.status = "SUCCESS" /\ call.op = "gethostbyname4" /\ call.heard = {"varlink"} =>
        ToSet(call.found) = ToSet(zone.addrs)

(***************************************************************************)
(* The instance that GaihListComplete is checked on: getaddrinfo for a     *)
(* name with one address per family.                                       *)
(***************************************************************************)
DualStack == {[exists |-> TRUE, addrs |-> <<[family |-> 4, n |-> 1], [family |-> 6, n |-> 1]>>,
               names |-> <<1>>]}
Getaddrinfo == {[op |-> "gethostbyname4", family |-> 0]}
=============================================================================
