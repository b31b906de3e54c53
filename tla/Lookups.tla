------------------------------ MODULE Lookups ------------------------------
(***************************************************************************)
(* The lookups that clients ask for: lookup_name_on_link with its search   *)
(* candidates, the parallel A and AAAA queries of lookup_name_exact, the   *)
(* redirect chains of query_following_redirects, and resolve_service of    *)
(* varlink.rs, which makes an SRV, several name and a TXT lookup.          *)
(*                                                                         *)
(* A single query (query_on_link, module ResolverQuery) is one step here.  *)
(* Servers may answer anything: a redirect to any name, any error.  The    *)
(* hosts database can be reloaded between any two steps.  Names are        *)
(* sequences of labels.                                                    *)
(***************************************************************************)
EXTENDS Naturals, Sequences, SequencesExt, FiniteSets

CONSTANTS
    Asked,               \* lookups: [name, types, absolute]; absolute: with a final dot
    Reversed,            \* reverse names of addresses that are looked up
    Targets,             \* names that a redirect or an SRV record points to
    domains,             \* search domains: [name, route_only]
    resolve_unicast_single_label,
    CNAME_REDIRECTS_MAX,
    Services,            \* service lookups: [owner, no_address, no_txt]
    HostsFiles           \* contents of the hosts database: sets of [name, type]

Root == <<>>
Running == [at |-> "running", name |-> Root]
Ok(n) == [at |-> "ok", name |-> n]
Err(e) == [at |-> e, name |-> Root]
Errors == {"CnameLoop", "NoSuchResourceRecord", "DnsError", "InvalidRecord"}
\* What extract_address_records finds in an answer: addresses, or it fails on
\* the answer, or it follows a DNAME away from the addresses.
Extracted == {"ok", "spoiled", "empty"}

VARIABLES
    hosts,   \* the hosts database
    call,    \* the lookup in progress
    follow   \* per type: its query_following_redirects

vars == <<hosts, call, follow>>

NoService == [asked |-> FALSE, no_address |-> FALSE, no_txt |-> FALSE, targets |-> <<>>, next |-> 1, values |-> <<>>, root |-> FALSE, error |-> "none"]
NoCall == [at |-> "idle", name |-> Root, absolute |-> FALSE, candidates |-> <<>>, error |-> "none", local |-> FALSE,
           types |-> <<>>, result |-> Running, addresses |-> {}, service |-> NoService]

Init ==
    /\ hosts \in HostsFiles
    /\ call = NoCall
    /\ follow = <<>>

(***************************************************************************)
(* Candidates                                                              *)
(***************************************************************************)

\* lookup_candidates: a single label without a final dot is qualified by the
\* search domains in their order, and tried as it is only if so configured.
lookup_candidates(name, absolute) ==
    IF absolute \/ Len(name) # 1 THEN <<name>>
    ELSE LET usable == SelectSeq(domains, LAMBDA d : ~d.route_only /\ d.name # Root)
             qualified == [i \in 1 .. Len(usable) |-> name \o usable[i].name]
             distinct == FoldLeft(LAMBDA acc, c : IF Contains(acc, c) THEN acc ELSE Append(acc, c),
                                  <<>>, qualified)
         IN  IF resolve_unicast_single_label THEN Append(distinct, name) ELSE distinct

StartFollow(types, name) ==
    [t \in ToSet(types) |-> [current |-> name, visited |-> {}, redirects |-> 0, result |-> Running]]

\* The next candidate, or the last error when there is none left.
TryNext(c) ==
    IF c.candidates = <<>>
    THEN /\ call' = [c EXCEPT !.at = "joined", !.local = FALSE, !.error = "none",
                              !.result = Err(IF c.error = "none" THEN "NoSuchResourceRecord" ELSE c.error)]
         /\ follow' = <<>>
    ELSE /\ call' = [c EXCEPT !.at = "lookup", !.candidates = Tail(@)]
         /\ follow' = StartFollow(c.types, Head(c.candidates))

\* hosts.lookup: a known name is answered for every type, perhaps with nothing.
Known(name) == \E h \in hosts : h.name = name

\* lookup_name_on_link up to its first queries.  has_local_name looks at the
\* hosts database; it does not hold it for the queries.
Begin(c, name, absolute, types) ==
    LET local == Known(name) IN
    TryNext([c EXCEPT !.types = types, !.error = "none", !.local = local, !.absolute = absolute,
                      !.candidates = IF local THEN <<name>> ELSE lookup_candidates(name, absolute)])

lookup_name_on_link(a) ==
    /\ call.at = "idle"
    /\ Begin([NoCall EXCEPT !.name = a.name], a.name, a.absolute, a.types)
    /\ UNCHANGED hosts

\* One PTR query, without candidates.
lookup_address_on_link(name) ==
    /\ call.at = "idle"
    /\ call' = [NoCall EXCEPT !.at = "lookup", !.name = name, !.types = <<"PTR">>]
    /\ follow' = StartFollow(<<"PTR">>, name)
    /\ UNCHANGED hosts

(***************************************************************************)
(* query_following_redirects                                               *)
(***************************************************************************)

\* What a response may be, after classify_redirect_answer: the name reached
\* and the redirects within the packet.  Failed is an error of query_on_link,
\* of the packet, or a response code.  A Redirect always has redirects
\* (classify_redirect_chain, module Redirects).  For addresses a direct answer
\* is one of those of Extracted; for other types an answer that cannot be
\* extracted counts as Failed, for there is no other answer it could spoil.
Responses(t, name) ==
    LET kinds == {"Direct", "NoData", "Failed"} \cup (IF t \in {"A", "AAAA"} THEN {"Spoiled", "Empty"} ELSE {})
    IN  [kind : {"Direct", "Redirect"}, to : Targets \ {name}, redirects : 1 .. CNAME_REDIRECTS_MAX]
            \cup [kind : kinds, to : {name}, redirects : {0}]

\* One turn of the loop, for the response r of query_on_link.
Turn(f, r) ==
    LET total == f.redirects + r.redirects
        asked == [f EXCEPT !.visited = @ \cup {f.current}]
    IN  CASE r.kind = "Failed" -> [asked EXCEPT !.result = Err("DnsError")]
          [] r.kind = "NoData" -> [asked EXCEPT !.result = Err("NoSuchResourceRecord")]
          [] r.kind = "Spoiled" -> [asked EXCEPT !.result = Err("spoiled")]
          [] r.kind = "Empty" -> [asked EXCEPT !.result = Err("empty")]
          [] r.kind \in {"Direct", "Redirect"} /\ total > CNAME_REDIRECTS_MAX ->
                [asked EXCEPT !.result = Err("CnameLoop")]
          [] r.kind = "Direct" -> [asked EXCEPT !.redirects = total, !.result = Ok(r.to)]
          [] OTHER -> [asked EXCEPT !.redirects = total, !.current = r.to]

\* A visited name ends the chain; a name of the hosts database is answered
\* from it; all others go to the servers.
query_following_redirects(t) ==
    /\ call.at \in {"srv", "lookup", "txt"} /\ t \in DOMAIN follow
    /\ follow[t].result = Running
    /\ LET f == follow[t]
       IN  \/ /\ f.current \in f.visited
              /\ follow' = [follow EXCEPT ![t].result = Err("CnameLoop")]
           \/ /\ f.current \notin f.visited /\ Known(f.current)
              /\ LET has == [name |-> f.current, type |-> t] \in hosts
                 IN  follow' = [follow EXCEPT ![t] =
                                   Turn(f, [kind |-> IF has THEN "Direct" ELSE "NoData",
                                            to |-> f.current, redirects |-> 0])]
           \/ /\ f.current \notin f.visited /\ ~Known(f.current)
              /\ \E r \in Responses(t, f.current) : follow' = [follow EXCEPT ![t] = Turn(f, r)]
    /\ UNCHANGED <<hosts, call>>

(***************************************************************************)
(* lookup_name_exact: the outcomes, in the order of the types              *)
(***************************************************************************)

Finished == follow # <<>> /\ \A t \in DOMAIN follow : follow[t].result # Running

\* An answer that extract_address_records fails on ends the lookup, whatever
\* the other type has found; otherwise all addresses count, and the last error
\* only when there are none.
Outcome(c) ==
    LET With(S) == SelectSeq(c.types, LAMBDA t : follow[t].result.at \in S)
        good == With({"ok"})
        bad == With(Errors)
        failed(e) == [result |-> Err(e), found |-> {}]
    IN  CASE With({"spoiled"}) # <<>> -> failed("InvalidRecord")
          [] With({"spoiled"}) = <<>> /\ good # <<>> ->
                [result |-> follow[Head(good)].result, found |-> ToSet(good)]
          [] OTHER -> failed(IF bad = <<>> THEN "NoSuchResourceRecord" ELSE follow[Last(bad)].result.at)

Join ==
    /\ call.at = "lookup" /\ Finished
    /\ LET o == Outcome(call)
       IN  IF o.found # {}
           THEN /\ call' = [call EXCEPT !.at = "joined", !.result = o.result, !.addresses = o.found,
                                        !.candidates = <<>>, !.local = FALSE, !.error = "none"]
                /\ follow' = <<>>
           ELSE TryNext([call EXCEPT !.error = o.result.at])
    /\ UNCHANGED hosts

(***************************************************************************)
(* resolve_service                                                         *)
(***************************************************************************)

resolve_service(s) ==
    /\ call.at = "idle"
    /\ call' = [NoCall EXCEPT !.at = "srv", !.name = s.owner, !.types = <<"SRV">>,
                              !.service = [NoService EXCEPT !.asked = TRUE, !.no_address = s.no_address,
                                                            !.no_txt = s.no_txt]]
    /\ follow' = StartFollow(<<"SRV">>, s.owner)
    /\ UNCHANGED hosts

\* The targets are done: nothing to report, the TXT records, or the answer.
TargetsDone(c) ==
    LET s == c.service IN
    CASE s.values = <<>> ->
            /\ call' = [c EXCEPT !.at = "done", !.result = Err(CASE s.root -> "ServiceNotProvided"
                                                                 [] ~s.root /\ s.error # "none" -> s.error
                                                                 [] OTHER -> "NoSuchResourceRecord")]
            /\ follow' = <<>>
      [] s.values # <<>> /\ ~s.no_txt ->
            /\ call' = [c EXCEPT !.at = "txt", !.types = <<"TXT">>]
            /\ follow' = StartFollow(<<"TXT">>, c.name)
      [] OTHER ->
            /\ call' = [c EXCEPT !.at = "done", !.result = Ok(c.name)]
            /\ follow' = <<>>

\* resolve_service_entries from a target on: the root is remembered and
\* skipped, other targets get a name lookup unless the caller wants none.
NextTarget(c) ==
    LET s == c.service
        rest == SubSeq(s.targets, s.next, Len(s.targets))
        named == SelectInSeq(rest, LAMBDA n : n # Root)
        skipped == [s EXCEPT !.root = @ \/ (rest # <<>> /\ named # 1)]
    IN  IF s.no_address
        THEN TargetsDone([c EXCEPT !.service =
                [s EXCEPT !.values = SelectSeq(s.targets, LAMBDA n : n # Root),
                          !.root = \E n \in ToSet(s.targets) : n = Root,
                          !.next = Len(s.targets) + 1]])
        ELSE IF named # 0
        THEN Begin([c EXCEPT !.service = [skipped EXCEPT !.next = s.next + named]], rest[named], FALSE,
                   <<"A", "AAAA">>)
        ELSE TargetsDone([c EXCEPT !.service = [skipped EXCEPT !.next = Len(s.targets) + 1]])

SrvAnswered ==
    /\ call.at = "srv" /\ Finished
    /\ \/ /\ follow["SRV"].result.at # "ok"
          /\ call' = [call EXCEPT !.at = "done", !.result = follow["SRV"].result]
          /\ follow' = <<>>
       \/ /\ follow["SRV"].result.at = "ok"
          /\ \E targets \in SeqOf(Targets \cup {Root}, 2) \ {<<>>} :
                NextTarget([call EXCEPT !.service.targets = targets])
    /\ UNCHANGED hosts

MutantJoined ==
    /\ call.at = "joined"
    /\ LET s == call.service
           heard == IF call.result.at = "ok" THEN [s EXCEPT !.values = Append(@, s.targets[s.next - 1])]
                    ELSE [s EXCEPT !.error = call.result.at]
       IN  \/ /\ ~s.asked
              /\ call' = [call EXCEPT !.at = "done"]
              /\ follow' = <<>>
           \/ /\ s.asked
              /\ TargetsDone([call EXCEPT !.service = heard, !.result = Running])
    /\ UNCHANGED hosts

\* A lookup ended: the call itself, or the one of a service's target.
Joined ==
    /\ call.at = "joined"
    /\ LET s == call.service
           heard == IF call.result.at = "ok" THEN [s EXCEPT !.values = Append(@, s.targets[s.next - 1])]
                    ELSE [s EXCEPT !.error = call.result.at]
       IN  \/ /\ ~s.asked
              /\ call' = [call EXCEPT !.at = "done"]
              /\ follow' = <<>>
           \/ /\ s.asked
              /\ NextTarget([call EXCEPT !.service = heard, !.result = Running])
    /\ UNCHANGED hosts

\* add_service_txt: no TXT record is fine, another error fails the call.
TxtAnswered ==
    /\ call.at = "txt" /\ Finished
    /\ LET r == follow["TXT"].result
       IN  call' = [call EXCEPT !.at = "done",
                                !.result = IF r.at \in {"ok", "NoSuchResourceRecord"} THEN Ok(call.name) ELSE r]
    /\ follow' = <<>>
    /\ UNCHANGED hosts

Return ==
    /\ call.at = "done"
    /\ call' = NoCall
    /\ UNCHANGED <<hosts, follow>>

\* reload_hosts, at any time.
reload_hosts ==
    /\ hosts' \in HostsFiles \ {hosts}
    /\ UNCHANGED <<call, follow>>

LookupStep ==
    \/ \E t \in {"A", "AAAA", "PTR", "SRV", "TXT"} : query_following_redirects(t)
    \/ Join \/ Joined \/ SrvAnswered \/ TxtAnswered \/ Return

Next ==
    \/ \E a \in Asked : lookup_name_on_link(a)
    \/ \E n \in Reversed : lookup_address_on_link(n)
    \/ \E s \in Services : resolve_service(s)
    \/ LookupStep
    \/ reload_hosts

Spec == Init /\ [][Next]_vars /\ WF_vars(LookupStep)

(***************************************************************************)
(* Properties                                                              *)
(***************************************************************************)

Names ==
    LET given == {a.name : a \in Asked} \cup Targets \cup Reversed \cup {s.owner : s \in Services}
    IN  given \cup {n \o d.name : n \in given, d \in ToSet(domains)}

\* The lookup is in one of the states of its functions.
TypeOK ==
    /\ hosts \in HostsFiles
    /\ call.at \in {"idle", "srv", "lookup", "joined", "txt", "done"}
    /\ call.error \in Errors \cup {"none"}
    /\ call.addresses \subseteq {"A", "AAAA", "PTR"}
    /\ \A t \in DOMAIN follow :
          /\ follow[t].current \in Names /\ follow[t].visited \subseteq Names
          /\ follow[t].result.at \in Errors \cup Extracted \cup {"running"}

\* query_following_redirects asks for each name once and follows at most
\* CNAME_REDIRECTS_MAX redirects, summed over the packets, whatever the
\* servers answer and however often the hosts database changes on the way.
ChainsBounded ==
    \A t \in DOMAIN follow :
        /\ follow[t].redirects <= CNAME_REDIRECTS_MAX
        /\ Cardinality(follow[t].visited) <= follow[t].redirects + 1

\* A single-label name is not sent to a server, unless so configured, or the
\* client gave it with a final dot, or a server redirected to it, or has_local_name had found it in the hosts
\* database and the database was reloaded before query_on_link read it again.
SingleLabelsStayLocal ==
    \A t \in DOMAIN follow :
        (/\ follow[t].result = Running
         /\ Len(follow[t].current) = 1
         /\ ~Known(follow[t].current))
            => \/ resolve_unicast_single_label
               \/ follow[t].visited # {}
               \/ call.local \/ call.absolute

\* resolve_service gives up on a service only after every target was tried:
\* a failing target does not hide the ones after it, and what one of them
\* resolved to is reported even if the others failed.
EveryTargetTried ==
    (call.at \in {"txt", "done"} /\ call.service.targets # <<>>)
        => /\ call.service.next > Len(call.service.targets)
           /\ (call.at = "done" /\ call.service.values = <<>>) => call.result.at \notin {"ok", "running"}

\* Addresses that one of the parallel queries of lookup_name_exact has found
\* reach the caller, whatever error the other query ends with and whichever
\* ends first; no further candidate replaces them.  Excepted is an answer to
\* the other query that extract_address_records fails on: it ends the lookup.
AnswersReachCaller ==
    (call.at = "lookup" /\ \E t \in DOMAIN follow : follow[t].result.at = "ok")
        ~> (\/ call.at = "joined" /\ call.result.at = "ok"
            \/ \E t \in DOMAIN follow : follow[t].result.at = "spoiled")

\* Refuted: without the exception.
AnswersAlwaysReachCaller ==
    (call.at = "lookup" /\ \E t \in DOMAIN follow : follow[t].result.at = "ok")
        ~> (call.at = "joined" /\ call.result.at = "ok")

\* Every lookup ends, also along redirect loops and with an empty list of
\* candidates.
LookupsEnd == (call.at # "idle") ~> (call.at = "idle")
=============================================================================
