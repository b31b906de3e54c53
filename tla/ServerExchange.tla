---------------------------- MODULE ServerExchange ----------------------------
(***************************************************************************)
(* Resolver::query_servers (resolver_methods_03.rs) and the exchange with  *)
(* one server under it, exchange_with_features (resolver_edns.rs), run by  *)
(* several threads that share what was learnt about each server: its EDNS  *)
(* feature level (edns.rs), its transport (transport.rs), whether it does  *)
(* TLS (tls.rs) and whether it omits the root's RRSIG records.             *)
(*                                                                         *)
(* A step is what a thread does under one acquisition of the states lock,  *)
(* with the thread's own work before the next one.  Times are abstracted   *)
(* to whether a date has come; packets, to what exchange_with_features     *)
(* distinguishes.  The server metrics only order the choice of a server,   *)
(* which is left open; verified levels, packet sizes and flags that are    *)
(* merely reported are left out.                                           *)
(***************************************************************************)
EXTENDS Integers, FiniteSets

CONSTANTS
    Threads,                \* threads in query_servers
    Servers,                \* server_keys: the servers of their scope
    NoServer,               \* no server is being asked
    AttemptsMax,            \* DNS_TRANSACTION_ATTEMPTS_MAX
    ConfigAttempts,         \* config.attempts
    FeatureRetryAttempts,   \* FEATURE_RETRY_ATTEMPTS
    TransportRetryAttempts, \* TRANSPORT_RETRY_ATTEMPTS
    MaxFeatureRetries,      \* MAX_FEATURE_RETRIES
    MaxTransportRetries,    \* MAX_TRANSPORT_RETRIES
    DnssecModes,            \* the values set_link_dnssec is called with
    TlsModes,               \* the values set_link_dns_over_tls is called with
    TsigQueries,            \* whether clients send TSIG-signed queries
    MaxModeChanges          \* bound: changes of those modes

ASSUME ServersAssumption ==
    NoServer \notin Servers /\ IsFiniteSet(Servers) /\ Servers # {}
ASSUME LimitsAssumption ==
    /\ AttemptsMax \in Nat \ {0} /\ ConfigAttempts \in Nat \ {0}
    /\ FeatureRetryAttempts \in Nat \ {0} /\ TransportRetryAttempts \in Nat \ {0}
    /\ MaxFeatureRetries \in Nat /\ MaxTransportRetries \in Nat
    /\ MaxModeChanges \in Nat
ASSUME ModesAssumption ==
    /\ DnssecModes \subseteq {"no", "allow", "yes"} /\ DnssecModes # {}
    /\ TlsModes \subseteq {"no", "opportunistic", "yes"} /\ TlsModes # {}
    /\ TsigQueries \subseteq BOOLEAN /\ TsigQueries # {}

(* FeatureLevel, in the order of the enum.                                 *)
Udp == 0
Edns0 == 1
DnssecOk == 2
Levels == {Udp, Edns0, DnssecOk}
Lower(level) == IF level = DnssecOk THEN Edns0 ELSE Udp

NoLevel == -1

VARIABLES
    dnssec,     \* dnssec[s], tls[s]: the modes of the link s is a server of
    tls,
    features,   \* features[s]: ServerFeatureState
    transport,  \* transport[s]: ServerTransportState
    capability, \* capability[s]: TlsCapability
    omitsRrsig, \* omitsRrsig[s]: missing_root_rrsig
    pc,         \* pc[t]: the step thread t takes next
    budget,     \* budget[t]: DnsAttemptBudget
    walk,       \* walk[t]: the locals of query_servers
    ex,         \* ex[t]: the locals of exchange_with_features
    emitted,    \* emitted[t]: queries t has sent (history)
    changes     \* mode changes so far

sharedVars == <<features, transport, capability, omitsRrsig>>
modeVars == <<dnssec, tls, changes>>
vars == <<modeVars, sharedVars, pc, budget, walk, ex, emitted>>

(* A date in the future is never, ahead or due.                            *)
Dates == {"never", "ahead", "due"}

FeatureStates == [possible : Levels, failed : Nat, retry : Dates, badOpt : BOOLEAN]
NewFeatures == [possible |-> DnssecOk, failed |-> 0, retry |-> "never", badOpt |-> FALSE]

TransportModes == {"udp", "tcp"}
TransportStates == [mode : TransportModes, failed : [TransportModes -> Nat]]
NoFailures == [m \in TransportModes |-> 0]
NewTransport == [mode |-> "udp", failed |-> NoFailures]

Capabilities == [possible : BOOLEAN, retry : Dates]
NewCapability == [possible |-> TRUE, retry |-> "never"]

(* saturating_add, up to the limit the count is compared with.             *)
Bump(n, limit) == IF n < limit THEN n + 1 ELSE n

-----------------------------------------------------------------------------
(* ServerFeatureState                                                      *)

DowngradeForGood(f, level) ==
    IF level >= f.possible THEN f ELSE [f EXCEPT !.possible = level, !.failed = 0]

downgrade_to(f, level) ==
    IF level >= f.possible THEN f
    ELSE [f EXCEPT !.possible = level, !.failed = 0, !.retry = "ahead"]

(* possible_level, whose result is the new value of possible.              *)
possible_level(f, best) ==
    LET opted == IF f.badOpt THEN Udp ELSE f.possible
        capped == IF opted > best THEN best ELSE opted
    IN  IF capped < best /\ f.retry = "due"
        THEN [possible |-> best, failed |-> 0, retry |-> "never", badOpt |-> FALSE]
        ELSE [f EXCEPT !.possible = capped]

FeatureFailed(f, level) ==
    IF level # f.possible THEN f
    ELSE LET counted == [f EXCEPT !.failed = Bump(@, FeatureRetryAttempts)]
         IN  IF counted.failed < FeatureRetryAttempts THEN counted
             ELSE downgrade_to(counted, Lower(level))

(* record_failure returns the lower level when it has just lowered it.     *)
Lowered(f, level) == level = f.possible /\ FeatureFailed(f, level).possible < level

FeatureSucceeded(f, level) ==
    [f EXCEPT !.failed = IF level = f.possible THEN 0 ELSE @]

record_bad_opt(f, level) ==
    IF level > Udp THEN downgrade_to([f EXCEPT !.badOpt = TRUE], Udp) ELSE f

record_do_off(f, level) ==
    IF level = DnssecOk THEN downgrade_to(f, Edns0) ELSE f

(* ServerTransportState                                                    *)
OtherMode(m) == IF m = "udp" THEN "tcp" ELSE "udp"

TransportKeepsCounts(x, m) ==
    LET counted == [x EXCEPT !.failed[m] = Bump(@, TransportRetryAttempts)]
    IN  IF counted.failed[m] < TransportRetryAttempts \/ m # x.mode
        THEN counted
        ELSE [counted EXCEPT !.mode = OtherMode(m)]

TransportFailed(x, m) ==
    LET counted == [x EXCEPT !.failed[m] = Bump(@, TransportRetryAttempts)]
    IN  IF counted.failed[m] < TransportRetryAttempts \/ m # x.mode
        THEN counted
        ELSE [mode |-> OtherMode(m), failed |-> NoFailures]

Switched(x, m) == TransportFailed(x, m).mode # x.mode

TransportSucceeded(x, m) == [x EXCEPT !.failed[m] = 0]

clear_failures(x) == [x EXCEPT !.failed = NoFailures]

(* TlsCapability                                                           *)
TlsRetried(c) ==
    IF ~c.possible /\ c.retry = "due" THEN NewCapability ELSE c

TlsFailed(c, strict) == IF strict THEN c ELSE [possible |-> FALSE, retry |-> "ahead"]

-----------------------------------------------------------------------------
exhausted(t) == budget[t].attempts >= AttemptsMax

NoWalk == [tries |-> 0, attempted |-> {}, tried |-> {}, last |-> "none", tsig |-> FALSE]
NoExchange == [server |-> NoServer, dnssec |-> "no", tls |-> "no", forced |-> NoLevel,
               probe |-> FALSE, servfail |-> FALSE, features |-> 0, transports |-> 0,
               overTls |-> FALSE, level |-> Udp, transport |-> "udp"]

Strict(t) == ex[t].dnssec = "yes"
StrictTls(t) == ex[t].tls = "yes"
Server(t) == ex[t].server
ManagedOpt(t) == ~walk[t].tsig

GoTo(t, label) == pc' = [pc EXCEPT ![t] = label]

Init ==
    /\ dnssec \in [Servers -> DnssecModes]
    /\ tls \in [Servers -> TlsModes]
    /\ features = [s \in Servers |-> NewFeatures]
    /\ transport = [s \in Servers |-> NewTransport]
    /\ capability = [s \in Servers |-> NewCapability]
    /\ omitsRrsig = [s \in Servers |-> FALSE]
    /\ pc = [t \in Threads |-> "idle"]
    /\ budget = [t \in Threads |-> [attempts |-> 0, expired |-> FALSE]]
    /\ walk = [t \in Threads |-> NoWalk]
    /\ ex = [t \in Threads |-> NoExchange]
    /\ emitted = [t \in Threads |-> 0]
    /\ changes = 0

(***************************************************************************)
(* query_servers                                                           *)
(***************************************************************************)
StartQuery(t) ==
    /\ pc[t] = "idle"
    /\ \E tsig \in TsigQueries : walk' = [walk EXCEPT ![t] = [NoWalk EXCEPT !.tsig = tsig]]
    /\ budget' = [budget EXCEPT ![t] = [attempts |-> 0, expired |-> FALSE]]
    /\ emitted' = [emitted EXCEPT ![t] = 0]
    /\ GoTo(t, "next")
    /\ UNCHANGED <<modeVars, sharedVars, ex>>

(* The overall deadline of DNS_QUERY_TIMEOUT has passed when t looks.      *)
DeadlinePassed(t) == budget' = [budget EXCEPT ![t].expired = TRUE]

(* The next server, none of the attempted ones unless all have been; and   *)
(* its DNSSEC mode.                                                        *)
Candidates(t) ==
    IF walk[t].attempted = Servers THEN Servers ELSE Servers \ walk[t].attempted

NextServer(t) ==
    /\ pc[t] = "next"
    /\ walk[t].tries < ConfigAttempts /\ ~exhausted(t) /\ ~budget[t].expired
    /\ \E s \in Candidates(t) :
          /\ walk' = [walk EXCEPT ![t].tries = @ + 1,
                                  ![t].attempted = (IF @ = Servers THEN {} ELSE @) \cup {s},
                                  ![t].tried = @ \cup {s}]
          /\ ex' = [ex EXCEPT ![t] = [NoExchange EXCEPT !.server = s, !.dnssec = dnssec[s]]]
    /\ GoTo(t, "modes")
    /\ UNCHANGED <<modeVars, sharedVars, budget, emitted>>

(* The walk ends without an answer: the last REFUSED, else an error.       *)
Conclude(t) ==
    /\ pc[t] = "next"
    /\ \/ DeadlinePassed(t)
       \/ (walk[t].tries = ConfigAttempts \/ exhausted(t)) /\ UNCHANGED budget
    /\ walk' = [walk EXCEPT ![t].last = IF @ = "refused" THEN @ ELSE "error"]
    /\ GoTo(t, "idle")
    /\ UNCHANGED <<modeVars, sharedVars, ex, emitted>>

(* exchange_with_features returns an error: on to the next server.         *)
Fail(t) ==
    /\ ex' = [ex EXCEPT ![t] = NoExchange]
    /\ GoTo(t, "next")
    /\ UNCHANGED walk

NeverKeepAsking(t) == FALSE
KeepAsking(t) == walk[t].attempted # Servers

(* It returns a packet.  A REFUSED one is kept while there are servers     *)
(* that have not been attempted.                                           *)
Return(t, rcode) ==
    /\ ex' = [ex EXCEPT ![t] = NoExchange]
    /\ \/ /\ rcode # "refused"
          /\ walk' = [walk EXCEPT ![t].last = "answer"]
          /\ GoTo(t, "idle")
       \/ /\ rcode = "refused"
          /\ walk' = [walk EXCEPT ![t].last = "refused"]
          /\ GoTo(t, IF KeepAsking(t) THEN "next" ELSE "idle")

(***************************************************************************)
(* exchange_with_features, up to the packet                                *)
(***************************************************************************)
ReadTlsMode(t) ==
    /\ pc[t] = "modes"
    /\ ex' = [ex EXCEPT ![t].tls = tls[Server(t)]]
    /\ GoTo(t, "loop")
    /\ UNCHANGED <<modeVars, sharedVars, budget, walk, emitted>>

(* The head of the loop: is TLS possible?  Strict mode does not ask.       *)
UsesTlsIfPossible(t, c) == ex[t].tls # "no" /\ c.possible
UsesTls(t, c) == ex[t].tls # "no" /\ (StrictTls(t) \/ c.possible)

CheckTls(t) ==
    /\ pc[t] = "loop"
    /\ LET c == capability[Server(t)]
           known == IF ex[t].tls = "opportunistic" THEN TlsRetried(c) ELSE c
       IN  /\ capability' = [capability EXCEPT ![Server(t)] = known]
           /\ ex' = [ex EXCEPT ![t].overTls = UsesTls(t, known)]
    /\ GoTo(t, "level")
    /\ UNCHANGED <<modeVars, features, transport, omitsRrsig, budget, walk, emitted>>

Preferred(mode) == IF mode = "no" THEN Edns0 ELSE DnssecOk

Best(s, mode) == IF omitsRrsig[s] /\ mode # "yes" THEN Edns0 ELSE Preferred(mode)

begin_attempt(t) ==
    /\ ~exhausted(t) /\ ~budget[t].expired
    /\ budget' = [budget EXCEPT ![t].attempts = @ + 1]

(* The level and the transport of this attempt, which begin_attempt counts *)
(* or refuses.                                                             *)
ChooseLevel(t) ==
    /\ pc[t] = "level"
    /\ LET s == Server(t)
           chosen == possible_level(features[s], Best(s, ex[t].dnssec))
           level == IF ex[t].forced # NoLevel THEN ex[t].forced ELSE chosen.possible
       IN  /\ features' = IF ex[t].forced # NoLevel THEN features
                          ELSE [features EXCEPT ![s] = chosen]
           /\ \/ /\ DeadlinePassed(t) \/ (exhausted(t) /\ UNCHANGED budget)
                 /\ Fail(t)
              \/ /\ begin_attempt(t)
                 /\ ex' = [ex EXCEPT ![t].level = level, ![t].transport = transport[s].mode]
                 /\ GoTo(t, IF ex[t].overTls THEN "tls" ELSE transport[s].mode)
                 /\ UNCHANGED walk
    /\ UNCHANGED <<modeVars, transport, capability, omitsRrsig, emitted>>

(* How often a query is sent over a stream: a pooled stream that fails is  *)
(* replaced by a fresh one.                                                *)
Sends == 1 .. 2

Emit(t, n) == emitted' = [emitted EXCEPT ![t] = @ + n]

(* exchange_tls: a packet, a failure (of connecting, too) or an answer     *)
(* that breaks the protocol.                                               *)
ExchangeTls(t) ==
    /\ pc[t] = "tls"
    /\ \/ /\ \E n \in Sends : Emit(t, n)
          /\ capability' = [capability EXCEPT ![Server(t)] = NewCapability]
          /\ GoTo(t, "packet")
          /\ ex' = [ex EXCEPT ![t].transport = "tcp"]
          /\ UNCHANGED walk
       \/ /\ \E n \in Sends \cup {0} : Emit(t, n)
          /\ capability' = [capability EXCEPT ![Server(t)] = TlsFailed(@, StrictTls(t))]
          /\ \/ StrictTls(t) /\ Fail(t)
             \/ ~StrictTls(t) /\ GoTo(t, "loop") /\ UNCHANGED <<walk, ex>>
       \/ /\ \E n \in Sends : Emit(t, n)
          /\ Fail(t)
          /\ UNCHANGED capability
    /\ UNCHANGED <<modeVars, features, transport, omitsRrsig, budget>>

(* exchange_udp gets a packet.  A truncated one, or one that came in       *)
(* fragments, asks for TCP.                                                *)
ExchangeUdp(t) ==
    /\ pc[t] = "udp"
    /\ Emit(t, 1)
    /\ transport' = [transport EXCEPT ![Server(t)] = TransportSucceeded(@, "udp")]
    /\ \E truncated, fragmented \in BOOLEAN :
          IF truncated \/ (fragmented /\ ex[t].level > Udp)
          THEN \/ DeadlinePassed(t) /\ Fail(t)
               \/ ~budget[t].expired /\ GoTo(t, "fallback") /\ UNCHANGED <<budget, walk, ex>>
          ELSE GoTo(t, "packet") /\ UNCHANGED <<budget, walk, ex>>
    /\ UNCHANGED <<modeVars, features, capability, omitsRrsig>>

RetryAtServerLevel(t, level) ==
    /\ ex' = [ex EXCEPT ![t].features = @ + 1, ![t].forced = features[Server(t)].possible]
    /\ GoTo(t, "loop")
    /\ UNCHANGED walk

Retry(t, level) ==
    /\ ex' = [ex EXCEPT ![t].features = @ + 1, ![t].forced = level]
    /\ GoTo(t, "loop")
    /\ UNCHANGED walk

(* exchange_udp fails: lower the level once the server has failed often    *)
(* enough at it.                                                           *)
CountsIfManaged(t) == ManagedOpt(t)
Counts(t) == ManagedOpt(t) /\ ~Strict(t)

LoseUdp(t) ==
    /\ pc[t] = "udp"
    /\ \E n \in 0 .. 1 : Emit(t, n)
    /\ LET s == Server(t)
           lowered == /\ Counts(t) /\ Lowered(features[s], ex[t].level)
                      /\ ex[t].features < MaxFeatureRetries
       IN  /\ features' = IF Counts(t) THEN [features EXCEPT ![s] = FeatureFailed(@, ex[t].level)]
                          ELSE features
           /\ \/ lowered /\ GoTo(t, "clear") /\ UNCHANGED <<walk, ex>>
              \/ ~lowered /\ ex[t].level = Udp /\ GoTo(t, "lost") /\ UNCHANGED <<walk, ex>>
              \/ ~lowered /\ ex[t].level > Udp /\ Fail(t)
    /\ UNCHANGED <<modeVars, transport, capability, omitsRrsig, budget>>

(* clear_transport_failures before the retry at the lower level.           *)
ClearFailures(t) ==
    /\ pc[t] = "clear"
    /\ transport' = [transport EXCEPT ![Server(t)] = clear_failures(@)]
    /\ Retry(t, Lower(ex[t].level))
    /\ UNCHANGED <<modeVars, features, capability, omitsRrsig, budget, emitted>>

(* record_transport_failure, of UDP and of TCP in its own mode.            *)
RetryTransport(t, m) ==
    LET s == Server(t)
    IN  /\ transport' = [transport EXCEPT ![s] = TransportFailed(@, m)]
        /\ IF Switched(transport[s], m) /\ ex[t].transports < MaxTransportRetries
           THEN /\ ex' = [ex EXCEPT ![t].transports = @ + 1]
                /\ GoTo(t, "loop")
                /\ UNCHANGED walk
           ELSE Fail(t)

LoseUdpTransport(t) ==
    /\ pc[t] = "lost"
    /\ RetryTransport(t, "udp")
    /\ UNCHANGED <<modeVars, features, capability, omitsRrsig, budget, emitted>>

(* exchange_tcp gets a packet.                                             *)
ExchangeTcp(t) ==
    /\ pc[t] \in {"tcp", "fallback"}
    /\ \E n \in Sends : Emit(t, n)
    /\ transport' = [transport EXCEPT ![Server(t)] = TransportSucceeded(@, "tcp")]
    /\ ex' = [ex EXCEPT ![t].transport = "tcp"]
    /\ GoTo(t, "packet")
    /\ UNCHANGED <<modeVars, features, capability, omitsRrsig, budget, walk>>

LoseTcp(t) ==
    /\ pc[t] = "tcp"
    /\ \E n \in Sends \cup {0} : Emit(t, n)
    /\ RetryTransport(t, "tcp")
    /\ UNCHANGED <<modeVars, features, capability, omitsRrsig, budget>>

(* TCP fails after UDP asked for it: after enough failures the level is    *)
(* to blame.                                                               *)
LoseFallback(t) ==
    /\ pc[t] = "fallback"
    /\ \E n \in Sends \cup {0} : Emit(t, n)
    /\ LET s == Server(t)
           failed == TransportFailed(transport[s], "tcp")
       IN  /\ transport' = [transport EXCEPT ![s] = failed]
           /\ IF /\ failed.failed["tcp"] >= TransportRetryAttempts
                 /\ ex[t].level > Udp /\ ~Strict(t) /\ ex[t].features < MaxFeatureRetries
              THEN GoTo(t, "blame") /\ UNCHANGED <<walk, ex>>
              ELSE Fail(t)
    /\ UNCHANGED <<modeVars, features, capability, omitsRrsig, budget>>

(* downgrade_feature.                                                      *)
BlameLevel(t) ==
    /\ pc[t] = "blame"
    /\ features' = [features EXCEPT ![Server(t)] = downgrade_to(@, Lower(ex[t].level))]
    /\ transport' = [transport EXCEPT ![Server(t)] = clear_failures(@)]
    /\ Retry(t, Lower(ex[t].level))
    /\ UNCHANGED <<modeVars, capability, omitsRrsig, budget, emitted>>

(***************************************************************************)
(* exchange_with_features, from the packet on.  opt is what inspect_opt    *)
(* finds: no OPT record, one of another version (or BADVERS), one without  *)
(* the DO flag, or one that is in order.  formerr stands for FORMERR and   *)
(* NOTIMP, noerror for the rcodes the code does not look at; ede is the    *)
(* Extended DNS Error.                                                     *)
(***************************************************************************)
Packets ==
    {p \in [opt : {"none", "version", "no_do", "ok"},
            rcode : {"noerror", "refused", "servfail", "formerr"},
            ede : {"none", "not_ready", "other", "short"}] :
        p.ede # "none" => p.opt # "none" /\ p.rcode = "servfail"}

rcode_requests_feature_downgrade(p) == p.rcode \in {"servfail", "formerr"}

SentEdns(t) == ManagedOpt(t) /\ ex[t].level > Udp
BadOpt(t, p) == SentEdns(t) /\ p.opt \in {"none", "version"}
DoOff(t, p) == SentEdns(t) /\ p.opt = "no_do" /\ ex[t].level = DnssecOk
Sound(t, p) == ~BadOpt(t, p) /\ ~DoOff(t, p)

CanRetry(t) == ex[t].features < MaxFeatureRetries

(* A packet whose OPT or root RRSIG records cannot be parsed; in strict    *)
(* mode also one of the wrong version or without the DO flag.              *)
RejectPacket(t) ==
    /\ pc[t] = "packet"
    /\ Fail(t)
    /\ UNCHANGED <<modeVars, sharedVars, budget, emitted>>

(* record_bad_opt, record_do_off: learn the lower level and retry at it.   *)
Relearn(t, p, learnt) ==
    /\ features' = [features EXCEPT ![Server(t)] = learnt]
    /\ transport' = [transport EXCEPT ![Server(t)] = clear_failures(@)]
    /\ IF CanRetry(t) /\ (p.opt = "none" => rcode_requests_feature_downgrade(p))
       THEN Retry(t, learnt.possible)
       ELSE Return(t, p.rcode)
    /\ UNCHANGED <<modeVars, capability, omitsRrsig, budget, emitted>>

RecordBadOpt(t) ==
    /\ pc[t] = "packet" /\ ~Strict(t)
    /\ \E p \in Packets :
          /\ BadOpt(t, p)
          /\ Relearn(t, p, record_bad_opt(features[Server(t)], ex[t].level))

RecordDoOff(t) ==
    /\ pc[t] = "packet" /\ ~Strict(t)
    /\ \E p \in Packets :
          /\ DoOff(t, p)
          /\ Relearn(t, p, record_do_off(features[Server(t)], ex[t].level))

(* root_rrsig_missing: the OPT record is in order, the signatures are not  *)
(* there.                                                                  *)
RecordMissingRootRrsig(t) ==
    /\ pc[t] = "packet" /\ ManagedOpt(t) /\ ex[t].level = DnssecOk
    /\ omitsRrsig' = [omitsRrsig EXCEPT ![Server(t)] = TRUE]
    /\ IF Strict(t)
       THEN /\ Fail(t)
            /\ UNCHANGED <<features, transport>>
       ELSE /\ features' = [features EXCEPT ![Server(t)] = downgrade_to(@, Edns0)]
            /\ transport' = [transport EXCEPT ![Server(t)] = clear_failures(@)]
            /\ IF CanRetry(t) THEN Retry(t, Edns0) ELSE Fail(t)
    /\ UNCHANGED <<modeVars, capability, budget, emitted>>

(* SERVFAIL: a server that is not ready is asked again, without a count    *)
(* but the budget's; any other Extended DNS Error is final; without one    *)
(* the same level gets a second chance.                                    *)
SecondChance(t, p) ==
    p.rcode = "servfail" /\ p.ede = "none" /\ ex[t].level > Udp /\ ~Strict(t) /\ ~ex[t].servfail

HandleServfail(t) ==
    /\ pc[t] = "packet"
    /\ \E p \in Packets :
          /\ Sound(t, p) /\ p.rcode = "servfail"
          /\ \/ /\ p.ede = "not_ready"
                /\ ex' = [ex EXCEPT ![t].forced = ex[t].level]
                /\ GoTo(t, "loop")
                /\ UNCHANGED walk
             \/ p.ede = "other" /\ Return(t, p.rcode)
             \/ p.ede = "short" /\ Fail(t)
             \/ /\ SecondChance(t, p)
                /\ ex' = [ex EXCEPT ![t].servfail = TRUE, ![t].forced = ex[t].level]
                /\ GoTo(t, "loop")
                /\ UNCHANGED walk
    /\ UNCHANGED <<modeVars, sharedVars, budget, emitted>>

(* The rcode may be the level's fault: try the lower one without recording *)
(* anything.                                                               *)
Suspicious(t, p) ==
    /\ rcode_requests_feature_downgrade(p)
    /\ ex[t].level > Udp /\ ~Strict(t) /\ CanRetry(t)

ProbeLower(t) ==
    /\ pc[t] = "packet"
    /\ \E p \in Packets :
          Sound(t, p) /\ p.ede = "none" /\ ~SecondChance(t, p) /\ Suspicious(t, p)
    /\ ex' = [ex EXCEPT ![t].features = @ + 1, ![t].forced = Lower(ex[t].level),
                        ![t].probe = TRUE]
    /\ GoTo(t, "loop")
    /\ UNCHANGED <<modeVars, sharedVars, budget, walk, emitted>>

(* The packet is accepted; if a probe led to it, the level is recorded.    *)
Accept(t) ==
    /\ pc[t] = "packet"
    /\ \E p \in Packets :
          /\ Sound(t, p) /\ p.ede = "none" /\ ~SecondChance(t, p) /\ ~Suspicious(t, p)
          /\ LET s == Server(t)
                 probed == ex[t].probe /\ ~rcode_requests_feature_downgrade(p)
                 level == IF ex[t].transport = "udp" \/ ex[t].overTls THEN ex[t].level ELSE Udp
                 learnt == IF probed THEN downgrade_to(features[s], ex[t].level)
                           ELSE features[s]
             IN  IF ManagedOpt(t)
                 THEN /\ features' = [features EXCEPT ![s] = FeatureSucceeded(learnt, level)]
                      /\ transport' = IF probed
                                      THEN [transport EXCEPT ![s] = clear_failures(@)]
                                      ELSE transport
                 ELSE UNCHANGED <<features, transport>>
          /\ Return(t, p.rcode)
    /\ UNCHANGED <<modeVars, capability, omitsRrsig, budget, emitted>>

(***************************************************************************)
(* The rest of the program: link setters and networkd change the modes,    *)
(* reset_server_features forgets, and dates come.                          *)
(***************************************************************************)
SetDnssec(s, m) ==
    /\ changes < MaxModeChanges
    /\ changes' = changes + 1
    /\ dnssec' = [dnssec EXCEPT ![s] = m]
    /\ UNCHANGED <<tls, sharedVars, pc, budget, walk, ex, emitted>>

SetDnsOverTls(s, m) ==
    /\ changes < MaxModeChanges
    /\ changes' = changes + 1
    /\ tls' = [tls EXCEPT ![s] = m]
    /\ UNCHANGED <<dnssec, sharedVars, pc, budget, walk, ex, emitted>>

reset_server_features ==
    /\ features' = [s \in Servers |-> NewFeatures]
    /\ transport' = [s \in Servers |-> NewTransport]
    /\ capability' = [s \in Servers |-> NewCapability]
    /\ omitsRrsig' = [s \in Servers |-> FALSE]
    /\ UNCHANGED <<modeVars, pc, budget, walk, ex, emitted>>

GraceEnds(s) ==
    /\ \/ /\ features[s].retry = "ahead"
          /\ features' = [features EXCEPT ![s].retry = "due"]
          /\ UNCHANGED capability
       \/ /\ capability[s].retry = "ahead"
          /\ capability' = [capability EXCEPT ![s].retry = "due"]
          /\ UNCHANGED features
    /\ UNCHANGED <<modeVars, transport, omitsRrsig, pc, budget, walk, ex, emitted>>

Step(t) ==
    \/ NextServer(t) \/ Conclude(t) \/ ReadTlsMode(t) \/ CheckTls(t) \/ ChooseLevel(t)
    \/ ExchangeTls(t) \/ ExchangeUdp(t) \/ LoseUdp(t) \/ ClearFailures(t) \/ LoseUdpTransport(t)
    \/ ExchangeTcp(t) \/ LoseTcp(t) \/ LoseFallback(t) \/ BlameLevel(t)
    \/ RejectPacket(t) \/ RecordBadOpt(t) \/ RecordDoOff(t) \/ RecordMissingRootRrsig(t)
    \/ HandleServfail(t) \/ ProbeLower(t) \/ Accept(t)

Next ==
    \/ \E t \in Threads : StartQuery(t) \/ Step(t)
    \/ \E s \in Servers : \/ \E m \in DnssecModes : SetDnssec(s, m)
                          \/ \E m \in TlsModes : SetDnsOverTls(s, m)
                          \/ GraceEnds(s)
    \/ reset_server_features

Spec == Init /\ [][Next]_vars

(* A thread that runs query_servers keeps running: every exchange has a    *)
(* socket timeout.                                                         *)
FairSpec == Spec /\ \A t \in Threads : WF_vars(Step(t))

-----------------------------------------------------------------------------
SendSteps == {"tls", "udp", "tcp", "fallback"}
ExchangeSteps == SendSteps \cup {"modes", "loop", "level", "clear", "lost", "blame", "packet"}
Steps == ExchangeSteps \cup {"idle", "next"}

Walks == [tries : Nat, attempted : SUBSET Servers, tried : SUBSET Servers,
          last : {"none", "answer", "refused", "error"}, tsig : BOOLEAN]
Exchanges == [server : Servers \cup {NoServer}, dnssec : {"no", "allow", "yes"},
              tls : {"no", "opportunistic", "yes"}, forced : Levels \cup {NoLevel},
              probe : BOOLEAN, servfail : BOOLEAN, features : Nat, transports : Nat,
              overTls : BOOLEAN, level : Levels, transport : TransportModes]

(* Every variable has its type.                                            *)
TypeOK ==
    /\ dnssec \in [Servers -> DnssecModes]
    /\ tls \in [Servers -> TlsModes]
    /\ features \in [Servers -> FeatureStates]
    /\ transport \in [Servers -> TransportStates]
    /\ capability \in [Servers -> Capabilities]
    /\ omitsRrsig \in [Servers -> BOOLEAN]
    /\ pc \in [Threads -> Steps]
    /\ budget \in [Threads -> [attempts : Nat, expired : BOOLEAN]]
    /\ walk \in [Threads -> Walks]
    /\ ex \in [Threads -> Exchanges]
    /\ \A t \in Threads : pc[t] \in ExchangeSteps => ex[t].server \in Servers
    /\ emitted \in [Threads -> Nat]
    /\ changes \in Nat

(***************************************************************************)
(* A server that is asked below its best level has a date at which the     *)
(* best level is tried again: no answer, lost packet or race with another  *)
(* thread leaves it there for good.  Holds while modes do not change; a    *)
(* link whose DNSSEC mode is raised breaks it, because possible_level has  *)
(* lowered possible to the old mode's best level without a date.           *)
(***************************************************************************)
Recoverable ==
    \A s \in Servers :
        features[s].possible < Best(s, dnssec[s]) => features[s].retry # "never"

(***************************************************************************)
(* With DNSSEC=yes every query goes out with the DO flag, whatever other   *)
(* threads learn from the server meanwhile.  For modes that do not change. *)
(***************************************************************************)
StrictAsksForDnssec ==
    \A t \in Threads :
        pc[t] \in SendSteps /\ Strict(t) /\ ManagedOpt(t) => ex[t].level = DnssecOk

(***************************************************************************)
(* "strict TLS failure never emits plain DNS": an exchange that began in   *)
(* strict mode sends nothing in the clear, although other exchanges find   *)
(* the server unable to do TLS and although the mode may change meanwhile. *)
(***************************************************************************)
StrictTlsStaysEncrypted ==
    \A t \in Threads : pc[t] \in {"udp", "tcp", "fallback"} => ~StrictTls(t)

(***************************************************************************)
(* The transport in use is always one short of being given up: a count     *)
(* never gets stuck at the limit, where it would no longer switch.         *)
(***************************************************************************)
ActiveTransportBelowLimit ==
    \A s \in Servers : transport[s].failed[transport[s].mode] < TransportRetryAttempts

(***************************************************************************)
(* REFUSED is passed on only if every server of the scope was asked, or    *)
(* the attempts, the budget or the time ran out first.                     *)
(***************************************************************************)
RefusedAfterAll ==
    \A t \in Threads :
        pc[t] = "idle" /\ walk[t].last = "refused" =>
            \/ walk[t].tried = Servers
            \/ walk[t].tries = ConfigAttempts
            \/ exhausted(t) \/ budget[t].expired

(***************************************************************************)
(* What an exchange can put on the wire: at most three queries for each    *)
(* attempt the budget counts, one over UDP and two over TCP.  The budget   *)
(* itself does not bound the queries sent: neither TCP after a truncated   *)
(* answer nor exchange_tcp's second stream calls begin_attempt.            *)
(***************************************************************************)
EmissionsBounded ==
    \A t \in Threads : emitted[t] <= 3 * budget[t].attempts /\ budget[t].attempts <= AttemptsMax

(***************************************************************************)
(* Once an exchange has been sent back to a level it never goes above it,  *)
(* even if the server's state is reset or its grace period ends meanwhile. *)
(***************************************************************************)
ForcedLevelKept ==
    \A t \in Threads :
        ex[t].forced # NoLevel /\ ex'[t].server = ex[t].server =>
            ex'[t].forced \in Udp .. ex[t].forced
ForcedLevelNeverRises == [][ForcedLevelKept]_vars

(* query_servers always returns: each way round its loop uses up budget.   *)
WalksEnd == \A t \in Threads : (pc[t] # "idle") ~> (pc[t] = "idle")
=============================================================================
