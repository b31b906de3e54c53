----------------------- MODULE ServerExchange_proofs ------------------------
(***************************************************************************)
(* The safety properties of ServerExchange, for any number of threads and  *)
(* servers and any limits.  First what the actions do, as the proofs need  *)
(* it: each action of a thread is one of a few moves of its exchange, its  *)
(* walk and its budget, and changes what is known of one server in one of  *)
(* a few ways.  Then two inductive invariants: Inv, thread by thread, for  *)
(* any changes of the modes; and FixedInv, which also relates threads to   *)
(* what is known of their servers, while DNSSEC modes stay.                *)
(***************************************************************************)
EXTENDS ServerExchange, TLAPS

(* downgrade_to lowers the level or leaves the state alone.                *)
LEMMA DowngradeFacts ==
    ASSUME NEW f \in FeatureStates, NEW l \in Levels
    PROVE  /\ downgrade_to(f, l) \in FeatureStates
           /\ downgrade_to(f, l).possible = (IF l >= f.possible THEN f.possible ELSE l)
           /\ downgrade_to(f, l).badOpt = f.badOpt
           /\ downgrade_to(f, l).retry = (IF l >= f.possible THEN f.retry ELSE "ahead")
BY Zenon DEF downgrade_to, FeatureStates, Dates, Levels

(* The level below a level.                                                *)
LEMMA LowerFacts ==
    ASSUME NEW l \in Levels
    PROVE  Lower(l) \in Levels /\ Lower(l) <= l /\ (l # Udp => Lower(l) < l)
BY DEF Lower, Levels, Udp, Edns0, DnssecOk

(* possible_level returns a state of a server.                             *)
LEMMA PossibleFacts ==
    ASSUME NEW f \in FeatureStates, NEW best \in Levels
    PROVE  /\ possible_level(f, best) \in FeatureStates
BY DEF possible_level, FeatureStates, Dates, Levels, Udp

(* record_failure returns a state of a server.                             *)
LEMMA FailedFacts ==
    ASSUME NEW f \in FeatureStates, NEW l \in Levels
    PROVE  FeatureFailed(f, l) \in FeatureStates
<1>1. [f EXCEPT !.failed = Bump(@, FeatureRetryAttempts)] \in FeatureStates
  BY LimitsAssumption DEF FeatureStates, Bump
<1> QED  BY <1>1, DowngradeFacts, LowerFacts DEF FeatureFailed

(* record_success returns a state of a server.                             *)
LEMMA SucceededFacts ==
    ASSUME NEW f \in FeatureStates, NEW l \in Levels
    PROVE  FeatureSucceeded(f, l) \in FeatureStates
BY DEF FeatureSucceeded, FeatureStates

(* record_bad_opt goes down to plain UDP, whatever it was asked with.      *)
LEMMA BadOptFacts ==
    ASSUME NEW f \in FeatureStates, NEW l \in Levels
    PROVE  /\ record_bad_opt(f, l) \in FeatureStates
           /\ record_bad_opt(f, l).possible \in Levels
           /\ l > Udp => record_bad_opt(f, l).possible = Udp
<1> DEFINE g == [f EXCEPT !.badOpt = TRUE]
<1>1. g \in FeatureStates /\ g.possible = f.possible /\ f.possible \in Levels
  BY Zenon DEF FeatureStates
<1>2. Udp \in Levels /\ \A p \in Levels : Udp >= p <=> p = Udp
  BY DEF Levels, Udp, Edns0, DnssecOk
<1>3. downgrade_to(g, Udp) \in FeatureStates /\ downgrade_to(g, Udp).possible = Udp
  <2> HIDE DEF g
  <2> QED  BY Zenon, <1>1, <1>2, DowngradeFacts
<1> QED  BY Zenon, <1>1, <1>2, <1>3 DEF record_bad_opt

(* record_do_off gives up the DO flag, and no more.                        *)
LEMMA DoOffFacts ==
    ASSUME NEW f \in FeatureStates, NEW l \in Levels
    PROVE  /\ record_do_off(f, l) \in FeatureStates
           /\ record_do_off(f, l).possible \in Levels
           /\ l = DnssecOk => record_do_off(f, l).possible <= Edns0
<1>1. f.possible \in Levels
  BY DEF FeatureStates
<1> QED  BY <1>1, DowngradeFacts DEF record_do_off, Levels, Udp, Edns0, DnssecOk

(* The operations on a transport state return transport states.            *)
LEMMA TransportFacts ==
    ASSUME NEW x \in TransportStates, NEW m \in TransportModes
    PROVE  /\ TransportFailed(x, m) \in TransportStates
           /\ TransportSucceeded(x, m) \in TransportStates
           /\ clear_failures(x) \in TransportStates
BY LimitsAssumption DEF TransportFailed, TransportSucceeded, clear_failures, TransportStates,
   TransportModes, NoFailures, Bump, OtherMode

(* A server nothing is known of.                                           *)
LEMMA NewFacts == /\ NewFeatures \in FeatureStates /\ NewTransport \in TransportStates
                  /\ NewCapability \in Capabilities
BY DEF NewFeatures, NewTransport, NewCapability, FeatureStates, TransportStates, Capabilities,
   Dates, Levels, TransportModes, NoFailures

(* The operations on a TLS capability return TLS capabilities.             *)
LEMMA TlsFacts ==
    ASSUME NEW c \in Capabilities, NEW b \in BOOLEAN
    PROVE  TlsRetried(c) \in Capabilities /\ TlsFailed(c, b) \in Capabilities
BY NewFacts DEF TlsRetried, TlsFailed, Capabilities, Dates

(* The locals before an exchange.                                          *)
LEMMA NoExchangeType == NoExchange \in Exchanges
BY DEF NoExchange, Exchanges, TransportModes, Levels

(* A step of t changes no other thread's locals.                           *)
Only(t) ==
    /\ pc' = [pc EXCEPT ![t] = pc'[t]]
    /\ budget' = [budget EXCEPT ![t] = budget'[t]]
    /\ walk' = [walk EXCEPT ![t] = walk'[t]]
    /\ ex' = [ex EXCEPT ![t] = ex'[t]]
    /\ emitted' = [emitted EXCEPT ![t] = emitted'[t]]

(* DnsAttemptBudget.                                                       *)
Budgets == [attempts : Nat, expired : BOOLEAN]

(* Threads share what they learn about servers, never each other's locals. *)
LEMMA OnlyStep ==
    ASSUME TypeOK, NEW t \in Threads, StartQuery(t) \/ Step(t)
    PROVE  Only(t)
<1> USE DEF TypeOK, Only, GoTo
<1>1. CASE StartQuery(t)  BY <1>1 DEF StartQuery
<1>2. CASE NextServer(t)  BY Zenon, <1>2 DEF NextServer
<1>3. CASE Conclude(t)  BY <1>3 DEF Conclude, DeadlinePassed
<1>4. CASE ReadTlsMode(t)  BY <1>4 DEF ReadTlsMode
<1>5. CASE CheckTls(t)  BY <1>5 DEF CheckTls
<1>6. CASE ChooseLevel(t)  BY <1>6 DEF ChooseLevel, DeadlinePassed, Fail, begin_attempt
<1>7. CASE ExchangeTls(t)  BY <1>7 DEF ExchangeTls, Emit, Fail
<1>8. CASE ExchangeUdp(t)  BY <1>8 DEF ExchangeUdp, Emit, Fail, DeadlinePassed
<1>9. CASE LoseUdp(t)  BY <1>9 DEF LoseUdp, Emit, Fail
<1>10. CASE ClearFailures(t)  BY Zenon, <1>10 DEF ClearFailures, Retry
<1>11. CASE LoseUdpTransport(t)  BY <1>11 DEF LoseUdpTransport, RetryTransport, Fail
<1>12. CASE ExchangeTcp(t)  BY <1>12 DEF ExchangeTcp, Emit
<1>13. CASE LoseTcp(t)  BY <1>13 DEF LoseTcp, Emit, RetryTransport, Fail
<1>14. CASE LoseFallback(t)  BY <1>14 DEF LoseFallback, Emit, Fail
<1>15. CASE BlameLevel(t)  BY Zenon, <1>15 DEF BlameLevel, Retry
<1>16. CASE RejectPacket(t)  BY <1>16 DEF RejectPacket, Fail
<1>17. CASE RecordBadOpt(t)  BY <1>17 DEF RecordBadOpt, Relearn, Retry, Return
<1>18. CASE RecordDoOff(t)  BY <1>18 DEF RecordDoOff, Relearn, Retry, Return
<1>19. CASE RecordMissingRootRrsig(t)  BY <1>19 DEF RecordMissingRootRrsig, Retry, Fail
<1>20. CASE HandleServfail(t)  BY <1>20 DEF HandleServfail, Return, Fail
<1>21. CASE ProbeLower(t)  BY Zenon, <1>21 DEF ProbeLower
<1>22. CASE Accept(t)  BY <1>22 DEF Accept, Return
<1> QED  BY Zenon, <1>1, <1>2, <1>3, <1>4, <1>5, <1>6, <1>7, <1>8, <1>9, <1>10, <1>11, <1>12,
            <1>13, <1>14, <1>15, <1>16, <1>17, <1>18, <1>19, <1>20, <1>21, <1>22 DEF Step

(* The updates of the locals of exchange_with_features keep their type.    *)
LEMMA TlsTyped ==
    ASSUME NEW e \in Exchanges, NEW m \in {"no", "opportunistic", "yes"}
    PROVE  [e EXCEPT !.tls = m] \in Exchanges
BY DEF Exchanges

LEMMA OverTlsTyped ==
    ASSUME NEW e \in Exchanges, NEW b \in BOOLEAN
    PROVE  [e EXCEPT !.overTls = b] \in Exchanges
BY DEF Exchanges

LEMMA LevelTyped ==
    ASSUME NEW e \in Exchanges, NEW l \in Levels, NEW m \in TransportModes
    PROVE  [e EXCEPT !.level = l, !.transport = m] \in Exchanges
BY Zenon DEF Exchanges

LEMMA ViaTcpTyped ==
    ASSUME NEW e \in Exchanges
    PROVE  [e EXCEPT !.transport = "tcp"] \in Exchanges
BY DEF Exchanges, TransportModes

LEMMA ForcedTyped ==
    ASSUME NEW e \in Exchanges, NEW n \in Nat, NEW l \in Levels
    PROVE  /\ [e EXCEPT !.features = n, !.forced = l] \in Exchanges
           /\ [e EXCEPT !.features = n, !.forced = l, !.probe = TRUE] \in Exchanges
<1>1. [e EXCEPT !.features = n, !.forced = l] \in Exchanges  BY Zenon DEF Exchanges
<1>2. [e EXCEPT !.features = n, !.forced = l, !.probe = TRUE] \in Exchanges  BY Zenon DEF Exchanges
<1> QED  BY Zenon, <1>1, <1>2

LEMMA SwitchTyped ==
    ASSUME NEW e \in Exchanges, NEW n \in Nat
    PROVE  [e EXCEPT !.transports = n] \in Exchanges
BY DEF Exchanges

LEMMA RepeatTyped ==
    ASSUME NEW e \in Exchanges, NEW l \in Levels
    PROVE  /\ [e EXCEPT !.forced = l] \in Exchanges
           /\ [e EXCEPT !.servfail = TRUE, !.forced = l] \in Exchanges
<1>1. [e EXCEPT !.forced = l] \in Exchanges  BY DEF Exchanges
<1>2. [e EXCEPT !.servfail = TRUE, !.forced = l] \in Exchanges  BY Zenon DEF Exchanges
<1> QED  BY Zenon, <1>1, <1>2

(* The locals with which an exchange begins.                               *)
LEMMA BeginsType ==
    ASSUME NEW s \in Servers, NEW m \in DnssecModes
    PROVE  [NoExchange EXCEPT !.server = s, !.dnssec = m] \in Exchanges
BY Zenon, NoExchangeType, ModesAssumption DEF Exchanges

(* The updates of the locals of query_servers keep their type.             *)
LEMMA LastTyped ==
    ASSUME NEW w \in Walks, NEW l \in {"none", "answer", "refused", "error"}
    PROVE  [w EXCEPT !.last = l] \in Walks
BY DEF Walks

LEMMA AdvanceTyped ==
    ASSUME NEW w \in Walks, NEW n \in Nat, NEW a \in SUBSET Servers, NEW d \in SUBSET Servers
    PROVE  [w EXCEPT !.tries = n, !.attempted = a, !.tried = d] \in Walks
BY Zenon DEF Walks

LEMMA OpenTyped ==
    ASSUME NEW b \in BOOLEAN
    PROVE  [NoWalk EXCEPT !.tsig = b] \in Walks
BY DEF Walks, NoWalk

(* The moves of an exchange: how a step changes its program counter and    *)
(* its locals, whichever action takes it. query_servers hands over a       *)
(* server.                                                                 *)
Begins(t) ==
    /\ pc[t] = "next" /\ pc'[t] = "modes"
    /\ \E s \in Servers : ex'[t] = [NoExchange EXCEPT !.server = s, !.dnssec = dnssec[s]]

(* Between two exchanges.                                                  *)
Rests(t) == pc[t] \in {"idle", "next"} /\ pc'[t] \in {"idle", "next"} /\ ex'[t] = ex[t]

(* exchange_with_features returns, with or without a packet.               *)
Leaves(t) == pc[t] \in ExchangeSteps /\ pc'[t] \in {"idle", "next"} /\ ex'[t] = NoExchange

(* The TLS mode is read once.                                              *)
LearnsMode(t) ==
    /\ pc[t] = "modes" /\ pc'[t] = "loop"
    /\ ex'[t] = [ex[t] EXCEPT !.tls = tls[ex[t].server]]

(* TLS or not: in strict mode always TLS.                                  *)
DecidesTls(t) ==
    /\ pc[t] = "loop" /\ pc'[t] = "level"
    /\ \E b \in BOOLEAN : (StrictTls(t) => b) /\ ex'[t] = [ex[t] EXCEPT !.overTls = b]

(* The level of the next attempt: the forced one, else what possible_level *)
(* says.                                                                   *)
ChosenLevel(t) ==
    IF ex[t].forced # NoLevel THEN ex[t].forced
    ELSE possible_level(features[ex[t].server], Best(ex[t].server, ex[t].dnssec)).possible

(* An attempt begins.                                                      *)
Sets(t) ==
    /\ pc[t] = "level"
    /\ \E m \in TransportModes :
          /\ ex'[t] = [ex[t] EXCEPT !.level = ChosenLevel(t), !.transport = m]
          /\ pc'[t] = IF ex[t].overTls THEN "tls" ELSE m

(* On to the next step, the locals as they are.                            *)
Passes(t) ==
    /\ ex'[t] = ex[t]
    /\ \/ pc[t] = "tls" /\ pc'[t] = "loop"
       \/ pc[t] = "udp" /\ pc'[t] \in {"fallback", "packet", "lost"}
       \/ pc[t] = "udp" /\ pc'[t] = "clear" /\ ~Strict(t)
       \/ pc[t] = "fallback" /\ pc'[t] = "blame" /\ ~Strict(t)

(* A packet came over a stream.                                            *)
Receives(t) ==
    /\ pc[t] \in {"tls", "tcp", "fallback"} /\ pc'[t] = "packet"
    /\ ex'[t] = [ex[t] EXCEPT !.transport = "tcp"]

(* A retry at a level not above the one that failed; strict mode has none. *)
Retries(t) ==
    /\ pc[t] \in {"clear", "blame"} \/ (pc[t] = "packet" /\ ~Strict(t))
    /\ pc'[t] = "loop"
    /\ \E l \in Levels :
          /\ l <= ex[t].level
          /\ \/ ex'[t] = [ex[t] EXCEPT !.features = @ + 1, !.forced = l]
             \/ pc[t] = "packet" /\ ex'[t] = [ex[t] EXCEPT !.features = @ + 1, !.forced = l, !.probe = TRUE]

(* A retry over the other transport.                                       *)
Switches(t) ==
    /\ pc[t] \in {"lost", "tcp"} /\ pc'[t] = "loop"
    /\ ex'[t] = [ex[t] EXCEPT !.transports = @ + 1]

(* A retry at the same level, after SERVFAIL.                              *)
Repeats(t) ==
    /\ pc[t] = "packet" /\ pc'[t] = "loop"
    /\ \/ ex'[t] = [ex[t] EXCEPT !.forced = ex[t].level]
       \/ ex'[t] = [ex[t] EXCEPT !.servfail = TRUE, !.forced = ex[t].level]

(* Every step is one of these moves.                                       *)
Moves(t) ==
    \/ Begins(t) \/ Rests(t) \/ Leaves(t) \/ LearnsMode(t) \/ DecidesTls(t) \/ Sets(t)
    \/ Passes(t) \/ Receives(t) \/ Retries(t) \/ Switches(t) \/ Repeats(t)

(* The types of one thread's entries.                                      *)
LEMMA Entry ==
    ASSUME TypeOK, NEW t \in Threads
    PROVE  /\ pc[t] \in Steps /\ ex[t] \in Exchanges /\ walk[t] \in Walks
           /\ budget[t] \in Budgets /\ emitted[t] \in Nat
           /\ pc[t] \in ExchangeSteps => ex[t].server \in Servers
           /\ ex[t].forced \in Levels \cup {NoLevel} /\ ex[t].level \in Levels
           /\ ex[t].features \in Nat /\ ex[t].transports \in Nat
           /\ ex[t].tls \in {"no", "opportunistic", "yes"}
           /\ ex[t].overTls \in BOOLEAN
BY DEF TypeOK, Exchanges, Budgets

(* What Fail, Return and Retry do to the locals of their thread.           *)
LEMMA FailEffect ==
    ASSUME TypeOK, NEW t \in Threads, Fail(t)
    PROVE  ex'[t] = NoExchange /\ pc'[t] = "next" /\ walk'[t] = walk[t]
BY DEF TypeOK, Fail, GoTo

LEMMA ReturnEffect ==
    ASSUME TypeOK, NEW t \in Threads, NEW rcode, Return(t, rcode)
    PROVE  /\ ex'[t] = NoExchange
           /\ \/ pc'[t] = "idle" /\ walk'[t] = [walk[t] EXCEPT !.last = "answer"]
              \/ /\ pc'[t] = IF KeepAsking(t) THEN "next" ELSE "idle"
                 /\ walk'[t] = [walk[t] EXCEPT !.last = "refused"]
BY Zenon DEF TypeOK, Return, GoTo

LEMMA RetryEffect ==
    ASSUME TypeOK, NEW t \in Threads, NEW l, Retry(t, l)
    PROVE  /\ ex'[t] = [ex[t] EXCEPT !.features = @ + 1, !.forced = l]
           /\ pc'[t] = "loop" /\ walk'[t] = walk[t]
BY DEF TypeOK, Retry, GoTo

(* The actions around an exchange and those with one outcome, as moves.    *)
LEMMA ShortStepMoves ==
    ASSUME TypeOK, NEW t \in Threads
    PROVE  /\ StartQuery(t) \/ Conclude(t) => Rests(t)
           /\ NextServer(t) => Begins(t)
           /\ ReadTlsMode(t) => LearnsMode(t)
           /\ CheckTls(t) => DecidesTls(t)
           /\ ExchangeTcp(t) => Receives(t)
           /\ RejectPacket(t) => Leaves(t)
<1> USE DEF TypeOK, GoTo
<1>1. ASSUME StartQuery(t) PROVE Rests(t)  BY <1>1 DEF StartQuery, Rests
<1>2. ASSUME Conclude(t) PROVE Rests(t)  BY <1>2 DEF Conclude, Rests
<1>3. ASSUME NextServer(t) PROVE Begins(t)  BY Zenon, <1>3 DEF NextServer, Begins, Candidates
<1>4. ASSUME ReadTlsMode(t) PROVE LearnsMode(t)  BY <1>4 DEF ReadTlsMode, LearnsMode, Server
<1>5. ASSUME CheckTls(t) PROVE DecidesTls(t)
  <2>1. PICK c : ex' = [ex EXCEPT ![t].overTls = UsesTls(t, c)]
    BY Zenon, <1>5 DEF CheckTls
  <2>2. UsesTls(t, c) \in BOOLEAN /\ (StrictTls(t) => UsesTls(t, c))
    BY DEF UsesTls, StrictTls
  <2> QED  BY Zenon, <1>5, <2>1, <2>2 DEF CheckTls, DecidesTls
<1>6. ASSUME ExchangeTcp(t) PROVE Receives(t)  BY <1>6 DEF ExchangeTcp, Receives
<1>7. ASSUME RejectPacket(t) PROVE Leaves(t)  BY <1>7, FailEffect DEF RejectPacket, Leaves,
                                                 ExchangeSteps
<1> QED  BY Zenon, <1>1, <1>2, <1>3, <1>4, <1>5, <1>6, <1>7

(* The actions that choose a level and send, as moves.                     *)
LEMMA SendStepMoves ==
    ASSUME TypeOK, NEW t \in Threads
    PROVE  /\ ChooseLevel(t) => Sets(t) \/ Leaves(t)
           /\ ExchangeTls(t) => Receives(t) \/ Passes(t) \/ Leaves(t)
           /\ ExchangeUdp(t) => Passes(t) \/ Leaves(t)
           /\ LoseUdp(t) => Passes(t) \/ Leaves(t)
           /\ LoseUdpTransport(t) \/ LoseTcp(t) => Switches(t) \/ Leaves(t)
           /\ LoseFallback(t) => Passes(t) \/ Leaves(t)
<1>0. \A label \in ExchangeSteps : pc[t] = label /\ Fail(t) => Leaves(t)
  BY FailEffect DEF Leaves
<1>1. ASSUME ChooseLevel(t) PROVE Sets(t) \/ Leaves(t)
  <2>1. CASE Fail(t)  BY <1>0, <1>1, <2>1 DEF ChooseLevel, ExchangeSteps
  <2>2. CASE /\ ex' = [ex EXCEPT ![t].level = ChosenLevel(t), ![t].transport = transport[Server(t)].mode]
             /\ GoTo(t, IF ex[t].overTls THEN "tls" ELSE transport[Server(t)].mode)
    <3>1. transport[Server(t)].mode \in TransportModes
      BY <1>1, Entry DEF ChooseLevel, ExchangeSteps, Server, TypeOK, TransportStates
    <3> QED  BY Zenon, <1>1, <2>2, <3>1 DEF ChooseLevel, Sets, TypeOK, GoTo
  <2> QED  BY Zenon, <1>1, <2>1, <2>2 DEF ChooseLevel, ChosenLevel, Server
<1>2. ASSUME ExchangeTls(t) PROVE Receives(t) \/ Passes(t) \/ Leaves(t)
  <2>1. CASE Fail(t)  BY <1>0, <1>2, <2>1 DEF ExchangeTls, ExchangeSteps, SendSteps
  <2>2. CASE ~Fail(t)  BY <1>2, <2>2 DEF ExchangeTls, Receives, Passes, GoTo, TypeOK
  <2> QED  BY Zenon, <2>1, <2>2
<1>3. ASSUME ExchangeUdp(t) PROVE Passes(t) \/ Leaves(t)
  <2>1. CASE Fail(t)  BY <1>0, <1>3, <2>1 DEF ExchangeUdp, ExchangeSteps, SendSteps
  <2>2. CASE ~Fail(t)  BY <1>3, <2>2 DEF ExchangeUdp, Passes, GoTo, TypeOK
  <2> QED  BY Zenon, <2>1, <2>2
<1>4. ASSUME LoseUdp(t) PROVE Passes(t) \/ Leaves(t)
  <2>1. CASE Fail(t)  BY <1>0, <1>4, <2>1 DEF LoseUdp, ExchangeSteps, SendSteps
  <2>2. CASE ~Fail(t)  BY <1>4, <2>2 DEF LoseUdp, Passes, GoTo, TypeOK, Counts
  <2> QED  BY Zenon, <2>1, <2>2
<1>5. ASSUME LoseUdpTransport(t) \/ LoseTcp(t) PROVE Switches(t) \/ Leaves(t)
  <2>0. pc[t] \in {"lost", "tcp"} /\ \E m \in TransportModes : RetryTransport(t, m)
    BY Zenon, <1>5 DEF LoseUdpTransport, LoseTcp, TransportModes
  <2>1. CASE Fail(t)  BY <1>0, <2>0, <2>1 DEF ExchangeSteps, SendSteps
  <2>2. CASE ~Fail(t)
    <3>1. ex' = [ex EXCEPT ![t].transports = @ + 1] /\ GoTo(t, "loop")
      BY Zenon, <2>0, <2>2 DEF RetryTransport
    <3> QED  BY <2>0, <3>1 DEF Switches, GoTo, TypeOK
  <2> QED  BY Zenon, <2>1, <2>2
<1>6. ASSUME LoseFallback(t) PROVE Passes(t) \/ Leaves(t)
  <2>1. CASE Fail(t)  BY <1>0, <1>6, <2>1 DEF LoseFallback, ExchangeSteps, SendSteps
  <2>2. CASE ~Fail(t)  BY <1>6, <2>2 DEF LoseFallback, Passes, GoTo, TypeOK
  <2> QED  BY Zenon, <2>1, <2>2
<1> QED  BY Zenon, <1>1, <1>2, <1>3, <1>4, <1>5, <1>6

(* The actions that look at a packet or retry, as moves.                   *)
LEMMA PacketStepMoves ==
    ASSUME TypeOK, NEW t \in Threads
    PROVE  /\ ClearFailures(t) \/ BlameLevel(t) \/ ProbeLower(t) => Retries(t)
           /\ RecordBadOpt(t) \/ RecordDoOff(t) \/ RecordMissingRootRrsig(t) => Retries(t) \/ Leaves(t)
           /\ HandleServfail(t) => Repeats(t) \/ Leaves(t)
           /\ Accept(t) => Leaves(t)
<1>0. ASSUME pc[t] = "packet", Fail(t) \/ \E rcode : Return(t, rcode)  PROVE Leaves(t)
  BY Zenon, <1>0, FailEffect, ReturnEffect DEF Leaves, ExchangeSteps
<1>l. ex[t].level \in Levels /\ Lower(ex[t].level) \in Levels /\ Lower(ex[t].level) <= ex[t].level
  BY Entry, LowerFacts
<1>1. ASSUME ClearFailures(t) PROVE Retries(t)
  BY Zenon, <1>1, <1>l, RetryEffect DEF ClearFailures, Retries
<1>2. ASSUME BlameLevel(t) PROVE Retries(t)
  BY Zenon, <1>2, <1>l, RetryEffect DEF BlameLevel, Retries
<1>3. ASSUME ProbeLower(t) PROVE Retries(t)
  BY Zenon, <1>3, <1>l DEF ProbeLower, Retries, Suspicious, GoTo, TypeOK
<1>4. ASSUME RecordBadOpt(t) PROVE Retries(t) \/ Leaves(t)
  <2> DEFINE l == record_bad_opt(features[Server(t)], ex[t].level).possible
  <2>1. pc[t] = "packet" /\ ~Strict(t) /\ (Retry(t, l) \/ \E rcode : Return(t, rcode)) /\ ex[t].level > Udp
    BY Zenon, <1>4 DEF RecordBadOpt, Relearn, BadOpt, SentEdns
  <2>2. features[Server(t)] \in FeatureStates
    BY <2>1, Entry DEF TypeOK, Server, ExchangeSteps
  <2>3. l \in Levels /\ l <= ex[t].level
    BY <1>l, <2>1, <2>2, BadOptFacts DEF Levels, Udp, Edns0, DnssecOk
  <2> QED  BY Zenon, <1>0, <2>1, <2>3, RetryEffect DEF Retries
<1>5. ASSUME RecordDoOff(t) PROVE Retries(t) \/ Leaves(t)
  <2> DEFINE l == record_do_off(features[Server(t)], ex[t].level).possible
  <2>1. pc[t] = "packet" /\ ~Strict(t) /\ (Retry(t, l) \/ \E rcode : Return(t, rcode)) /\ ex[t].level = DnssecOk
    BY Zenon, <1>5 DEF RecordDoOff, Relearn, DoOff
  <2>2. features[Server(t)] \in FeatureStates
    BY <2>1, Entry DEF TypeOK, Server, ExchangeSteps
  <2>3. l \in Levels /\ l <= ex[t].level
    BY <1>l, <2>1, <2>2, DoOffFacts DEF Levels, Udp, Edns0, DnssecOk
  <2> QED  BY Zenon, <1>0, <2>1, <2>3, RetryEffect DEF Retries
<1>6. ASSUME RecordMissingRootRrsig(t) PROVE Retries(t) \/ Leaves(t)
  <2>1. pc[t] = "packet" /\ ex[t].level = DnssecOk /\ ((~Strict(t) /\ Retry(t, Edns0)) \/ Fail(t))
    BY <1>6 DEF RecordMissingRootRrsig
  <2>2. Edns0 \in Levels /\ Edns0 <= DnssecOk  BY DEF Levels, Edns0, DnssecOk
  <2> QED  BY Zenon, <1>0, <2>1, <2>2, RetryEffect DEF Retries
<1>7. ASSUME HandleServfail(t) PROVE Repeats(t) \/ Leaves(t)
  <2>1. CASE Fail(t) \/ \E rcode : Return(t, rcode)  BY <1>0, <1>7, <2>1 DEF HandleServfail
  <2>2. CASE /\ \/ ex' = [ex EXCEPT ![t].forced = ex[t].level]
                \/ ex' = [ex EXCEPT ![t].servfail = TRUE, ![t].forced = ex[t].level]
             /\ GoTo(t, "loop")
    BY Zenon, <1>7, <2>2 DEF HandleServfail, Repeats, GoTo, TypeOK
  <2> QED  BY Zenon, <1>7, <2>1, <2>2 DEF HandleServfail
<1>8. ASSUME Accept(t) PROVE Leaves(t)
  BY Zenon, <1>0, <1>8 DEF Accept
<1> QED  BY Zenon, <1>1, <1>2, <1>3, <1>4, <1>5, <1>6, <1>7, <1>8

(* Every action of a thread is a move.                                     *)
LEMMA StepMoves ==
    ASSUME TypeOK, NEW t \in Threads, StartQuery(t) \/ Step(t)
    PROVE  Moves(t)
BY Zenon, ShortStepMoves, SendStepMoves, PacketStepMoves DEF Step, Moves

-----------------------------------------------------------------------------
(* What an operation may do to the state of a server: Lowers gives it a    *)
(* date whenever the level falls, and a bad OPT record means plain UDP;    *)
(* Keeps leaves what decides the level.                                    *)
Lowers(f, g) ==
    /\ g \in FeatureStates
    /\ \/ g.possible < f.possible /\ g.retry = "ahead"
       \/ g.possible = f.possible /\ g.retry = f.retry
    /\ g.badOpt => f.badOpt \/ g.possible = Udp

Keeps(f, g) ==
    /\ g \in FeatureStates
    /\ g.possible = f.possible /\ g.retry = f.retry /\ g.badOpt = f.badOpt

(* downgrade_to, record_failure, record_bad_opt and record_do_off only     *)
(* lower.                                                                  *)
LEMMA DowngradeLowers ==
    ASSUME NEW f \in FeatureStates, NEW l \in Levels
    PROVE  Lowers(f, downgrade_to(f, l))
<1>1. f.possible \in Levels  BY DEF FeatureStates
<1> QED  BY <1>1, DowngradeFacts DEF Lowers, Levels, Udp, Edns0, DnssecOk

(* Lowers absorbs Keeps on either side.                                    *)
LEMMA KeepsLowers ==
    ASSUME NEW f \in FeatureStates, NEW g, NEW h, Keeps(f, g), Lowers(g, h)
    PROVE  Lowers(f, h)
BY DEF Keeps, Lowers

LEMMA LowersKeeps ==
    ASSUME NEW f \in FeatureStates, NEW g, NEW h, Lowers(f, g), Keeps(g, h)
    PROVE  Lowers(f, h)
BY DEF Keeps, Lowers

(* record_failure counts, then lowers.                                     *)
LEMMA FailedLowers ==
    ASSUME NEW f \in FeatureStates, NEW l \in Levels
    PROVE  Lowers(f, FeatureFailed(f, l))
<1> DEFINE g == [f EXCEPT !.failed = Bump(@, FeatureRetryAttempts)]
<1>1. Keeps(f, g) /\ g \in FeatureStates
  BY LimitsAssumption DEF FeatureStates, Bump, Keeps
<1>2. Keeps(f, f)  BY DEF Keeps
<1>3. \A h : Keeps(f, h) => Lowers(f, h)
  BY DEF Keeps, Lowers
<1>4. FeatureFailed(f, l) \in {f, g, downgrade_to(g, Lower(l))}
  BY DEF FeatureFailed
<1>5. Lowers(g, downgrade_to(g, Lower(l)))
  <2> HIDE DEF g
  <2> QED  BY <1>1, DowngradeLowers, LowerFacts
<1> HIDE DEF g
<1> QED  BY <1>1, <1>2, <1>3, <1>4, <1>5, KeepsLowers

(* A bad OPT record is remembered only together with the lowest level.     *)
LEMMA BadOptLowers ==
    ASSUME NEW f \in FeatureStates, NEW l \in Levels
    PROVE  Lowers(f, record_bad_opt(f, l))
<1> DEFINE g == [f EXCEPT !.badOpt = TRUE]
<1>1. g \in FeatureStates /\ g.possible = f.possible /\ f.possible \in Levels /\ g.retry = f.retry
  BY Zenon DEF FeatureStates
<1>2. Udp \in Levels /\ \A p \in Levels : Udp >= p <=> p = Udp
  BY DEF Levels, Udp, Edns0, DnssecOk
<1>3. /\ downgrade_to(g, Udp) \in FeatureStates /\ downgrade_to(g, Udp).possible = Udp
      /\ downgrade_to(g, Udp).retry = IF f.possible = Udp THEN f.retry ELSE "ahead"
  <2> HIDE DEF g
  <2> QED  BY Zenon, <1>1, <1>2, DowngradeFacts
<1>4. Lowers(f, downgrade_to(g, Udp))
  <2> HIDE DEF g
  <2> QED  BY <1>1, <1>3 DEF Lowers, Levels, Udp, Edns0, DnssecOk
<1>5. Lowers(f, f)  BY DEF Lowers
<1> QED  BY Zenon, <1>4, <1>5 DEF record_bad_opt

(* record_do_off lowers.                                                   *)
LEMMA DoOffLowers ==
    ASSUME NEW f \in FeatureStates, NEW l \in Levels
    PROVE  Lowers(f, record_do_off(f, l))
<1>1. Lowers(f, f)  BY DEF Lowers
<1>2. Edns0 \in Levels  BY DEF Levels
<1> QED  BY Zenon, <1>1, <1>2, DowngradeLowers DEF record_do_off

(* record_success resets a count and nothing else.                         *)
LEMMA SucceededKeeps ==
    ASSUME NEW f \in FeatureStates, NEW l \in Levels
    PROVE  Keeps(f, FeatureSucceeded(f, l))
BY DEF FeatureSucceeded, FeatureStates, Keeps

(* possible_level either starts again at the best level, or keeps the date *)
(* and says what it said before, capped by the best level.                 *)
LEMMA PossibleLevel ==
    ASSUME NEW f \in FeatureStates, NEW best \in Levels
    PROVE  LET g == possible_level(f, best)
           IN  /\ g \in FeatureStates
               /\ \/ g.possible = best /\ ~g.badOpt
                  \/ /\ g.retry = f.retry /\ g.badOpt = f.badOpt
                     /\ g.possible <= best
                     /\ g.possible < best => f.badOpt \/ g.possible = f.possible
<1> DEFINE opted == IF f.badOpt THEN Udp ELSE f.possible
           capped == IF opted > best THEN best ELSE opted
<1>1. f.possible \in Levels /\ Udp \in Levels  BY DEF FeatureStates, Levels
<1>2. capped \in Levels /\ capped <= best /\ (capped < best => f.badOpt \/ capped = f.possible)
  BY <1>1 DEF Levels, Udp, Edns0, DnssecOk
<1>3. CASE capped < best /\ f.retry = "due"
  <2>1. possible_level(f, best) = [possible |-> best, failed |-> 0, retry |-> "never", badOpt |-> FALSE]
    BY Zenon, <1>3 DEF possible_level
  <2> QED  BY <2>1 DEF FeatureStates, Dates
<1>4. CASE ~(capped < best /\ f.retry = "due")
  <2>1. possible_level(f, best) = [f EXCEPT !.possible = capped]
    BY Zenon, <1>4 DEF possible_level
  <2> HIDE DEF capped
  <2>2. /\ [f EXCEPT !.possible = capped] \in FeatureStates
        /\ [f EXCEPT !.possible = capped].possible = capped
        /\ [f EXCEPT !.possible = capped].retry = f.retry
        /\ [f EXCEPT !.possible = capped].badOpt = f.badOpt
    BY <1>2 DEF FeatureStates
  <2> QED  BY Zenon, <1>2, <2>1, <2>2
<1> QED  BY Zenon, <1>3, <1>4

(* What a step of t does to the state of servers: nothing, or one change   *)
(* to the server it asks. Only possible_level can raise a level.           *)
FeatureMoves(t) ==
    \/ features' = features
    \/ /\ pc[t] \in ExchangeSteps
       /\ \E g :
             /\ features' = [features EXCEPT ![Server(t)] = g]
             /\ \/ /\ pc[t] = "level"
                   /\ g = possible_level(features[Server(t)], Best(Server(t), ex[t].dnssec))
                \/ /\ ~Strict(t) \/ pc[t] = "blame" \/ ex[t].probe
                   /\ Lowers(features[Server(t)], g)
                \/ Keeps(features[Server(t)], g)

(* The same for the transport.                                             *)
TransportMoves(t) ==
    \/ transport' = transport
    \/ /\ pc[t] \in ExchangeSteps
       /\ \E m \in TransportModes :
             \/ transport' = [transport EXCEPT ![Server(t)] = TransportFailed(@, m)]
             \/ transport' = [transport EXCEPT ![Server(t)] = TransportSucceeded(@, m)]
             \/ transport' = [transport EXCEPT ![Server(t)] = clear_failures(@)]

(* Every action of a thread changes the transport in one of these ways.    *)
LEMMA StepTransport ==
    ASSUME NEW t \in Threads, StartQuery(t) \/ Step(t)
    PROVE  TransportMoves(t)
<1> USE DEF TransportMoves, TransportModes, ExchangeSteps, SendSteps, sharedVars
<1>1. CASE StartQuery(t) \/ NextServer(t) \/ Conclude(t) \/ ReadTlsMode(t) \/ CheckTls(t)
           \/ ChooseLevel(t) \/ ExchangeTls(t)
  BY Zenon, <1>1 DEF StartQuery, NextServer, Conclude, ReadTlsMode, CheckTls, ChooseLevel,
     ExchangeTls
<1>2. CASE ExchangeUdp(t) \/ LoseUdp(t) \/ ClearFailures(t) \/ ExchangeTcp(t)
  BY <1>2 DEF ExchangeUdp, LoseUdp, ClearFailures, ExchangeTcp
<1>3. CASE LoseUdpTransport(t) \/ LoseTcp(t) \/ LoseFallback(t) \/ BlameLevel(t)
  BY <1>3 DEF LoseUdpTransport, LoseTcp, LoseFallback, RetryTransport, BlameLevel
<1>4. CASE RejectPacket(t) \/ RecordBadOpt(t) \/ RecordDoOff(t) \/ RecordMissingRootRrsig(t)
  BY <1>4 DEF RejectPacket, RecordBadOpt, RecordDoOff, Relearn, RecordMissingRootRrsig
<1>5. CASE HandleServfail(t) \/ ProbeLower(t) \/ Accept(t)
  BY <1>5 DEF HandleServfail, ProbeLower, Accept
<1> QED  BY Zenon, <1>1, <1>2, <1>3, <1>4, <1>5 DEF Step

(* The types of what is known of the server that t asks.                   *)
LEMMA ServerEntry ==
    ASSUME TypeOK, NEW t \in Threads, pc[t] \in ExchangeSteps
    PROVE  /\ Server(t) \in Servers
           /\ features[Server(t)] \in FeatureStates /\ transport[Server(t)] \in TransportStates
           /\ capability[Server(t)] \in Capabilities
           /\ Best(Server(t), ex[t].dnssec) \in Levels
<1>1. Server(t) \in Servers  BY DEF TypeOK, Server
<1>2. Best(Server(t), ex[t].dnssec) \in Levels
  BY DEF Best, Preferred, Levels
<1> QED  BY <1>1, <1>2 DEF TypeOK

(* Every action of a thread changes the feature state in one of these      *)
(* ways.                                                                   *)
LEMMA StepFeatures ==
    ASSUME TypeOK, NEW t \in Threads, StartQuery(t) \/ Step(t)
    PROVE  FeatureMoves(t)
<1> USE DEF FeatureMoves, ExchangeSteps, SendSteps, sharedVars
<1>1. CASE StartQuery(t) \/ NextServer(t) \/ Conclude(t) \/ ReadTlsMode(t) \/ CheckTls(t)
           \/ ExchangeTls(t) \/ ExchangeUdp(t)
  BY Zenon, <1>1 DEF StartQuery, NextServer, Conclude, ReadTlsMode, CheckTls, ExchangeTls,
     ExchangeUdp
<1>2. CASE ClearFailures(t) \/ LoseUdpTransport(t) \/ ExchangeTcp(t) \/ LoseTcp(t) \/ LoseFallback(t)
           \/ RejectPacket(t) \/ HandleServfail(t) \/ ProbeLower(t)
  BY <1>2 DEF ClearFailures, LoseUdpTransport, ExchangeTcp, LoseTcp, LoseFallback, RejectPacket,
     HandleServfail, ProbeLower
<1>3. CASE ChooseLevel(t)
  BY Zenon, <1>3 DEF ChooseLevel
<1>4. CASE LoseUdp(t)
  <2>1. Lowers(features[Server(t)], FeatureFailed(features[Server(t)], ex[t].level))
    BY <1>4, ServerEntry, Entry, FailedLowers DEF LoseUdp
  <2> QED  BY <1>4, <2>1 DEF LoseUdp, Counts
<1>5. CASE BlameLevel(t)
  <2>1. Lowers(features[Server(t)], downgrade_to(features[Server(t)], Lower(ex[t].level)))
    BY <1>5, ServerEntry, Entry, DowngradeLowers, LowerFacts DEF BlameLevel
  <2> QED  BY Zenon, <1>5, <2>1 DEF BlameLevel
<1>6. CASE RecordBadOpt(t)
  <2>1. Lowers(features[Server(t)], record_bad_opt(features[Server(t)], ex[t].level))
    BY <1>6, ServerEntry, Entry, BadOptLowers DEF RecordBadOpt
  <2> QED  BY Zenon, <1>6, <2>1 DEF RecordBadOpt, Relearn
<1>7. CASE RecordDoOff(t)
  <2>1. Lowers(features[Server(t)], record_do_off(features[Server(t)], ex[t].level))
    BY <1>7, ServerEntry, Entry, DoOffLowers DEF RecordDoOff
  <2> QED  BY Zenon, <1>7, <2>1 DEF RecordDoOff, Relearn
<1>8. CASE RecordMissingRootRrsig(t)
  <2>1. Lowers(features[Server(t)], downgrade_to(features[Server(t)], Edns0))
    BY <1>8, ServerEntry, DowngradeLowers DEF RecordMissingRootRrsig, Levels
  <2> QED  BY <1>8, <2>1 DEF RecordMissingRootRrsig
<1>9. CASE Accept(t)
  <2> DEFINE f == features[Server(t)]
             d == downgrade_to(f, ex[t].level)
  <2>0. pc[t] = "packet"  BY <1>9 DEF Accept
  <2>1. f \in FeatureStates /\ ex[t].level \in Levels /\ Udp \in Levels
    BY <2>0, ServerEntry, Entry DEF Levels
  <2>2. d \in FeatureStates /\ Lowers(f, d)
    BY <2>1, DowngradeFacts, DowngradeLowers
  <2>3. \A l \in Levels : Keeps(f, FeatureSucceeded(f, l)) /\ Keeps(d, FeatureSucceeded(d, l))
    BY <2>1, <2>2, SucceededKeeps
  <2>4. \A l \in Levels : Lowers(f, FeatureSucceeded(d, l))
    BY <2>1, <2>2, <2>3, LowersKeeps
  <2>5. PICK l \in Levels : \/ features' = features
                           \/ features' = [features EXCEPT ![Server(t)] = FeatureSucceeded(f, l)]
                           \/ /\ ex[t].probe
                              /\ features' = [features EXCEPT ![Server(t)] = FeatureSucceeded(d, l)]
    BY <1>9, <2>1 DEF Accept
  <2> HIDE DEF f, d
  <2> QED  BY <2>0, <2>3, <2>4, <2>5 DEF f
<1> QED  BY Zenon, <1>1, <1>2, <1>3, <1>4, <1>5, <1>6, <1>7, <1>8, <1>9 DEF Step

(* How a step spends the budget and the queries it sends: a new            *)
(* query_servers, a new attempt, queries of the current attempt, or        *)
(* nothing.                                                                *)
Starts(t) ==
    /\ pc[t] = "idle" /\ pc'[t] = "next"
    /\ budget'[t] = [attempts |-> 0, expired |-> FALSE] /\ emitted'[t] = 0
Attempts(t) ==
    /\ pc[t] = "level" /\ pc'[t] \in {"tls", "udp", "tcp"}
    /\ budget[t].attempts < AttemptsMax
    /\ budget'[t] = [budget[t] EXCEPT !.attempts = @ + 1] /\ emitted'[t] = emitted[t]

(* Time may run out; no attempt is counted.                                *)
SameAttempts(t) ==
    budget'[t] = budget[t] \/ budget'[t] = [budget[t] EXCEPT !.expired = TRUE]
SendsSome(t) ==
    /\ pc[t] \in SendSteps /\ pc'[t] \in Steps \ {"tls", "udp", "tcp"}
    /\ SameAttempts(t)
    /\ \E n \in 0 .. 2 :
          /\ emitted'[t] = emitted[t] + n
          /\ pc'[t] = "fallback" => pc[t] = "udp" /\ n <= 1
Quiet(t) ==
    /\ pc[t] \notin SendSteps /\ pc'[t] \in Steps \ SendSteps
    /\ SameAttempts(t) /\ emitted'[t] = emitted[t]
BudgetMoves(t) == Starts(t) \/ Attempts(t) \/ SendsSome(t) \/ Quiet(t)

(* Every action of a thread spends in one of these ways.                   *)
LEMMA StepBudget ==
    ASSUME TypeOK, NEW t \in Threads, StartQuery(t) \/ Step(t)
    PROVE  BudgetMoves(t)
<1>0. Moves(t)  BY Zenon, StepMoves
<1> USE DEF BudgetMoves, SameAttempts
<1>s. SendSteps = {"tls", "udp", "tcp", "fallback"} /\ SendSteps \subseteq Steps
  BY DEF SendSteps, Steps, ExchangeSteps
<1>e. "idle" \in Steps \ SendSteps /\ "next" \in Steps \ SendSteps /\ "loop" \in Steps \ SendSteps
      /\ "modes" \in Steps \ SendSteps /\ "level" \in Steps \ SendSteps
  BY DEF SendSteps, Steps, ExchangeSteps
<1>1. CASE StartQuery(t)
  BY <1>1 DEF StartQuery, Starts, TypeOK, GoTo
<1>2. CASE NextServer(t)
  BY <1>2, <1>e DEF NextServer, Quiet, TypeOK, GoTo
<1>3. CASE Conclude(t)
  BY Zenon, <1>3, <1>e DEF Conclude, DeadlinePassed, Quiet, TypeOK, GoTo
<1>4. CASE ReadTlsMode(t) \/ CheckTls(t)
  BY <1>4, <1>e DEF ReadTlsMode, CheckTls, Quiet, TypeOK, GoTo
<1>5. CASE ChooseLevel(t)
  <2>1. pc[t] = "level" /\ emitted'[t] = emitted[t]
    BY Zenon, <1>5 DEF ChooseLevel
  <2>2. CASE Fail(t) /\ (DeadlinePassed(t) \/ UNCHANGED budget)
    BY Zenon, <1>e, <2>1, <2>2, FailEffect DEF DeadlinePassed, Quiet, TypeOK
  <2>3. CASE begin_attempt(t) /\ GoTo(t, IF ex[t].overTls THEN "tls" ELSE transport[Server(t)].mode)
    <3>1. transport[Server(t)].mode \in {"udp", "tcp"}
      BY <2>1, ServerEntry DEF ExchangeSteps, TransportStates, TransportModes
    <3>2. pc'[t] \in {"tls", "udp", "tcp"}
      BY <2>3, <3>1 DEF GoTo, TypeOK
    <3>3. budget[t].attempts < AttemptsMax
      BY <2>3, LimitsAssumption, Entry DEF begin_attempt, exhausted, Budgets
    <3>4. budget'[t] = [budget[t] EXCEPT !.attempts = @ + 1]
      BY <2>3 DEF begin_attempt, TypeOK
    <3> QED  BY Zenon, <2>1, <3>2, <3>3, <3>4 DEF Attempts
  <2> QED  BY Zenon, <1>5, <2>2, <2>3 DEF ChooseLevel
<1>p. "packet" \in Steps \ SendSteps /\ "clear" \in Steps \ SendSteps /\ "lost" \in Steps \ SendSteps
      /\ "blame" \in Steps \ SendSteps
  BY DEF SendSteps, Steps, ExchangeSteps
<1>m. \A label \in Steps \ SendSteps : label \in Steps \ {"tls", "udp", "tcp"} /\ label # "fallback"
  BY <1>s
<1>n. Sends = 1 .. 2 /\ \A n \in Sends \cup {0} : n \in 0 .. 2
  BY DEF Sends
<1>6. CASE ExchangeTls(t)
  <2>1. pc[t] \in SendSteps /\ budget'[t] = budget[t]
    BY <1>6, <1>s DEF ExchangeTls
  <2>2. PICK n \in 0 .. 2 : emitted'[t] = emitted[t] + n
    BY <1>6, <1>n DEF ExchangeTls, Emit, TypeOK
  <2>3. pc'[t] \in {"next", "loop", "packet"}
    BY <1>6 DEF ExchangeTls, Fail, GoTo, TypeOK
  <2> QED  BY <1>e, <1>p, <1>m, <2>1, <2>2, <2>3 DEF SendsSome
<1>7. CASE ExchangeUdp(t)
  <2>1. pc[t] \in SendSteps /\ SameAttempts(t)
    BY Zenon, <1>7, <1>s DEF ExchangeUdp, DeadlinePassed, TypeOK
  <2>2. emitted'[t] = emitted[t] + 1
    BY <1>7 DEF ExchangeUdp, Emit, TypeOK
  <2>3. pc'[t] \in {"next", "packet", "fallback"}
    BY <1>7 DEF ExchangeUdp, Fail, GoTo, TypeOK
  <2>4. pc'[t] \in Steps \ {"tls", "udp", "tcp"}
    BY <1>s, <1>e, <1>p, <1>m, <2>3
  <2> QED  BY <1>7, <2>1, <2>2, <2>4 DEF SendsSome, ExchangeUdp
<1>8. CASE LoseUdp(t) \/ ExchangeTcp(t) \/ LoseTcp(t) \/ LoseFallback(t)
  <2>1. pc[t] \in SendSteps /\ budget'[t] = budget[t]
    BY <1>8, <1>s DEF LoseUdp, ExchangeTcp, LoseTcp, LoseFallback
  <2>2. PICK n \in 0 .. 2 : emitted'[t] = emitted[t] + n
    BY <1>8, <1>n DEF LoseUdp, ExchangeTcp, LoseTcp, LoseFallback, Emit, TypeOK
  <2>3. pc'[t] \in {"next", "loop", "packet", "clear", "lost", "blame"}
    BY <1>8 DEF LoseUdp, ExchangeTcp, LoseTcp, LoseFallback, RetryTransport, Fail, GoTo, TypeOK
  <2> QED  BY <1>e, <1>p, <1>m, <2>1, <2>2, <2>3 DEF SendsSome
<1>9. CASE ClearFailures(t) \/ LoseUdpTransport(t) \/ BlameLevel(t) \/ RejectPacket(t) \/ RecordBadOpt(t)
            \/ RecordDoOff(t) \/ RecordMissingRootRrsig(t) \/ HandleServfail(t) \/ ProbeLower(t) \/ Accept(t)
  <2>1. pc[t] \in {"clear", "lost", "blame", "packet"} /\ UNCHANGED <<budget, emitted>>
    BY <1>9 DEF ClearFailures, LoseUdpTransport, BlameLevel, RejectPacket, RecordBadOpt,
       RecordDoOff, Relearn,
                 RecordMissingRootRrsig, HandleServfail, ProbeLower, Accept
  <2>2. pc'[t] \in {"idle", "next", "loop"}
    BY Zenon, <1>0, <2>1 DEF Moves, Begins, Rests, Leaves, LearnsMode, DecidesTls, Sets, Passes,
       Receives, Retries,
                      Switches, Repeats
  <2> QED  BY <1>s, <1>e, <2>1, <2>2 DEF Quiet
<1> QED  BY Zenon, <1>1, <1>2, <1>3, <1>4, <1>5, <1>6, <1>7, <1>8, <1>9 DEF Step

(* How a step changes the locals of query_servers.                         *)
Opens(t) ==
    /\ pc[t] = "idle" /\ pc'[t] = "next"
    /\ \E b \in BOOLEAN : walk'[t] = [NoWalk EXCEPT !.tsig = b]
Advances(t) ==
    /\ pc[t] = "next" /\ pc'[t] = "modes" /\ walk[t].tries < ConfigAttempts
    /\ \E s \in Servers :
          walk'[t] = [walk[t] EXCEPT !.tries = @ + 1,
                                     !.attempted = (IF @ = Servers THEN {} ELSE @) \cup {s},
                                     !.tried = @ \cup {s}]
Closes(t) ==
    /\ pc[t] = "next" /\ pc'[t] = "idle"
    /\ \/ budget'[t].expired
       \/ budget'[t] = budget[t] /\ (walk[t].tries = ConfigAttempts \/ exhausted(t))
    /\ \E l \in {"refused", "error"} : walk'[t] = [walk[t] EXCEPT !.last = l]
Concludes(t) ==
    \/ pc'[t] = "idle" /\ walk'[t] = [walk[t] EXCEPT !.last = "answer"]
    \/ /\ pc'[t] = IF KeepAsking(t) THEN "next" ELSE "idle"
       /\ walk'[t] = [walk[t] EXCEPT !.last = "refused"]
Continues(t) == pc'[t] # "idle" /\ walk'[t] = walk[t]
WalkMoves(t) == Opens(t) \/ Advances(t) \/ Closes(t) \/ Concludes(t) \/ Continues(t)

(* Every action of a thread changes them in one of these ways.             *)
LEMMA StepWalk ==
    ASSUME TypeOK, NEW t \in Threads, StartQuery(t) \/ Step(t)
    PROVE  WalkMoves(t)
<1> USE DEF WalkMoves
<1>f. Fail(t) => Continues(t)
  BY FailEffect DEF Continues
<1>r. ASSUME NEW rcode, Return(t, rcode)  PROVE Concludes(t)
  BY Zenon, <1>r, ReturnEffect DEF Concludes
<1>g. \A l : Retry(t, l) => Continues(t)
  BY Zenon, RetryEffect DEF Continues
<1>l. ASSUME NEW label \in Steps \ {"idle"}, GoTo(t, label), UNCHANGED walk  PROVE Continues(t)
  BY <1>l DEF GoTo, Continues, TypeOK
<1>a. \A label \in ExchangeSteps : label \in Steps \ {"idle"}
  BY DEF ExchangeSteps, SendSteps, Steps
<1>b. {"modes", "loop", "level",
       "clear", "lost", "blame", "packet", "tls", "udp", "tcp", "fallback"} \subseteq ExchangeSteps
  BY DEF ExchangeSteps, SendSteps
<1>1. CASE StartQuery(t)
  BY <1>1, ModesAssumption DEF StartQuery, Opens, GoTo, TypeOK
<1>2. CASE NextServer(t)
  BY Zenon, <1>2 DEF NextServer, Candidates, Advances, GoTo, TypeOK
<1>3. CASE Conclude(t)
  <2>1. pc[t] = "next" /\ pc'[t] = "idle" /\ \E l \in {"refused", "error"} : walk'[t] = [walk[t] EXCEPT !.last = l]
    BY <1>3 DEF Conclude, GoTo, TypeOK
  <2>2. \/ budget'[t].expired
        \/ budget'[t] = budget[t] /\ (walk[t].tries = ConfigAttempts \/ exhausted(t))
    BY <1>3 DEF Conclude, DeadlinePassed, TypeOK
  <2> QED  BY Zenon, <2>1, <2>2 DEF Closes
<1>4. CASE ReadTlsMode(t) \/ CheckTls(t)
  BY <1>a, <1>b, <1>l, <1>4 DEF ReadTlsMode, CheckTls
<1>5. CASE ChooseLevel(t)
  <2>1. CASE Fail(t)  BY <1>f, <2>1
  <2>2. CASE ~Fail(t)
    <3>1. GoTo(t, IF ex[t].overTls THEN "tls" ELSE transport[Server(t)].mode) /\ UNCHANGED walk
      BY Zenon, <1>5, <2>2 DEF ChooseLevel
    <3>2. transport[Server(t)].mode \in {"udp", "tcp"}
      BY <1>5, ServerEntry DEF ChooseLevel, ExchangeSteps, TransportStates, TransportModes
    <3> QED  BY <1>a, <1>b, <1>l, <3>1, <3>2
  <2> QED  BY <2>1, <2>2
<1>6. CASE ExchangeTls(t) \/ ExchangeUdp(t) \/ LoseUdp(t) \/ LoseFallback(t)
  <2>1. CASE Fail(t)  BY <1>f, <2>1
  <2>2. CASE ~Fail(t)
    BY <1>a, <1>b, <1>l, <1>6, <2>2 DEF ExchangeTls, ExchangeUdp, LoseUdp, LoseFallback
  <2> QED  BY <2>1, <2>2
<1>7. CASE ClearFailures(t) \/ BlameLevel(t)
  BY Zenon, <1>7, <1>g DEF ClearFailures, BlameLevel
<1>8. CASE LoseUdpTransport(t) \/ LoseTcp(t)
  <2>1. \E m : RetryTransport(t, m)
    BY Zenon, <1>8 DEF LoseUdpTransport, LoseTcp
  <2> QED  BY <1>a, <1>b, <1>f, <1>l, <2>1 DEF RetryTransport
<1>9. CASE ExchangeTcp(t) \/ ProbeLower(t)
  BY <1>a, <1>b, <1>l, <1>9 DEF ExchangeTcp, ProbeLower
<1>10. CASE RejectPacket(t) \/ RecordMissingRootRrsig(t)
  BY Zenon, <1>f, <1>g, <1>10 DEF RejectPacket, RecordMissingRootRrsig
<1>11. CASE RecordBadOpt(t) \/ RecordDoOff(t)
  BY Zenon, <1>r, <1>g, <1>11 DEF RecordBadOpt, RecordDoOff, Relearn
<1>12. CASE HandleServfail(t)
  BY <1>a, <1>b, <1>f, <1>r, <1>l, <1>12 DEF HandleServfail
<1>13. CASE Accept(t)
  BY Zenon, <1>r, <1>13 DEF Accept
<1> QED  BY Zenon, <1>1, <1>2, <1>3, <1>4, <1>5, <1>6, <1>7, <1>8, <1>9, <1>10, <1>11, <1>12,
            <1>13 DEF Step

(* A move keeps the type of the locals, and a server to ask.               *)
LEMMA ExchangeTyped ==
    ASSUME TypeOK, NEW t \in Threads, Moves(t)
    PROVE  /\ pc'[t] \in Steps /\ ex'[t] \in Exchanges
           /\ pc'[t] \in ExchangeSteps => ex'[t].server \in Servers
<1>0. /\ pc[t] \in Steps /\ ex[t] \in Exchanges /\ ex[t].level \in Levels
      /\ ex[t].features + 1 \in Nat /\ ex[t].transports + 1 \in Nat
      /\ pc[t] \in ExchangeSteps => ex[t].server \in Servers
  BY Entry
<1>s. /\ {"idle", "next"} \subseteq Steps /\ ExchangeSteps \subseteq Steps
      /\ {"modes", "loop", "level",
          "clear", "lost", "blame", "packet", "tls", "udp", "tcp", "fallback"} \subseteq ExchangeSteps
      /\ {"idle", "next"} \cap ExchangeSteps = {}
  BY DEF Steps, ExchangeSteps, SendSteps
<1>1. CASE Begins(t)
  <2>1. PICK s \in Servers : ex'[t] = [NoExchange EXCEPT !.server = s, !.dnssec = dnssec[s]]
    BY Zenon, <1>1 DEF Begins
  <2>2. dnssec[s] \in DnssecModes  BY DEF TypeOK
  <2>3. ex'[t].server = s  BY <2>1 DEF NoExchange
  <2>4. ex'[t] \in Exchanges  BY Zenon, <2>1, <2>2, BeginsType
  <2>5. pc'[t] \in Steps  BY <1>1, <1>s DEF Begins
  <2> QED  BY Zenon, <2>3, <2>4, <2>5
<1>2. CASE Rests(t) \/ Leaves(t)
  BY <1>0, <1>2, <1>s, NoExchangeType DEF Rests, Leaves
<1>k. ASSUME ex'[t] \in Exchanges, ex'[t].server = ex[t].server, pc[t] \in ExchangeSteps, pc'[t] \in ExchangeSteps
      PROVE  /\ pc'[t] \in Steps /\ ex'[t] \in Exchanges
             /\ pc'[t] \in ExchangeSteps => ex'[t].server \in Servers
  BY Zenon, <1>0, <1>s, <1>k
<1>3. CASE LearnsMode(t)
  <2>1. tls[ex[t].server] \in {"no", "opportunistic", "yes"}
    BY <1>0, <1>3, <1>s, ModesAssumption DEF LearnsMode, TypeOK
  <2>2. ex'[t] \in Exchanges  BY Zenon, <1>0, <1>3, <2>1, TlsTyped DEF LearnsMode
  <2>3. ex'[t].server = ex[t].server  BY <1>0, <1>3 DEF LearnsMode, Exchanges
  <2> QED  BY <1>3, <1>k, <1>s, <2>2, <2>3 DEF LearnsMode
<1>4. CASE DecidesTls(t)
  <2>2. ex'[t] \in Exchanges  BY Zenon, <1>0, <1>4, OverTlsTyped DEF DecidesTls
  <2>3. ex'[t].server = ex[t].server  BY <1>0, <1>4 DEF DecidesTls, Exchanges
  <2> QED  BY <1>4, <1>k, <1>s, <2>2, <2>3 DEF DecidesTls
<1>5. CASE Sets(t)
  <2>1. ChosenLevel(t) \in Levels
    <3>1. pc[t] \in ExchangeSteps  BY <1>5, <1>s DEF Sets
    <3>2. possible_level(features[ex[t].server], Best(ex[t].server, ex[t].dnssec)) \in FeatureStates
      BY <3>1, ServerEntry, PossibleFacts DEF Server
    <3>3. ex[t].forced \in Levels \cup {NoLevel}  BY Entry
    <3> QED  BY <3>2, <3>3 DEF ChosenLevel, FeatureStates
  <2>2. ex'[t] \in Exchanges
    <3>1. PICK m \in TransportModes : ex'[t] = [ex[t] EXCEPT !.level = ChosenLevel(t), !.transport = m]
      BY Zenon, <1>5 DEF Sets
    <3>2. [ex[t] EXCEPT !.level = ChosenLevel(t), !.transport = m] \in Exchanges
      BY Zenon, <1>0, <2>1, LevelTyped
    <3> QED  BY Zenon, <3>1, <3>2
  <2>3. ex'[t].server = ex[t].server  BY <1>0, <1>5 DEF Sets, Exchanges
  <2>4. pc[t] \in ExchangeSteps /\ pc'[t] \in ExchangeSteps  BY <1>5, <1>s DEF Sets, TransportModes
  <2> QED  BY Zenon, <1>k, <2>2, <2>3, <2>4
<1>6. CASE Passes(t)
  <2>1. pc[t] \in ExchangeSteps /\ pc'[t] \in ExchangeSteps  BY <1>6, <1>s DEF Passes
  <2> QED  BY <1>0, <1>6, <1>k, <2>1 DEF Passes
<1>7. CASE Receives(t)
  <2>2. ex'[t] \in Exchanges  BY Zenon, <1>0, <1>7, ViaTcpTyped DEF Receives
  <2>3. ex'[t].server = ex[t].server  BY <1>0, <1>7 DEF Receives, Exchanges
  <2> QED  BY <1>7, <1>k, <1>s, <2>2, <2>3 DEF Receives
<1>8. CASE Retries(t)
  <2>2. ex'[t] \in Exchanges
    <3>1. PICK l \in Levels :
              \/ ex'[t] = [ex[t] EXCEPT !.features = ex[t].features + 1, !.forced = l]
              \/ ex'[t] = [ex[t] EXCEPT !.features = ex[t].features + 1, !.forced = l, !.probe = TRUE]
      BY Zenon, <1>8 DEF Retries
    <3>2. /\ [ex[t] EXCEPT !.features = ex[t].features + 1, !.forced = l] \in Exchanges
          /\ [ex[t] EXCEPT !.features = ex[t].features + 1, !.forced = l, !.probe = TRUE] \in Exchanges
      BY Zenon, <1>0, ForcedTyped
    <3> QED  BY Zenon, <3>1, <3>2
  <2>3. ex'[t].server = ex[t].server  BY Zenon, <1>0, <1>8 DEF Retries, Exchanges
  <2> QED  BY <1>8, <1>k, <1>s, <2>2, <2>3 DEF Retries
<1>9. CASE Switches(t)
  <2>2. ex'[t] \in Exchanges  BY Zenon, <1>0, <1>9, SwitchTyped DEF Switches
  <2>3. ex'[t].server = ex[t].server  BY <1>0, <1>9 DEF Switches, Exchanges
  <2> QED  BY <1>9, <1>k, <1>s, <2>2, <2>3 DEF Switches
<1>10. CASE Repeats(t)
  <2>2. ex'[t] \in Exchanges  BY Zenon, <1>0, <1>10, RepeatTyped DEF Repeats
  <2>3. ex'[t].server = ex[t].server  BY Zenon, <1>0, <1>10 DEF Repeats, Exchanges
  <2> QED  BY <1>10, <1>k, <1>s, <2>2, <2>3 DEF Repeats
<1> QED  BY Zenon, <1>1, <1>2, <1>3, <1>4, <1>5, <1>6, <1>7, <1>8, <1>9, <1>10 DEF Moves

(* So do the changes of the walk                                           *)
LEMMA WalkTyped ==
    ASSUME TypeOK, NEW t \in Threads, WalkMoves(t)
    PROVE  walk'[t] \in Walks
<1>1. walk[t] \in Walks /\ walk[t].tries + 1 \in Nat /\ walk[t].attempted \subseteq Servers /\ walk[t].tried \subseteq Servers
  BY Entry DEF Walks
<1>2. CASE Advances(t)
  <2>1. PICK s \in Servers :
            walk'[t] = [walk[t] EXCEPT !.tries = @ + 1,
                                       !.attempted = (IF @ = Servers THEN {} ELSE @) \cup {s},
                                       !.tried = @ \cup {s}]
    BY Zenon, <1>2 DEF Advances
  <2> DEFINE a == (IF walk[t].attempted = Servers THEN {} ELSE walk[t].attempted) \cup {s}
  <2>2. a \in SUBSET Servers /\ walk[t].tried \cup {s} \in SUBSET Servers  BY <1>1
  <2> HIDE DEF a
  <2>3. walk'[t] = [walk[t] EXCEPT !.tries = walk[t].tries + 1, !.attempted = a, !.tried = walk[t].tried \cup {s}]
    BY <2>1 DEF a
  <2>4. [walk[t] EXCEPT !.tries = walk[t].tries + 1, !.attempted = a, !.tried = walk[t].tried \cup {s}] \in Walks
    BY Zenon, <1>1, <2>2, AdvanceTyped
  <2> QED  BY <2>3, <2>4
<1>3. CASE Opens(t) \/ Closes(t) \/ Concludes(t) \/ Continues(t)
  BY Zenon, <1>1, <1>3, LastTyped, OpenTyped DEF Opens, Closes, Concludes, Continues
<1> QED  BY Zenon, <1>2, <1>3 DEF WalkMoves

(* and of the budget.                                                      *)
LEMMA BudgetTyped ==
    ASSUME TypeOK, NEW t \in Threads, BudgetMoves(t)
    PROVE  budget'[t] \in Budgets /\ emitted'[t] \in Nat
<1>1. budget[t] \in Budgets /\ emitted[t] \in Nat  BY Entry
<1>2. [attempts |-> 0, expired |-> FALSE] \in Budgets /\ 0 \in Nat  BY DEF Budgets
<1>3. [budget[t] EXCEPT !.attempts = @ + 1] \in Budgets  BY <1>1 DEF Budgets
<1>4. [budget[t] EXCEPT !.expired = TRUE] \in Budgets  BY Zenon, <1>1 DEF Budgets
<1>5. \A n \in 0 .. 2 : emitted[t] + n \in Nat  BY <1>1
<1> QED  BY Zenon, <1>1, <1>2, <1>3, <1>4, <1>5 DEF BudgetMoves, Starts, Attempts, SameAttempts,
            SendsSome, Quiet

-----------------------------------------------------------------------------
(* What is known of the servers keeps its type.                            *)
LEMMA FeaturesTyped ==
    ASSUME TypeOK, NEW t \in Threads, FeatureMoves(t)
    PROVE  features' \in [Servers -> FeatureStates]
<1>1. features \in [Servers -> FeatureStates]  BY DEF TypeOK
<1>2. SUFFICES ASSUME pc[t] \in ExchangeSteps, NEW g \in FeatureStates,
                      features' = [features EXCEPT ![Server(t)] = g]
               PROVE  features' \in [Servers -> FeatureStates]
  <2>1. pc[t] \in ExchangeSteps =>
            possible_level(features[Server(t)], Best(Server(t), ex[t].dnssec)) \in FeatureStates
    BY ServerEntry, PossibleFacts
  <2> QED  BY Zenon, <1>1, <2>1 DEF FeatureMoves, Lowers, Keeps
<1> QED  BY Zenon, <1>1, <1>2

LEMMA TransportTyped ==
    ASSUME TypeOK, NEW t \in Threads, TransportMoves(t)
    PROVE  transport' \in [Servers -> TransportStates]
<1>1. transport \in [Servers -> TransportStates]  BY DEF TypeOK
<1>2. SUFFICES ASSUME NEW x \in TransportStates, transport' = [transport EXCEPT ![Server(t)] = x]
               PROVE  transport' \in [Servers -> TransportStates]
  <2>1. ASSUME pc[t] \in ExchangeSteps, NEW m \in TransportModes
        PROVE  /\ TransportFailed(transport[Server(t)], m) \in TransportStates
               /\ TransportSucceeded(transport[Server(t)], m) \in TransportStates
               /\ clear_failures(transport[Server(t)]) \in TransportStates
    BY Zenon, <2>1, ServerEntry, TransportFacts
  <2> QED  BY Zenon, <1>1, <2>1 DEF TransportMoves
<1> QED  BY Zenon, <1>1, <1>2

(* So do TLS capabilities and missing RRSIG records.                       *)
LEMMA CapabilityTyped ==
    ASSUME TypeOK, NEW t \in Threads, StartQuery(t) \/ Step(t)
    PROVE  capability' \in [Servers -> Capabilities] /\ omitsRrsig' \in [Servers -> BOOLEAN]
<1>1. capability \in [Servers -> Capabilities] /\ omitsRrsig \in [Servers -> BOOLEAN]  BY DEF TypeOK
<1>2. CASE CheckTls(t)
  <2>1. capability[Server(t)] \in Capabilities /\ TlsRetried(capability[Server(t)]) \in Capabilities
    BY Zenon, <1>2, ServerEntry, TlsFacts DEF CheckTls, ExchangeSteps
  <2> QED  BY Zenon, <1>1, <1>2, <2>1 DEF CheckTls
<1>3. CASE ExchangeTls(t)
  <2>1. NewCapability \in Capabilities /\ TlsFailed(capability[Server(t)], StrictTls(t)) \in Capabilities
    BY Zenon, <1>3, ServerEntry, TlsFacts, NewFacts DEF ExchangeTls, ExchangeSteps, SendSteps,
       StrictTls
  <2> QED  BY <1>1, <1>3, <2>1 DEF ExchangeTls
<1>4. CASE RecordMissingRootRrsig(t)
  BY Zenon, <1>1, <1>4 DEF RecordMissingRootRrsig
<1>5. CASE StartQuery(t) \/ NextServer(t) \/ Conclude(t) \/ ReadTlsMode(t) \/ ChooseLevel(t) \/ ExchangeUdp(t)
           \/ LoseUdp(t) \/ ClearFailures(t) \/ LoseUdpTransport(t) \/ ExchangeTcp(t)
  BY Zenon, <1>1, <1>5 DEF StartQuery, NextServer, Conclude, ReadTlsMode, ChooseLevel,
     ExchangeUdp, LoseUdp,
                    ClearFailures, LoseUdpTransport, ExchangeTcp, sharedVars
<1>6. CASE LoseTcp(t) \/ LoseFallback(t) \/ BlameLevel(t) \/ RejectPacket(t) \/ RecordBadOpt(t) \/ RecordDoOff(t)
           \/ HandleServfail(t) \/ ProbeLower(t) \/ Accept(t)
  BY <1>1, <1>6 DEF LoseTcp, LoseFallback, BlameLevel, RejectPacket, RecordBadOpt, RecordDoOff,
     Relearn,
                    HandleServfail, ProbeLower, Accept, sharedVars
<1> QED  BY Zenon, <1>2, <1>3, <1>4, <1>5, <1>6 DEF Step

(* Threads read the modes and never set them.                              *)
LEMMA StepKeepsModes ==
    ASSUME NEW t \in Threads, StartQuery(t) \/ Step(t)
    PROVE  UNCHANGED modeVars
<1>1. CASE StartQuery(t) \/ NextServer(t) \/ Conclude(t) \/ ReadTlsMode(t) \/ CheckTls(t) \/ ChooseLevel(t)
           \/ ExchangeTls(t) \/ ExchangeUdp(t) \/ LoseUdp(t) \/ ClearFailures(t) \/ LoseUdpTransport(t)
  BY Zenon, <1>1 DEF StartQuery, NextServer, Conclude, ReadTlsMode, CheckTls, ChooseLevel,
     ExchangeTls,
                     ExchangeUdp, LoseUdp, ClearFailures, LoseUdpTransport
<1>2. CASE ExchangeTcp(t) \/ LoseTcp(t) \/ LoseFallback(t) \/ BlameLevel(t) \/ RejectPacket(t) \/ RecordBadOpt(t)
           \/ RecordDoOff(t) \/ RecordMissingRootRrsig(t) \/ HandleServfail(t) \/ ProbeLower(t) \/ Accept(t)
  BY Zenon, <1>2 DEF ExchangeTcp, LoseTcp, LoseFallback, BlameLevel, RejectPacket, RecordBadOpt,
     RecordDoOff,
                     Relearn, RecordMissingRootRrsig, HandleServfail, ProbeLower, Accept
<1> QED  BY Zenon, <1>1, <1>2 DEF Step

(* A set of functions is closed under a change at one point.               *)
LEMMA PointUpdate ==
    ASSUME NEW S, NEW T, NEW f \in [S -> T], NEW g, NEW x \in S, NEW y \in T, g = [f EXCEPT ![x] = y]
    PROVE  g \in [S -> T]
OBVIOUS

(* A thread's step preserves TypeOK.                                       *)
LEMMA StepTyped ==
    ASSUME TypeOK, NEW t \in Threads, StartQuery(t) \/ Step(t)
    PROVE  TypeOK'
<1>1. Only(t)  BY Zenon, OnlyStep
<1>2. /\ pc'[t] \in Steps /\ ex'[t] \in Exchanges
      /\ pc'[t] \in ExchangeSteps => ex'[t].server \in Servers
  BY Zenon, StepMoves, ExchangeTyped
<1>3. walk'[t] \in Walks  BY Zenon, StepWalk, WalkTyped
<1>4. budget'[t] \in Budgets /\ emitted'[t] \in Nat  BY Zenon, StepBudget, BudgetTyped
<1>5. features' \in [Servers -> FeatureStates] /\ transport' \in [Servers -> TransportStates]
  BY Zenon, StepFeatures, FeaturesTyped, StepTransport, TransportTyped
<1>6. capability' \in [Servers -> Capabilities] /\ omitsRrsig' \in [Servers -> BOOLEAN]
  BY Zenon, CapabilityTyped
<1>7. UNCHANGED <<dnssec, tls, changes>>  BY Zenon, StepKeepsModes DEF modeVars
<1>8. /\ pc \in [Threads -> Steps] /\ ex \in [Threads -> Exchanges] /\ walk \in [Threads -> Walks]
      /\ budget \in [Threads -> Budgets] /\ emitted \in [Threads -> Nat]
  BY DEF TypeOK, Budgets
<1>9. pc' \in [Threads -> Steps]  BY Zenon, <1>1, <1>2, <1>8, PointUpdate DEF Only
<1>10. ex' \in [Threads -> Exchanges]  BY Zenon, <1>1, <1>2, <1>8, PointUpdate DEF Only
<1>11. walk' \in [Threads -> Walks]  BY Zenon, <1>1, <1>3, <1>8, PointUpdate DEF Only
<1>12. budget' \in [Threads -> Budgets]  BY Zenon, <1>1, <1>4, <1>8, PointUpdate DEF Only
<1>13. emitted' \in [Threads -> Nat]  BY Zenon, <1>1, <1>4, <1>8, PointUpdate DEF Only
<1>14. \A u \in Threads : pc'[u] \in ExchangeSteps => ex'[u].server \in Servers
  <2>1. \A u \in Threads \ {t} : pc'[u] = pc[u] /\ ex'[u] = ex[u]
    BY <1>1, <1>8 DEF Only
  <2>2. \A u \in Threads : pc[u] \in ExchangeSteps => ex[u].server \in Servers
    BY Zenon DEF TypeOK
  <2> QED  BY Zenon, <1>2, <2>1, <2>2
<1>15. /\ dnssec' \in [Servers -> DnssecModes] /\ tls' \in [Servers -> TlsModes] /\ changes' \in Nat
  BY Zenon, <1>7 DEF TypeOK
<1> QED  BY Zenon, <1>5, <1>6, <1>9, <1>10, <1>11, <1>12, <1>13, <1>14, <1>15 DEF TypeOK, Budgets

(* So does a step of the rest of the program.                              *)
LEMMA RestTyped ==
    ASSUME TypeOK, UNCHANGED <<pc, budget, walk, ex, emitted>>,
           dnssec' \in [Servers -> DnssecModes], tls' \in [Servers -> TlsModes], changes' \in Nat,
           features' \in [Servers -> FeatureStates], transport' \in [Servers -> TransportStates],
           capability' \in [Servers -> Capabilities], omitsRrsig' \in [Servers -> BOOLEAN]
    PROVE  TypeOK'
BY Zenon DEF TypeOK

(* TypeOK holds at first,                                                  *)
LEMMA InitTyped ==
    ASSUME Init
    PROVE  TypeOK
<1>1. NoWalk \in Walks  BY DEF Walks, NoWalk
<1>2. "idle" \in Steps /\ "idle" \notin ExchangeSteps  BY DEF Steps, ExchangeSteps, SendSteps
<1>3. [attempts |-> 0, expired |-> FALSE] \in [attempts : Nat, expired : BOOLEAN]  OBVIOUS
<1> QED  BY <1>1, <1>2, <1>3, NewFacts, NoExchangeType DEF Init, TypeOK

(* and every step preserves it.                                            *)
LEMMA NextTyped ==
    ASSUME TypeOK, [Next]_vars
    PROVE  TypeOK'
<1>1. CASE \E t \in Threads : StartQuery(t) \/ Step(t)  BY Zenon, <1>1, StepTyped
<1>0. /\ dnssec \in [Servers -> DnssecModes] /\ tls \in [Servers -> TlsModes] /\ changes \in Nat
      /\ features \in [Servers -> FeatureStates] /\ transport \in [Servers -> TransportStates]
      /\ capability \in [Servers -> Capabilities] /\ omitsRrsig \in [Servers -> BOOLEAN]
  BY DEF TypeOK
<1>2. ASSUME NEW s \in Servers, NEW m \in DnssecModes, SetDnssec(s, m)  PROVE TypeOK'
  <2>1. UNCHANGED <<pc, budget, walk, ex, emitted, tls, features, transport, capability, omitsRrsig>>
    BY Zenon, <1>2 DEF SetDnssec, sharedVars
  <2>2. dnssec' \in [Servers -> DnssecModes] /\ changes' \in Nat  BY <1>0, <1>2 DEF SetDnssec
  <2> QED  BY Zenon, <1>0, <2>1, <2>2, RestTyped
<1>3. ASSUME NEW s \in Servers, NEW m \in TlsModes, SetDnsOverTls(s, m)  PROVE TypeOK'
  <2>1. UNCHANGED <<pc, budget, walk, ex, emitted, dnssec, features, transport, capability, omitsRrsig>>
    BY Zenon, <1>3 DEF SetDnsOverTls, sharedVars
  <2>2. tls' \in [Servers -> TlsModes] /\ changes' \in Nat  BY <1>0, <1>3 DEF SetDnsOverTls
  <2> QED  BY Zenon, <1>0, <2>1, <2>2, RestTyped
<1>4. ASSUME NEW s \in Servers, GraceEnds(s)  PROVE TypeOK'
  <2>1. UNCHANGED <<pc, budget, walk, ex, emitted, dnssec, tls, changes, transport, omitsRrsig>>
    BY Zenon, <1>4 DEF GraceEnds, modeVars
  <2>2. /\ [features[s] EXCEPT !.retry = "due"] \in FeatureStates
        /\ [capability[s] EXCEPT !.retry = "due"] \in Capabilities
    BY Zenon, <1>0 DEF FeatureStates, Capabilities, Dates
  <2>3. features' \in [Servers -> FeatureStates] /\ capability' \in [Servers -> Capabilities]
    BY <1>0, <1>4, <2>2 DEF GraceEnds
  <2> QED  BY Zenon, <1>0, <2>1, <2>3, RestTyped
<1>5. CASE reset_server_features
  <2>1. UNCHANGED <<pc, budget, walk, ex, emitted, dnssec, tls, changes>>
    BY Zenon, <1>5 DEF reset_server_features, modeVars
  <2>2. /\ features' \in [Servers -> FeatureStates] /\ transport' \in [Servers -> TransportStates]
        /\ capability' \in [Servers -> Capabilities] /\ omitsRrsig' \in [Servers -> BOOLEAN]
    BY <1>5, NewFacts DEF reset_server_features
  <2> QED  BY Zenon, <1>0, <2>1, <2>2, RestTyped
<1>6. CASE UNCHANGED vars
  BY Zenon, <1>6 DEF TypeOK, vars, modeVars, sharedVars
<1> QED  BY Zenon, <1>1, <1>2, <1>3, <1>4, <1>5, <1>6 DEF Next

(* Every variable keeps its type; in particular an exchange always has a   *)
(* server of the scope, and each count is a number.                        *)
THEOREM TypesHold == Spec => []TypeOK
<1>1. Init => TypeOK  BY InitTyped
<1>2. TypeOK /\ [Next]_vars => TypeOK'  BY NextTyped
<1> QED  BY <1>1, <1>2, PTL DEF Spec

-----------------------------------------------------------------------------
(* The inductive invariant, thread by thread. Once an attempt has begun    *)
(* its level is the forced one, if there is one; an exchange in strict TLS *)
(* mode has decided for TLS when it chooses its level and is at no step of *)
(* plain DNS.                                                              *)
SentSteps == SendSteps \cup {"clear", "lost", "blame", "packet"}
ClearSteps == {"udp", "tcp", "fallback", "clear", "lost", "blame"}
ThreadOK(t) ==
    /\ pc[t] \notin ExchangeSteps => ex[t] = NoExchange
    /\ pc[t] \in SentSteps /\ ex[t].forced # NoLevel => ex[t].level = ex[t].forced
    /\ StrictTls(t) /\ pc[t] = "level" => ex[t].overTls
    /\ StrictTls(t) => pc[t] \notin ClearSteps

(* Nothing is forced before an exchange.                                   *)
LEMMA NoExchangeFields ==
    NoExchange.forced = NoLevel /\ NoExchange.tls = "no" /\ NoExchange.server = NoServer
BY DEF NoExchange

(* Which locals a move leaves as they are.                                 *)
LEMMA FieldsKept ==
    ASSUME TypeOK, NEW t \in Threads
    PROVE  /\ LearnsMode(t) => ex'[t].forced = ex[t].forced /\ ex'[t].level = ex[t].level
           /\ DecidesTls(t) => /\ ex'[t].forced = ex[t].forced /\ ex'[t].tls = ex[t].tls
                               /\ StrictTls(t) => ex'[t].overTls
           /\ Sets(t) => /\ ex'[t].forced = ex[t].forced /\ ex'[t].tls = ex[t].tls
                         /\ ex'[t].level = ChosenLevel(t)
           /\ Receives(t) => /\ ex'[t].forced = ex[t].forced /\ ex'[t].tls = ex[t].tls
                             /\ ex'[t].level = ex[t].level
           /\ Retries(t) => /\ ex'[t].forced \in Levels /\ ex'[t].forced <= ex[t].level /\ ex'[t].tls = ex[t].tls
           /\ Switches(t) => ex'[t].forced = ex[t].forced /\ ex'[t].tls = ex[t].tls
           /\ Repeats(t) => ex'[t].forced = ex[t].level /\ ex'[t].tls = ex[t].tls
<1>1. ex[t] \in Exchanges  BY Entry
<1>2. ASSUME LearnsMode(t)  PROVE ex'[t].forced = ex[t].forced /\ ex'[t].level = ex[t].level
  BY <1>1, <1>2 DEF LearnsMode, Exchanges
<1>3. ASSUME DecidesTls(t)
      PROVE  /\ ex'[t].forced = ex[t].forced /\ ex'[t].tls = ex[t].tls
             /\ StrictTls(t) => ex'[t].overTls
  BY <1>1, <1>3 DEF DecidesTls, Exchanges
<1>4. ASSUME Sets(t)
      PROVE  ex'[t].forced = ex[t].forced /\ ex'[t].tls = ex[t].tls /\ ex'[t].level = ChosenLevel(t)
  BY <1>1, <1>4 DEF Sets, Exchanges
<1>5. ASSUME Receives(t)
      PROVE  ex'[t].forced = ex[t].forced /\ ex'[t].tls = ex[t].tls /\ ex'[t].level = ex[t].level
  BY <1>1, <1>5 DEF Receives, Exchanges
<1>6. ASSUME Retries(t)
      PROVE  ex'[t].forced \in Levels /\ ex'[t].forced <= ex[t].level /\ ex'[t].tls = ex[t].tls
  BY Zenon, <1>1, <1>6 DEF Retries, Exchanges
<1>7. ASSUME Switches(t)  PROVE ex'[t].forced = ex[t].forced /\ ex'[t].tls = ex[t].tls
  BY <1>1, <1>7 DEF Switches, Exchanges
<1>8. ASSUME Repeats(t)  PROVE ex'[t].forced = ex[t].level /\ ex'[t].tls = ex[t].tls
  BY Zenon, <1>1, <1>8 DEF Repeats, Exchanges
<1> QED  BY Zenon, <1>2, <1>3, <1>4, <1>5, <1>6, <1>7, <1>8

(* Every move preserves the invariant of its thread.                       *)
LEMMA MovesKeepThread ==
    ASSUME TypeOK, NEW t \in Threads, ThreadOK(t), Moves(t)
    PROVE  ThreadOK(t)'
<1>s. /\ SentSteps = {"tls", "udp", "tcp", "fallback", "clear", "lost", "blame", "packet"}
      /\ ExchangeSteps = SentSteps \cup {"modes", "loop", "level"}
      /\ ClearSteps = {"udp", "tcp", "fallback", "clear", "lost", "blame"}
  BY DEF SentSteps, ExchangeSteps, SendSteps, ClearSteps
<1> USE DEF ThreadOK, StrictTls
<1>1. CASE Begins(t)
  BY <1>1, <1>s DEF Begins
<1>2. CASE Rests(t) \/ Leaves(t)
  BY <1>2, <1>s, NoExchangeFields DEF Rests, Leaves
<1>3. CASE LearnsMode(t)
  BY <1>3, <1>s DEF LearnsMode
<1>4. CASE DecidesTls(t)
  BY <1>4, <1>s, FieldsKept DEF DecidesTls
<1>5. CASE Sets(t)
  <2>1. ex[t].forced # NoLevel => ChosenLevel(t) = ex[t].forced  BY DEF ChosenLevel
  <2>2. pc'[t] \in {"tls", "udp", "tcp"} /\ (ex[t].overTls => pc'[t] = "tls") /\ pc[t] = "level"
    BY <1>5 DEF Sets, TransportModes
  <2> QED  BY <1>5, <1>s, <2>1, <2>2, FieldsKept
<1>6. CASE Passes(t)
  BY <1>6, <1>s DEF Passes
<1>7. CASE Receives(t)
  BY <1>7, <1>s, FieldsKept DEF Receives
<1>8. CASE Retries(t)
  BY <1>8, <1>s DEF Retries
<1>9. CASE Switches(t)
  BY <1>9, <1>s DEF Switches
<1>10. CASE Repeats(t)
  BY <1>10, <1>s DEF Repeats
<1> QED  BY Zenon, <1>1, <1>2, <1>3, <1>4, <1>5, <1>6, <1>7, <1>8, <1>9, <1>10 DEF Moves

(* What may still be sent under the attempts counted so far: three queries *)
(* when an attempt begins, two when TCP follows a truncated answer.        *)
BudgetOK(t) ==
    /\ budget[t].attempts <= AttemptsMax
    /\ emitted[t] <= 3 * budget[t].attempts
    /\ pc[t] \in {"tls", "udp", "tcp"} => emitted[t] + 3 <= 3 * budget[t].attempts
    /\ pc[t] = "fallback" => emitted[t] + 2 <= 3 * budget[t].attempts

(* Every step preserves it.                                                *)
LEMMA MovesKeepBudget ==
    ASSUME TypeOK, NEW t \in Threads, BudgetOK(t), BudgetMoves(t)
    PROVE  BudgetOK(t)'
<1>1. budget[t].attempts \in Nat /\ emitted[t] \in Nat /\ AttemptsMax \in Nat
  BY Entry, LimitsAssumption DEF Budgets
<1>s. SendSteps = {"tls", "udp", "tcp", "fallback"}  BY DEF SendSteps
<1>2. CASE Starts(t)
  BY <1>1, <1>2 DEF Starts, BudgetOK
<1>3. CASE Attempts(t)
  <2>1. budget'[t].attempts = budget[t].attempts + 1
    BY <1>3, Entry DEF Attempts, Budgets
  <2> QED  BY <1>1, <1>3, <2>1 DEF Attempts, BudgetOK
<1>4. SameAttempts(t) => budget'[t].attempts = budget[t].attempts
  BY Entry DEF SameAttempts, Budgets
<1>5. CASE SendsSome(t)
  <2>1. PICK n \in 0 .. 2 : emitted'[t] = emitted[t] + n /\ (pc'[t] = "fallback" => pc[t] = "udp" /\ n <= 1)
    BY <1>5 DEF SendsSome
  <2>2. emitted[t] + 2 <= 3 * budget[t].attempts
    BY <1>1, <1>5, <1>s DEF SendsSome, BudgetOK
  <2>3. pc'[t] = "fallback" => emitted[t] + 3 <= 3 * budget[t].attempts
    BY <2>1 DEF BudgetOK
  <2> QED  BY <1>1, <1>4, <1>5, <2>1, <2>2, <2>3 DEF SendsSome, BudgetOK
<1>6. CASE Quiet(t)
  BY <1>1, <1>4, <1>6, <1>s DEF Quiet, BudgetOK
<1> QED  BY Zenon, <1>2, <1>3, <1>5, <1>6 DEF BudgetMoves

(* The servers attempted in this round were tried, and REFUSED ends the    *)
(* walk only if there is no server or no attempt left.                     *)
WalkOK(t) ==
    /\ walk[t].attempted \subseteq walk[t].tried
    /\ walk[t].tries <= ConfigAttempts
    /\ pc[t] = "idle" /\ walk[t].last = "refused" =>
          \/ walk[t].tried = Servers
          \/ walk[t].tries = ConfigAttempts
          \/ exhausted(t) \/ budget[t].expired

(* Every step preserves it.                                                *)
LEMMA MovesKeepWalk ==
    ASSUME TypeOK, NEW t \in Threads, WalkOK(t), WalkMoves(t), BudgetMoves(t)
    PROVE  WalkOK(t)'
<1>1. /\ walk[t] \in Walks /\ walk[t].attempted \subseteq Servers /\ walk[t].tried \subseteq Servers
      /\ walk[t].tries \in Nat /\ ConfigAttempts \in Nat
  BY Entry, LimitsAssumption DEF Walks
<1>2. CASE Opens(t)
  <2>1. PICK b \in BOOLEAN : walk'[t] = [NoWalk EXCEPT !.tsig = b]  BY <1>2 DEF Opens
  <2>2. walk'[t].attempted = {} /\ walk'[t].tried = {} /\ walk'[t].tries = 0 /\ walk'[t].last = "none"
    BY <2>1 DEF NoWalk
  <2> QED  BY <1>1, <2>2 DEF WalkOK
<1>3. CASE Advances(t)
  <2>1. PICK s \in Servers :
            /\ walk'[t].attempted = (IF walk[t].attempted = Servers THEN {} ELSE walk[t].attempted) \cup {s}
            /\ walk'[t].tried = walk[t].tried \cup {s}
            /\ walk'[t].tries = walk[t].tries + 1
    BY <1>1, <1>3 DEF Advances, Walks
  <2>2. walk[t].tries < ConfigAttempts /\ pc'[t] = "modes"  BY <1>3 DEF Advances
  <2>3. walk[t].attempted \subseteq walk[t].tried  BY DEF WalkOK
  <2>4. walk'[t].attempted \subseteq walk'[t].tried  BY <2>1, <2>3
  <2>5. walk'[t].tries <= ConfigAttempts  BY <1>1, <2>1, <2>2
  <2> QED  BY <2>2, <2>4, <2>5 DEF WalkOK
<1>4. \A l : walk'[t] = [walk[t] EXCEPT !.last = l] =>
          /\ walk'[t].attempted = walk[t].attempted /\ walk'[t].tried = walk[t].tried
          /\ walk'[t].tries = walk[t].tries /\ walk'[t].last = l
  BY <1>1 DEF Walks
<1>5. CASE Closes(t)
  <2>1. /\ walk'[t].attempted = walk[t].attempted /\ walk'[t].tried = walk[t].tried
        /\ walk'[t].tries = walk[t].tries
    BY Zenon, <1>4, <1>5 DEF Closes
  <2>2. walk[t].tries = ConfigAttempts \/ exhausted(t)' \/ budget'[t].expired
    BY <1>5 DEF Closes, exhausted
  <2> QED  BY <2>1, <2>2 DEF WalkOK
<1>6. CASE Concludes(t)
  <2>1. /\ walk'[t].attempted = walk[t].attempted /\ walk'[t].tried = walk[t].tried
        /\ walk'[t].tries = walk[t].tries
    BY Zenon, <1>4, <1>6 DEF Concludes
  <2>2. pc'[t] = "idle" /\ walk'[t].last = "refused" => walk[t].attempted = Servers
    BY <1>4, <1>6 DEF Concludes, KeepAsking
  <2>3. walk[t].attempted \subseteq walk[t].tried  BY DEF WalkOK
  <2>4. ASSUME walk[t].attempted = Servers  PROVE walk'[t].tried = Servers
    <3>1. Servers \subseteq walk[t].tried  BY Zenon, <2>3, <2>4
    <3> QED  BY Zenon, <1>1, <2>1, <3>1
  <2> QED  BY <2>1, <2>2, <2>4 DEF WalkOK
<1>7. CASE Continues(t)
  BY <1>7 DEF Continues, WalkOK
<1> QED  BY Zenon, <1>2, <1>3, <1>5, <1>6, <1>7 DEF WalkMoves

(* The inductive invariant for all threads and any changes of modes.       *)
Inv ==
    /\ TypeOK
    /\ \A t \in Threads : ThreadOK(t) /\ BudgetOK(t) /\ WalkOK(t)

(* The other threads stand still.                                          *)
LEMMA OthersKept ==
    ASSUME TypeOK, NEW t \in Threads, NEW u \in Threads, u # t, Only(t)
    PROVE  /\ pc'[u] = pc[u] /\ budget'[u] = budget[u] /\ walk'[u] = walk[u]
           /\ ex'[u] = ex[u] /\ emitted'[u] = emitted[u]
BY DEF TypeOK, Only

(* A thread that stands still keeps its invariant, whatever is learnt      *)
(* meanwhile.                                                              *)
LEMMA ThreadUnmoved ==
    ASSUME NEW u, pc'[u] = pc[u], budget'[u] = budget[u], walk'[u] = walk[u], ex'[u] = ex[u],
           emitted'[u] = emitted[u]
    PROVE  /\ ThreadOK(u) => ThreadOK(u)'
           /\ BudgetOK(u) => BudgetOK(u)'
           /\ WalkOK(u) => WalkOK(u)'
BY DEF ThreadOK, BudgetOK, WalkOK, StrictTls, exhausted

(* The invariant holds at first,                                           *)
LEMMA InitInv == Init => Inv
<1> SUFFICES ASSUME Init PROVE Inv  OBVIOUS
<1>1. TypeOK  BY InitTyped
<1>2. ASSUME NEW t \in Threads  PROVE ThreadOK(t) /\ BudgetOK(t) /\ WalkOK(t)
  <2>1. /\ pc[t] = "idle" /\ ex[t] = NoExchange /\ walk[t] = NoWalk /\ emitted[t] = 0
        /\ budget[t].attempts = 0
    BY DEF Init
  <2>2. "idle" \notin SentSteps /\ "idle" \notin ClearSteps /\ "idle" \notin ExchangeSteps
    BY DEF SentSteps, ClearSteps, ExchangeSteps, SendSteps
  <2>3. ThreadOK(t)  BY <2>1, <2>2 DEF ThreadOK
  <2>4. BudgetOK(t)  BY <2>1, LimitsAssumption DEF BudgetOK
  <2>5. WalkOK(t)  BY <2>1, LimitsAssumption DEF WalkOK, NoWalk
  <2> QED  BY <2>3, <2>4, <2>5
<1> QED  BY <1>1, <1>2 DEF Inv

(* and every step of Next preserves it.                                    *)
LEMMA NextInv ==
    ASSUME Inv, [Next]_vars
    PROVE  Inv'
<1>1. TypeOK /\ TypeOK'  BY NextTyped DEF Inv
<1>2. ASSUME NEW u \in Threads  PROVE (ThreadOK(u) /\ BudgetOK(u) /\ WalkOK(u))'
  <2>0. ThreadOK(u) /\ BudgetOK(u) /\ WalkOK(u)  BY Zenon DEF Inv
  <2>1. CASE StartQuery(u) \/ Step(u)
    BY Zenon, <1>1, <2>0, <2>1, StepMoves, StepBudget, StepWalk, MovesKeepThread, MovesKeepBudget,
       MovesKeepWalk
  <2>2. ASSUME NEW t \in Threads, t # u, StartQuery(t) \/ Step(t)
        PROVE  (ThreadOK(u) /\ BudgetOK(u) /\ WalkOK(u))'
    BY Zenon, <1>1, <2>0, <2>2, OnlyStep, OthersKept, ThreadUnmoved
  <2>3. CASE UNCHANGED <<pc, budget, walk, ex, emitted>>
    BY Zenon, <2>0, <2>3, ThreadUnmoved
  <2>4. \/ \E t \in Threads : StartQuery(t) \/ Step(t)
        \/ UNCHANGED <<pc, budget, walk, ex, emitted>>
    BY Zenon DEF Next, SetDnssec, SetDnsOverTls, GraceEnds, reset_server_features, vars
  <2> QED  BY Zenon, <2>1, <2>2, <2>3, <2>4
<1> QED  BY Zenon, <1>1, <1>2 DEF Inv

(* The inductive invariant of query_servers and exchange_with_features     *)
(* holds, for any number of threads and servers and for any changes of the *)
(* modes.                                                                  *)
THEOREM ExchangeInvariant == Spec => []Inv
<1>1. Inv /\ [Next]_vars => Inv'  BY NextInv
<1> QED  BY <1>1, InitInv, PTL DEF Spec

(* An exchange that began in strict DNS-over-TLS mode never reaches a step *)
(* that sends plain DNS, whatever other threads learn and however the mode *)
(* changes.                                                                *)
THEOREM StrictTlsNeverPlain == Spec => []StrictTlsStaysEncrypted
<1>1. Inv => StrictTlsStaysEncrypted
  BY DEF Inv, ThreadOK, StrictTlsStaysEncrypted, ClearSteps
<1> QED  BY <1>1, ExchangeInvariant, PTL

(* query_servers sends at most three queries for each of the attempts that *)
(* DnsAttemptBudget::begin_attempt counts.                                 *)
THEOREM QueriesBounded == Spec => []EmissionsBounded
<1>1. Inv => EmissionsBounded
  BY DEF Inv, BudgetOK, EmissionsBounded
<1> QED  BY <1>1, ExchangeInvariant, PTL

(* query_servers passes REFUSED on only after every server of the scope    *)
(* was tried, or when the attempts, the budget or the time ran out.        *)
THEOREM RefusedOnlyAtTheEnd == Spec => []RefusedAfterAll
<1>1. Inv => RefusedAfterAll
  BY Zenon DEF Inv, WalkOK, RefusedAfterAll
<1> QED  BY <1>1, ExchangeInvariant, PTL

(* A move that stays with its server never raises the forced level.        *)
LEMMA MovesKeepForced ==
    ASSUME TypeOK, NEW t \in Threads, ThreadOK(t), Moves(t),
           ex[t].forced # NoLevel, ex'[t].server = ex[t].server
    PROVE  ex'[t].forced \in Udp .. ex[t].forced
<1>1. pc[t] \in ExchangeSteps  BY NoExchangeFields DEF ThreadOK
<1>2. ex[t].server \in Servers /\ ex[t].forced \in Levels /\ ex[t].level \in Levels
  BY Zenon, <1>1, Entry
<1>3. ~Leaves(t) /\ ~Rests(t) /\ ~Begins(t)
  BY Zenon, <1>1, <1>2, NoExchangeFields, ServersAssumption DEF Leaves, Rests, Begins,
     ExchangeSteps, SendSteps
<1>4. \A l \in Levels : l <= ex[t].forced => l \in Udp .. ex[t].forced
  BY <1>2 DEF Levels, Udp, Edns0, DnssecOk
<1>5. CASE ex'[t].forced = ex[t].forced
  BY <1>2, <1>5 DEF Levels, Udp, Edns0, DnssecOk
<1>6. CASE Retries(t) \/ Repeats(t)
  <2>1. pc[t] \in SentSteps  BY Zenon, <1>6 DEF Retries, Repeats, SentSteps
  <2>2. ex[t].level = ex[t].forced  BY Zenon, <2>1 DEF ThreadOK
  <2>3. ex'[t].forced \in Levels /\ ex'[t].forced <= ex[t].level
    <3>1. Retries(t) => ex'[t].forced \in Levels /\ ex'[t].forced <= ex[t].level  BY Zenon, FieldsKept
    <3>2. Repeats(t) => ex'[t].forced = ex[t].level  BY Zenon, FieldsKept
    <3>3. ex[t].level <= ex[t].level  BY <1>2 DEF Levels, Udp, Edns0, DnssecOk
    <3> QED  BY Zenon, <1>2, <1>6, <3>1, <3>2, <3>3
  <2> QED  BY Zenon, <1>4, <2>2, <2>3
<1>7. Passes(t) => ex'[t].forced = ex[t].forced  BY DEF Passes
<1> QED  BY Zenon, <1>3, <1>5, <1>6, <1>7, FieldsKept DEF Moves

(* Within one call of exchange_with_features the forced level never rises, *)
(* even if reset_server_features or the end of a grace period comes in     *)
(* between.                                                                *)
THEOREM ForcedLevelOnlyFalls == Spec => ForcedLevelNeverRises
<1>1. ASSUME Inv, [Next]_vars  PROVE [ForcedLevelKept]_vars
  <2>0. TypeOK /\ \A t \in Threads : ThreadOK(t)  BY Zenon, <1>1 DEF Inv
  <2>1. SUFFICES ASSUME NEW u \in Threads, ex[u].forced # NoLevel, ex'[u].server = ex[u].server
                 PROVE  ex'[u].forced \in Udp .. ex[u].forced
    BY Zenon DEF ForcedLevelKept
  <2>2. CASE StartQuery(u) \/ Step(u)
    BY Zenon, <2>0, <2>1, <2>2, StepMoves, MovesKeepForced
  <2>3. CASE ex'[u] = ex[u]
    BY <2>0, <2>1, <2>3, Entry DEF Levels, Udp, Edns0, DnssecOk
  <2>4. ASSUME NEW t \in Threads, t # u, StartQuery(t) \/ Step(t)
        PROVE  ex'[u] = ex[u]
    BY Zenon, <2>0, <2>4, OnlyStep, OthersKept
  <2>5. \/ \E t \in Threads : StartQuery(t) \/ Step(t)
        \/ UNCHANGED ex
    BY Zenon, <1>1 DEF Next, SetDnssec, SetDnsOverTls, GraceEnds, reset_server_features, vars
  <2> QED  BY Zenon, <2>2, <2>3, <2>4, <2>5
<1> QED  BY <1>1, ExchangeInvariant, PTL DEF Spec, ForcedLevelNeverRises

(* The transport in use is below the limit of failures.                    *)
Below(x) == x.failed[x.mode] < TransportRetryAttempts

(* record_transport_failure switches and starts counting again at the      *)
(* limit.                                                                  *)
LEMMA TransportStaysBelow ==
    ASSUME NEW x \in TransportStates, Below(x), NEW m \in TransportModes
    PROVE  Below(TransportFailed(x, m)) /\ Below(TransportSucceeded(x, m)) /\ Below(clear_failures(x))
<1>0. TransportRetryAttempts \in Nat \ {0}  BY LimitsAssumption
<1>1. Below(TransportSucceeded(x, m))
  BY <1>0 DEF Below, TransportSucceeded, TransportStates, TransportModes
<1>2. Below(clear_failures(x))
  BY <1>0 DEF Below, clear_failures, NoFailures, TransportStates, TransportModes
<1>3. Below(TransportFailed(x, m))
  BY <1>0 DEF Below, TransportFailed, NoFailures, TransportStates, TransportModes, Bump, OtherMode
<1> QED  BY Zenon, <1>1, <1>2, <1>3

(* Every step keeps every server below the limit.                          *)
LEMMA NextTransport ==
    ASSUME TypeOK, ActiveTransportBelowLimit, [Next]_vars
    PROVE  ActiveTransportBelowLimit'
<1>1. SUFFICES \A s \in Servers : Below(transport'[s])
  BY DEF Below, ActiveTransportBelowLimit
<1>2. \A s \in Servers : Below(transport[s]) /\ transport[s] \in TransportStates
  BY DEF Below, ActiveTransportBelowLimit, TypeOK
<1>3. CASE UNCHANGED transport  BY <1>2, <1>3
<1>4. ASSUME NEW t \in Threads, StartQuery(t) \/ Step(t)  PROVE \A s \in Servers : Below(transport'[s])
  <2>1. SUFFICES ASSUME NEW x, Below(x), transport' = [transport EXCEPT ![Server(t)] = x]
                 PROVE  \A s \in Servers : Below(transport'[s])
    <3>1. TransportMoves(t)  BY Zenon, <1>4, StepTransport
    <3>2. ASSUME pc[t] \in ExchangeSteps, NEW m \in TransportModes
          PROVE  /\ Below(TransportFailed(transport[Server(t)], m))
                 /\ Below(TransportSucceeded(transport[Server(t)], m))
                 /\ Below(clear_failures(transport[Server(t)]))
      BY Zenon, <1>2, <3>2, ServerEntry, TransportStaysBelow
    <3> QED  BY Zenon, <1>3, <3>1, <3>2 DEF TransportMoves
  <2> QED  BY <1>2, <2>1 DEF TypeOK
<1>5. CASE reset_server_features
  BY <1>5, LimitsAssumption DEF reset_server_features, NewTransport, NoFailures, Below,
     TransportModes
<1> QED  BY Zenon, <1>3, <1>4, <1>5 DEF Next, SetDnssec, SetDnsOverTls, GraceEnds, vars, sharedVars

(* The failures of the transport in use never stay at the limit: the       *)
(* failure that reaches it switches the transport and clears the counts.   *)
THEOREM TransportBelowLimit == Spec => []ActiveTransportBelowLimit
<1>1. Init => ActiveTransportBelowLimit
  BY LimitsAssumption DEF Init, ActiveTransportBelowLimit, NewTransport, NoFailures, TransportModes
<1>2. TypeOK /\ ActiveTransportBelowLimit /\ [Next]_vars => ActiveTransportBelowLimit'
  BY NextTransport
<1> QED  BY <1>1, <1>2, TypesHold, PTL DEF Spec

-----------------------------------------------------------------------------
(* The invariant for DNSSEC modes that do not change. A thread has its     *)
(* server's mode; in strict mode it never probes, is never sent back below *)
(* DNSSEC_OK and chooses no lower level.                                   *)
StrictOK(t) ==
    pc[t] \in ExchangeSteps =>
        /\ ex[t].dnssec = dnssec[Server(t)]
        /\ Strict(t) =>
              /\ ~ex[t].probe /\ ex[t].forced \in {NoLevel, DnssecOk}
              /\ pc[t] \notin {"clear", "blame"}
              /\ pc[t] \in SentSteps => ex[t].level = DnssecOk

(* A lowered server has a date; so has one with a bad OPT record. A strict *)
(* server is never lowered.                                                *)
ServerOK(s) ==
    /\ features[s].possible < Best(s, dnssec[s]) => features[s].retry # "never"
    /\ features[s].badOpt => features[s].retry # "never"
    /\ dnssec[s] = "yes" => features[s].possible = DnssecOk /\ ~features[s].badOpt

(* An exchange keeps its server and its mode.                              *)
LEMMA IdentityKept ==
    ASSUME TypeOK, NEW t \in Threads
    PROVE  /\ LearnsMode(t) \/ DecidesTls(t) \/ Sets(t) \/ Passes(t) \/ Receives(t) \/ Switches(t) \/ Repeats(t) =>
                 ex'[t].server = ex[t].server /\ ex'[t].dnssec = ex[t].dnssec /\ ex'[t].probe = ex[t].probe
           /\ Retries(t) => ex'[t].server = ex[t].server /\ ex'[t].dnssec = ex[t].dnssec
<1>1. ex[t] \in Exchanges  BY Entry
<1>2. ASSUME LearnsMode(t) \/ DecidesTls(t)
      PROVE  ex'[t].server = ex[t].server /\ ex'[t].dnssec = ex[t].dnssec /\ ex'[t].probe = ex[t].probe
  BY Zenon, <1>1, <1>2 DEF LearnsMode, DecidesTls, Exchanges
<1>3. ASSUME Sets(t) \/ Passes(t)
      PROVE  ex'[t].server = ex[t].server /\ ex'[t].dnssec = ex[t].dnssec /\ ex'[t].probe = ex[t].probe
  BY Zenon, <1>1, <1>3 DEF Sets, Passes, Exchanges
<1>4. ASSUME Receives(t) \/ Switches(t)
      PROVE  ex'[t].server = ex[t].server /\ ex'[t].dnssec = ex[t].dnssec /\ ex'[t].probe = ex[t].probe
  BY <1>1, <1>4 DEF Receives, Switches, Exchanges
<1>5. ASSUME Repeats(t)
      PROVE  ex'[t].server = ex[t].server /\ ex'[t].dnssec = ex[t].dnssec /\ ex'[t].probe = ex[t].probe
  BY Zenon, <1>1, <1>5 DEF Repeats, Exchanges
<1>6. ASSUME Retries(t)
      PROVE  ex'[t].server = ex[t].server /\ ex'[t].dnssec = ex[t].dnssec
  BY Zenon, <1>1, <1>6 DEF Retries, Exchanges
<1> QED  BY Zenon, <1>2, <1>3, <1>4, <1>5, <1>6

(* The best level is EDNS0 or above, and DNSSEC_OK in strict mode.         *)
LEMMA BestFacts ==
    ASSUME NEW s, NEW m
    PROVE  Best(s, m) \in {Edns0, DnssecOk} /\ (m = "yes" => Best(s, m) = DnssecOk)
BY DEF Best, Preferred

(* In strict mode possible_level can only say DNSSEC_OK.                   *)
LEMMA StrictLevel ==
    ASSUME TypeOK, NEW t \in Threads, StrictOK(t), pc[t] = "level", Strict(t), ServerOK(Server(t))
    PROVE  ChosenLevel(t) = DnssecOk
<1>0. pc[t] \in ExchangeSteps  BY DEF ExchangeSteps
<1>1. ex[t].forced \in {NoLevel, DnssecOk} /\ dnssec[Server(t)] = "yes"
  BY Zenon, <1>0 DEF StrictOK, Strict
<1>2. CASE ex[t].forced # NoLevel  BY <1>1, <1>2 DEF ChosenLevel
<1>3. CASE ex[t].forced = NoLevel
  <2> DEFINE f == features[Server(t)]
             g == possible_level(f, DnssecOk)
  <2>1. f \in FeatureStates /\ f.possible = DnssecOk /\ ~f.badOpt
    BY <1>0, <1>1, ServerEntry DEF ServerOK
  <2>2. g \in FeatureStates /\ (\/ g.possible = DnssecOk
                                \/ g.possible <= DnssecOk /\ (g.possible < DnssecOk => f.badOpt \/ g.possible = f.possible))
    <3>1. DnssecOk \in Levels  BY DEF Levels
    <3> QED  BY Zenon, <2>1, <3>1, PossibleLevel
  <2>3. g.possible \in Levels  BY <2>2 DEF FeatureStates
  <2>4. g.possible = DnssecOk
    <3> HIDE DEF g, f
    <3> QED  BY <2>1, <2>2, <2>3 DEF Levels, Udp, Edns0, DnssecOk
  <2>5. Best(Server(t), ex[t].dnssec) = DnssecOk  BY BestFacts DEF Strict
  <2> QED  BY Zenon, <1>3, <2>4, <2>5 DEF ChosenLevel, Server
<1> QED  BY Zenon, <1>2, <1>3

(* Every move preserves the invariant of a strict thread.                  *)
LEMMA MovesKeepStrict ==
    ASSUME TypeOK, NEW t \in Threads, ThreadOK(t), StrictOK(t), Moves(t), UNCHANGED dnssec,
           \A s \in Servers : ServerOK(s)
    PROVE  StrictOK(t)'
<1>s. /\ SentSteps = {"tls", "udp", "tcp", "fallback", "clear", "lost", "blame", "packet"}
      /\ ExchangeSteps = SentSteps \cup {"modes", "loop", "level"}
  BY DEF SentSteps, ExchangeSteps, SendSteps
<1> USE DEF StrictOK, Strict, Server
<1>1. CASE Begins(t)
  <2>1. PICK s \in Servers : ex'[t] = [NoExchange EXCEPT !.server = s, !.dnssec = dnssec[s]]
    BY Zenon, <1>1 DEF Begins
  <2>2. ex'[t].server = s /\ ex'[t].dnssec = dnssec[s] /\ ex'[t].forced = NoLevel /\ ~ex'[t].probe
    BY <2>1 DEF NoExchange
  <2>3. pc'[t] = "modes" /\ dnssec' = dnssec  BY <1>1 DEF Begins
  <2> QED  BY Zenon, <1>s, <2>2, <2>3
<1>2. CASE Rests(t) \/ Leaves(t)
  <2>1. pc'[t] \notin ExchangeSteps  BY <1>2, <1>s DEF Rests, Leaves
  <2> QED  BY Zenon, <2>1
<1>3. CASE LearnsMode(t)
  BY Zenon, <1>3, <1>s, FieldsKept, IdentityKept DEF LearnsMode
<1>4. CASE DecidesTls(t)
  BY Zenon, <1>4, <1>s, FieldsKept, IdentityKept DEF DecidesTls
<1>5. CASE Sets(t)
  <2>0. pc[t] = "level" /\ pc[t] \in ExchangeSteps  BY <1>5, <1>s DEF Sets
  <2>1. Strict(t) => ex'[t].level = DnssecOk
    BY Zenon, <1>5, <2>0, StrictLevel, ServerEntry, FieldsKept
  <2>2. pc'[t] \in {"tls", "udp", "tcp"}
    BY <1>5 DEF Sets, TransportModes
  <2> QED  BY Zenon, <1>5, <2>0, <2>1, <2>2, FieldsKept, IdentityKept
<1>6. CASE Passes(t)
  BY Zenon, <1>6, <1>s DEF Passes
<1>7. CASE Receives(t)
  BY Zenon, <1>7, <1>s, FieldsKept, IdentityKept DEF Receives
<1>8. CASE Retries(t)
  BY Zenon, <1>8, <1>s, FieldsKept, IdentityKept DEF Retries
<1>9. CASE Switches(t)
  BY Zenon, <1>9, <1>s, FieldsKept, IdentityKept DEF Switches
<1>10. CASE Repeats(t)
  BY Zenon, <1>10, <1>s, FieldsKept, IdentityKept DEF Repeats
<1> QED  BY Zenon, <1>1, <1>2, <1>3, <1>4, <1>5, <1>6, <1>7, <1>8, <1>9, <1>10 DEF Moves

(* That a server omits RRSIG records is not forgotten by a thread.         *)
LEMMA OmissionsGrow ==
    ASSUME TypeOK, NEW t \in Threads, StartQuery(t) \/ Step(t), NEW s \in Servers, omitsRrsig[s]
    PROVE  omitsRrsig'[s]
<1>1. CASE RecordMissingRootRrsig(t)
  BY <1>1 DEF RecordMissingRootRrsig, TypeOK
<1>2. CASE StartQuery(t) \/ NextServer(t) \/ Conclude(t) \/ ReadTlsMode(t) \/ CheckTls(t) \/ ChooseLevel(t)
           \/ ExchangeTls(t) \/ ExchangeUdp(t) \/ LoseUdp(t) \/ ClearFailures(t) \/ LoseUdpTransport(t)
  BY Zenon, <1>2 DEF StartQuery, NextServer, Conclude, ReadTlsMode, CheckTls, ChooseLevel,
     ExchangeTls,
                     ExchangeUdp, LoseUdp, ClearFailures, LoseUdpTransport, sharedVars
<1>3. CASE ExchangeTcp(t) \/ LoseTcp(t) \/ LoseFallback(t) \/ BlameLevel(t) \/ RejectPacket(t) \/ RecordBadOpt(t)
           \/ RecordDoOff(t) \/ HandleServfail(t) \/ ProbeLower(t) \/ Accept(t)
  BY Zenon, <1>3 DEF ExchangeTcp, LoseTcp, LoseFallback, BlameLevel, RejectPacket, RecordBadOpt,
     RecordDoOff,
                     Relearn, HandleServfail, ProbeLower, Accept, sharedVars
<1> QED  BY Zenon, <1>1, <1>2, <1>3 DEF Step

(* What ServerOK says of the state f of a server whose best level is b.    *)
StateOK(f, b, strict) ==
    /\ f.possible < b => f.retry # "never"
    /\ f.badOpt => f.retry # "never"
    /\ strict => f.possible = DnssecOk /\ ~f.badOpt

(* Lowering, keeping and possible_level preserve it,                       *)
LEMMA LowersOK ==
    ASSUME NEW f \in FeatureStates, NEW g, NEW b \in {Edns0, DnssecOk}, StateOK(f, b, FALSE), Lowers(f, g)
    PROVE  StateOK(g, b, FALSE)
<1>1. f.possible \in Levels  BY DEF FeatureStates
<1>2. Udp < b  BY DEF Udp, Edns0, DnssecOk
<1> QED  BY <1>1, <1>2 DEF StateOK, Lowers

LEMMA KeepsOK ==
    ASSUME NEW f, NEW g, NEW b, NEW strict \in BOOLEAN, StateOK(f, b, strict), Keeps(f, g)
    PROVE  StateOK(g, b, strict)
BY DEF StateOK, Keeps

LEMMA PossibleOK ==
    ASSUME NEW f \in FeatureStates, NEW b \in {Edns0, DnssecOk}, NEW strict \in BOOLEAN,
           StateOK(f, b, strict), strict => b = DnssecOk
    PROVE  StateOK(possible_level(f, b), b, strict)
<1> DEFINE g == possible_level(f, b)
<1>0. b \in Levels  BY DEF Levels
<1>1. /\ g \in FeatureStates
      /\ \/ g.possible = b /\ ~g.badOpt
         \/ /\ g.retry = f.retry /\ g.badOpt = f.badOpt
            /\ g.possible <= b
            /\ g.possible < b => f.badOpt \/ g.possible = f.possible
  BY Zenon, <1>0, PossibleLevel
<1>2. g.possible \in Levels /\ f.possible \in Levels  BY <1>1 DEF FeatureStates
<1>g. SUFFICES StateOK(g, b, strict)  OBVIOUS
<1> HIDE DEF g
<1>3. CASE g.possible = b /\ ~g.badOpt
  <2>1. ~(g.possible < b)  BY <1>0, <1>3 DEF Levels, Udp, Edns0, DnssecOk
  <2> QED  BY Zenon, <1>3, <2>1 DEF StateOK
<1>4. CASE /\ g.retry = f.retry /\ g.badOpt = f.badOpt
           /\ g.possible <= b
           /\ g.possible < b => f.badOpt \/ g.possible = f.possible
  <2>1. g.possible < b => g.retry # "never"  BY <1>4 DEF StateOK
  <2>2. g.badOpt => g.retry # "never"  BY <1>4 DEF StateOK
  <2>3. strict => g.possible = DnssecOk /\ ~g.badOpt
    BY <1>0, <1>2, <1>4 DEF StateOK, Levels, Udp, Edns0, DnssecOk
  <2> QED  BY Zenon, <2>1, <2>2, <2>3 DEF StateOK
<1> QED  BY Zenon, <1>1, <1>3, <1>4 DEF g

(* and so does a lower best level.                                         *)
LEMMA LowerBestOK ==
    ASSUME NEW f \in FeatureStates, NEW b \in {Edns0, DnssecOk}, NEW c \in {Edns0, DnssecOk}, c <= b,
           NEW strict \in BOOLEAN, StateOK(f, b, strict)
    PROVE  StateOK(f, c, strict)
<1>1. f.possible \in Levels  BY DEF FeatureStates
<1> QED  BY <1>1 DEF StateOK, Levels, Udp, Edns0, DnssecOk

(* A thread's step preserves what is known of every server.                *)
LEMMA StepKeepsServers ==
    ASSUME TypeOK, NEW t \in Threads, StartQuery(t) \/ Step(t), StrictOK(t), UNCHANGED dnssec,
           \A s \in Servers : ServerOK(s), NEW s \in Servers
    PROVE  ServerOK(s)'
<1> DEFINE b == Best(s, dnssec[s])
           c == Best(s, dnssec[s])'
           strict == dnssec[s] = "yes"
           f == features[s]
<1>1. f \in FeatureStates /\ StateOK(f, b, strict) /\ strict \in BOOLEAN
  BY DEF ServerOK, StateOK, TypeOK
<1>2. b \in {Edns0, DnssecOk} /\ c \in {Edns0, DnssecOk} /\ (strict => b = DnssecOk)
  BY BestFacts DEF Best, Preferred
<1>3. c <= b
  <2>1. omitsRrsig[s] => omitsRrsig'[s]  BY Zenon, OmissionsGrow
  <2> QED  BY <2>1 DEF Best, Preferred, Edns0, DnssecOk
<1>4. SUFFICES StateOK(features'[s], b, strict) /\ features'[s] \in FeatureStates
  BY Zenon, <1>2, <1>3, LowerBestOK DEF ServerOK, StateOK
<1>5. FeatureMoves(t)  BY Zenon, StepFeatures
<1>6. features'[s] \in FeatureStates
  BY <1>5, FeaturesTyped
<1>7. CASE features'[s] = features[s]  BY Zenon, <1>1, <1>6, <1>7
<1>8. ASSUME s = Server(t), pc[t] \in ExchangeSteps, NEW g, features' = [features EXCEPT ![s] = g],
             \/ g = possible_level(f, Best(s, ex[t].dnssec))
             \/ Lowers(f, g) /\ (~Strict(t) \/ pc[t] = "blame" \/ ex[t].probe)
             \/ Keeps(f, g)
      PROVE  StateOK(g, b, strict)
  <2>1. ex[t].dnssec = dnssec[s]  BY Zenon, <1>8 DEF StrictOK
  <2>2. CASE g = possible_level(f, b)
    BY Zenon, <1>1, <1>2, <2>2, PossibleOK
  <2>3. CASE Keeps(f, g)
    BY Zenon, <1>1, <2>3, KeepsOK
  <2>4. CASE Lowers(f, g) /\ (~Strict(t) \/ pc[t] = "blame" \/ ex[t].probe)
    <3>1. ~strict  BY Zenon, <1>8, <2>1, <2>4 DEF StrictOK, Strict
    <3> HIDE DEF b, f, strict
    <3>2. StateOK(f, b, FALSE)  BY Zenon, <1>1 DEF StateOK
    <3>3. StateOK(g, b, FALSE)  BY Zenon, <1>1, <1>2, <2>4, <3>2, LowersOK
    <3> QED  BY Zenon, <3>1, <3>3 DEF StateOK
  <2> QED  BY Zenon, <1>8, <2>1, <2>2, <2>3, <2>4
<1>9. CASE features' # features
  <2>1. PICK g :
            /\ pc[t] \in ExchangeSteps /\ features' = [features EXCEPT ![Server(t)] = g]
            /\ \/ g = possible_level(features[Server(t)], Best(Server(t), ex[t].dnssec))
               \/ Lowers(features[Server(t)], g) /\ (~Strict(t) \/ pc[t] = "blame" \/ ex[t].probe)
               \/ Keeps(features[Server(t)], g)
    BY Zenon, <1>5, <1>9 DEF FeatureMoves
  <2>2. s # Server(t) => features'[s] = features[s]
    BY <2>1 DEF TypeOK
  <2>3. s = Server(t) => features'[s] = g
    BY <2>1 DEF TypeOK
  <2> QED  BY Zenon, <1>6, <1>7, <1>8, <2>1, <2>2, <2>3
<1> QED  BY Zenon, <1>7, <1>9

(* The inductive invariant while DNSSEC modes do not change.               *)
FixedInv ==
    /\ Inv
    /\ \A t \in Threads : StrictOK(t)
    /\ \A s \in Servers : ServerOK(s)

(* It holds at first,                                                      *)
LEMMA InitFixed == Init => FixedInv
<1> SUFFICES ASSUME Init PROVE FixedInv  OBVIOUS
<1>1. Inv  BY InitInv
<1>2. \A t \in Threads : StrictOK(t)
  BY DEF Init, StrictOK, ExchangeSteps, SendSteps
<1>3. ASSUME NEW s \in Servers  PROVE ServerOK(s)
  <2>1. features[s].possible = DnssecOk /\ ~features[s].badOpt  BY DEF Init, NewFeatures
  <2>2. ~(features[s].possible < Best(s, dnssec[s]))
    BY <2>1, BestFacts DEF Edns0, DnssecOk
  <2> QED  BY <2>1, <2>2 DEF ServerOK
<1> QED  BY <1>1, <1>2, <1>3 DEF FixedInv

(* and every step that leaves the DNSSEC modes alone preserves it.         *)
LEMMA NextFixed ==
    ASSUME FixedInv, [Next]_vars, [UNCHANGED dnssec]_vars
    PROVE  FixedInv'
<1>0. UNCHANGED dnssec  BY Zenon DEF vars, modeVars
<1>1. Inv /\ Inv' /\ TypeOK  BY Zenon, NextInv DEF FixedInv, Inv
<1>2. /\ \A t \in Threads : StrictOK(t) /\ ThreadOK(t)
      /\ \A s \in Servers : ServerOK(s)
  BY Zenon DEF FixedInv, Inv
<1>3. ASSUME NEW u \in Threads, pc'[u] = pc[u], ex'[u] = ex[u]  PROVE StrictOK(u)'
  <2>1. StrictOK(u)  BY Zenon, <1>2
  <2> QED  BY Zenon, <1>0, <1>3, <2>1 DEF StrictOK, Strict, Server
<1>4. ASSUME NEW t \in Threads, StartQuery(t) \/ Step(t)  PROVE FixedInv'
  <2>1. StrictOK(t)'  BY Zenon, <1>0, <1>1, <1>2, <1>4, StepMoves, MovesKeepStrict
  <2>2. ASSUME NEW u \in Threads, u # t  PROVE StrictOK(u)'
    BY Zenon, <1>1, <1>3, <1>4, <2>2, OnlyStep, OthersKept
  <2>3. ASSUME NEW s \in Servers  PROVE ServerOK(s)'
    BY Zenon, <1>0, <1>1, <1>2, <1>4, <2>3, StepKeepsServers
  <2> QED  BY Zenon, <1>1, <2>1, <2>2, <2>3 DEF FixedInv
<1>5. ASSUME UNCHANGED <<pc, ex>>, \A s \in Servers : ServerOK(s)'  PROVE FixedInv'
  BY Zenon, <1>1, <1>3, <1>5 DEF FixedInv
<1>6. CASE UNCHANGED <<pc, ex, features, omitsRrsig>>
  <2>1. \A s \in Servers : ServerOK(s)'
    BY Zenon, <1>0, <1>2, <1>6 DEF ServerOK, Best
  <2> QED  BY Zenon, <1>5, <1>6, <2>1
<1>7. ASSUME NEW r \in Servers, GraceEnds(r)  PROVE FixedInv'
  <2>1. UNCHANGED <<pc, ex, omitsRrsig>>  BY Zenon, <1>7 DEF GraceEnds
  <2>2. ASSUME NEW s \in Servers  PROVE ServerOK(s)'
    <3>1. /\ features'[s].possible = features[s].possible /\ features'[s].badOpt = features[s].badOpt
          /\ features[s].retry # "never" => features'[s].retry # "never"
      <4>1. features[s] \in FeatureStates /\ features \in [Servers -> FeatureStates]  BY <1>1 DEF TypeOK
      <4>2. features' = features \/ features' = [features EXCEPT ![r].retry = "due"]
        BY Zenon, <1>7 DEF GraceEnds
      <4> QED  BY <4>1, <4>2 DEF FeatureStates
    <3>2. ServerOK(s)  BY Zenon, <1>2
    <3> QED  BY Zenon, <1>0, <2>1, <3>1, <3>2 DEF ServerOK, Best
  <2> QED  BY Zenon, <1>5, <2>1, <2>2
<1>8. CASE reset_server_features
  <2>1. UNCHANGED <<pc, ex>>  BY Zenon, <1>8 DEF reset_server_features
  <2>2. ASSUME NEW s \in Servers  PROVE ServerOK(s)'
    <3>1. features'[s].possible = DnssecOk /\ ~features'[s].badOpt
      BY <1>8 DEF reset_server_features, NewFeatures
    <3>2. ~(features'[s].possible < Best(s, dnssec[s])')
      BY <3>1 DEF Best, Preferred, Edns0, DnssecOk
    <3> QED  BY Zenon, <3>1, <3>2 DEF ServerOK
  <2> QED  BY Zenon, <1>5, <2>1, <2>2
<1>9. CASE \E s \in Servers : \/ \E m \in DnssecModes : SetDnssec(s, m)
                              \/ \E m \in TlsModes : SetDnsOverTls(s, m)
  BY Zenon, <1>6, <1>9 DEF SetDnssec, SetDnsOverTls, sharedVars
<1>10. CASE UNCHANGED vars
  BY Zenon, <1>6, <1>10 DEF vars, sharedVars
<1> QED  BY Zenon, <1>4, <1>7, <1>8, <1>9, <1>10 DEF Next

(* The specification with DNSSEC modes that stay; TLS modes may change.    *)
FixedSpec == Spec /\ [][UNCHANGED dnssec]_vars

(* While DNSSEC modes stay, the inductive invariant holds for any number   *)
(* of threads that learn about the same servers.                           *)
THEOREM FixedModeInvariant == FixedSpec => []FixedInv
<1>1. FixedInv /\ [Next]_vars /\ [UNCHANGED dnssec]_vars => FixedInv'  BY NextFixed
<1> QED  BY <1>1, InitFixed, PTL DEF Spec, FixedSpec

(* While DNSSEC modes stay, a server that is asked below its best level    *)
(* always has a date at which possible_level tries the best level again:   *)
(* no race of record_failure, record_bad_opt and possible_level leaves it  *)
(* there for good.                                                         *)
THEOREM LoweredServersRecover == FixedSpec => []Recoverable
<1>1. FixedInv => Recoverable  BY Zenon DEF FixedInv, ServerOK, Recoverable
<1> QED  BY <1>1, FixedModeInvariant, PTL

(* While DNSSEC modes stay, every query to a server with DNSSEC=yes goes   *)
(* out at level DNSSEC_OK, whatever other threads learn from the server    *)
(* meanwhile.                                                              *)
THEOREM StrictModeAsksForDnssec == FixedSpec => []StrictAsksForDnssec
<1>1. FixedInv => StrictAsksForDnssec
  BY Zenon DEF FixedInv, StrictOK, StrictAsksForDnssec, SentSteps, ExchangeSteps
<1> QED  BY <1>1, FixedModeInvariant, PTL
=============================================================================
