------------------------ MODULE ResolverQuery_proofs ------------------------
(***************************************************************************)
(* The proofs about ResolverQuery: every action preserves the inductive    *)
(* invariant IInv, the safety properties that follow from it, and that     *)
(* query_on_link implements QueryService.                                  *)
(***************************************************************************)
EXTENDS ResolverQuery, TLAPS

(***************************************************************************)
(* Packets, queries, keys and entries, and what a step leaves alone.       *)
(***************************************************************************)

(* Versions are ordered.                                                   *)
LEMMA AtMostThrough ==
    ASSUME NEW a \in Nat, NEW b \in Nat, NEW c \in Nat, a <= b, b <= c
    PROVE  a <= c
OBVIOUS

(* The replies that are not packets can be told from packets.              *)
LEMMA PacketFacts ==
    /\ Nothing \notin Answers /\ Failed \notin Answers /\ Failed # Nothing
    /\ Nothing.kind # "answer"
    /\ \A v \in Verdicts : v.kind # "answer"
    /\ \A a \in Answers : a.kind = "answer" /\ a.scopes \in Nat /\ a.late \in BOOLEAN
BY DEF Answers, Nothing, Failed, Refused, Local, Verdicts

(* rewrite_id changes the transaction ID and nothing else.                 *)
LEMMA Retagged ==
    ASSUME NEW a \in Answers, NEW i \in Nat
    PROVE  /\ [a EXCEPT !.id = i] \in Answers
           /\ [a EXCEPT !.id = i].id = i
           /\ [a EXCEPT !.id = i].question = a.question
           /\ [a EXCEPT !.id = i].source = a.source
           /\ [a EXCEPT !.id = i].link = a.link
           /\ [a EXCEPT !.id = i].cd = a.cd
           /\ [a EXCEPT !.id = i].scopes = a.scopes
           /\ [a EXCEPT !.id = i].late = a.late
BY Zenon DEF Answers

(* So does marking a packet change the mark only.                          *)
LEMMA Marked ==
    ASSUME NEW a \in Answers, NEW b \in BOOLEAN
    PROVE  /\ [a EXCEPT !.late = b] \in Answers
           /\ [a EXCEPT !.late = b].late = b
           /\ [a EXCEPT !.late = b].id = a.id
           /\ [a EXCEPT !.late = b].question = a.question
           /\ [a EXCEPT !.late = b].source = a.source
           /\ [a EXCEPT !.late = b].scopes = a.scopes
BY Zenon DEF Answers

(* What goes into the cache.                                               *)
LEMMA Filed ==
    ASSUME NEW a \in Answers, NEW b \in BOOLEAN
    PROVE  /\ [a EXCEPT !.id = NeutralId, !.source = "cache", !.late = b] \in Answers
           /\ [a EXCEPT !.id = NeutralId, !.source = "cache", !.late = b].late = b
           /\ [a EXCEPT !.id = NeutralId, !.source = "cache", !.late = b].question = a.question
           /\ [a EXCEPT !.id = NeutralId, !.source = "cache", !.late = b].source = "cache"
           /\ [a EXCEPT !.id = NeutralId, !.source = "cache", !.late = b].scopes = a.scopes
BY Zenon DEF Answers, NeutralId

(* A query has a 16-bit ID, a question, a link and a flag.                 *)
LEMMA AskFacts ==
    ASSUME NEW a \in Asks
    PROVE  /\ a.id \in Nat /\ a.question \in Questions /\ a.link \in Links
           /\ a.cd \in BOOLEAN
<1>1. PICK q \in Queries, i \in Ids :
         a = [question |-> q.question, cd |-> q.cd, link |-> q.link, mode |-> q.mode, id |-> i]
  BY DEF Asks
<1>2. q \in QueryType /\ i \in Nat
  BY Zenon, QueriesAssumption, IdsAssumption
<1> QED  BY Zenon, <1>1, <1>2 DEF QueryType

(* A key is one of Keys and never that of an unused entry.                 *)
LEMMA KeyFacts ==
    ASSUME TypeOK, ThreadInv, NEW t \in Threads, pc[t] \in RoutedSteps
    PROVE  KeyOf(t) \in Keys /\ KeyOf(t).gen >= 1 /\ KeyOf(t).question = query[t].question
               /\ KeyOf(t).link = query[t].link /\ KeyOf(t).cd = query[t].cd
               /\ KeyOf(t).gen = gen[t]
<1>1. query[t] \in Asks /\ gen[t] \in Nat /\ gen[t] >= 1
  BY Zenon DEF ThreadInv, RoutedSteps, LeaderSteps, TypeOK
<1> QED  BY Zenon, <1>1, AskFacts DEF KeyOf, Keys

(* Publishing writes two fields of the entry.                              *)
LEMMA FlightFields ==
    ASSUME NEW r \in Flights, NEW s \in Answers \cup {Nothing}
    PROVE  /\ [r EXCEPT !.response = s, !.running = FALSE] \in Flights
           /\ [r EXCEPT !.response = s, !.running = FALSE].response = s
           /\ [r EXCEPT !.response = s, !.running = FALSE].running = FALSE
           /\ [r EXCEPT !.response = s, !.running = FALSE].listed = r.listed
           /\ [r EXCEPT !.response = s, !.running = FALSE].key = r.key
BY Zenon DEF Flights

(* Dropping an Arc: entries that others hold, or that are listed, stay.    *)
LEMMA ReleaseFacts ==
    ASSUME NEW t \in Threads, entry[t] \in Entries, NEW f \in [Entries -> Flights]
    PROVE  /\ Released(t, f) \in [Entries -> Flights]
           /\ \A u \in Threads \ {t} :
                 entry[u] \in Entries => Released(t, f)[entry[u]] = f[entry[u]]
           /\ \A e \in Entries :
                 Released(t, f)[e] = f[e] \/ (Released(t, f)[e] = Unused /\ ~Unused.listed)
<1>1. Unused \in Flights /\ ~Unused.listed
  BY Zenon DEF Unused, Flights
<1> HIDE DEF Unused
<1> QED  BY Zenon, <1>1 DEF Released

(* What a step of thread t leaves alone.                                   *)

Others(t) ==
    \A u \in Threads \ {t} :
        /\ pc'[u] = pc[u] /\ query'[u] = query[u] /\ reply'[u] = reply[u]
        /\ gen'[u] = gen[u] /\ scopes'[u] = scopes[u] /\ entry'[u] = entry[u]
        /\ floor'[u] = floor[u] /\ since'[u] = since[u]

(* A thread assigns its own locals only.                                   *)
LEMMA OthersUnchanged ==
    ASSUME TypeOK, NEW t \in Threads, Begin(t) \/ Step(t)
    PROVE  Others(t)
<1> USE DEF TypeOK, Others, GoTo, Finish
<1>1. CASE Begin(t)           BY Zenon, <1>1 DEF Begin
<1>2. CASE AnswerLocally(t)   BY <1>2 DEF AnswerLocally
<1>3. CASE LoadGeneration(t)  BY Zenon, <1>3 DEF LoadGeneration
<1>4. CASE LookupCache(t)     BY <1>4 DEF LookupCache
<1>5. CASE SelectScopes(t)    BY Zenon, <1>5 DEF SelectScopes
<1>6. CASE BeginFlight(t)     BY Zenon, <1>6 DEF BeginFlight
<1>7. CASE Exchange(t)        BY Zenon, <1>7 DEF Exchange
<1>8. CASE InsertCache(t)     BY Zenon, <1>8 DEF InsertCache
<1>9. CASE ServeStale(t)      BY Zenon, <1>9 DEF ServeStale
<1>10. CASE Publish(t)        BY Zenon, <1>10 DEF Publish
<1>11. CASE Remove(t)         BY Zenon, <1>11 DEF Remove
<1>12. CASE Wait(t)           BY <1>12 DEF Wait
<1> QED  BY Zenon, <1>1, <1>2, <1>3, <1>4, <1>5, <1>6, <1>7, <1>8, <1>9, <1>10, <1>11, <1>12 DEF Step

(* A packet that suits a thread still does as long as the thread keeps its *)
(* query and its floor.                                                    *)
LEMMA SuitsStable ==
    ASSUME NEW a, NEW u, Suits(a, u), query'[u] = query[u], floor'[u] = floor[u],
           table \in Nat, table' \in Nat, table <= table', a.scopes \in Nat
    PROVE  Suits(a, u)'
BY DEF Suits

(* Threads that hold the same entry sent the same query under the same     *)
(* generation: what suits one suits the other.                             *)
LEMMA SameEntrySuits ==
    ASSUME IInv, NEW t \in Threads, NEW u \in Threads, HasFlight(t), HasFlight(u),
           entry[t] = entry[u], NEW a, Suits(a, t)
    PROVE  Suits(a, u)
<1>1. KeyOf(t) = KeyOf(u) /\ pc[t] \in RoutedSteps /\ pc[u] \in RoutedSteps
  BY Zenon DEF IInv, FlightInv, KeyInv, HasFlight, RoutedSteps
<1>2. /\ query[t].question = query[u].question /\ query[t].link = query[u].link
      /\ query[t].cd = query[u].cd /\ gen[t] = gen[u]
  BY <1>1, KeyFacts DEF IInv
<1>3. floor[t] = floor[u]
  BY Zenon, <1>1, <1>2 DEF IInv, RouteInv, SameFloor
<1> QED  BY Zenon, <1>2, <1>3 DEF Suits

(* The flights are untouched by a step of a thread outside of them.        *)
LEMMA OutsideFlights ==
    ASSUME IInv, NEW t \in Threads, Others(t), flight' = flight, TypeOK',
           ~HasFlight(t), ~HasFlight(t)'
    PROVE  FlightInv'
<1> USE DEF Others, IInv, FlightInv, HasFlight
<1>1. KeyInv'     BY DEF KeyInv, KeyOf
<1>2. LeaderInv'  BY DEF LeaderInv
<1>3. WaitInv'    BY DEF WaitInv
<1>4. ListedInv'  BY DEF ListedInv
<1>5. OneLeader'  BY Zenon DEF OneLeader
<1>6. OneEntry'   BY Zenon DEF OneEntry
<1> QED  BY Zenon, <1>1, <1>2, <1>3, <1>4, <1>5, <1>6

(* Nor by a leader that moves on without publishing.                       *)
LEMMA LeaderMoves ==
    ASSUME IInv, NEW t \in Threads, Others(t), flight' = flight, TypeOK',
           pc[t] \in LeaderSteps \ {"remove"}, pc'[t] \in LeaderSteps \ {"remove"},
           UNCHANGED <<entry, gen, query>>
    PROVE  FlightInv'
<1> USE DEF Others, IInv, FlightInv, HasFlight
<1>1. KeyInv'     BY Zenon DEF KeyInv, KeyOf
<1>2. LeaderInv'  BY DEF LeaderInv
<1>3. WaitInv'    BY DEF WaitInv
<1>4. ListedInv'  BY DEF ListedInv
<1>5. OneLeader'  BY Zenon DEF OneLeader
<1>6. OneEntry'   BY Zenon DEF OneEntry
<1> QED  BY Zenon, <1>1, <1>2, <1>3, <1>4, <1>5, <1>6

(* Nor by the writers or by time.                                          *)
LEMMA FlightsUnchanged ==
    ASSUME FlightInv, UNCHANGED <<pc, entry, gen, query, flight>>
    PROVE  FlightInv'
BY Zenon DEF FlightInv, KeyInv, LeaderInv, WaitInv, ListedInv, OneLeader, OneEntry, HasFlight, KeyOf

(* A thread's step that loads no generation and selects no scopes keeps    *)
(* RouteInv.                                                               *)
LEMMA RouteQuiet ==
    ASSUME IInv, NEW t \in Threads, Others(t), TypeOK',
           UNCHANGED <<routeVars, writerVars, floor, since>>,
           pc'[t] \in RoutedSteps => pc[t] \in RoutedSteps /\ gen'[t] = gen[t],
           HasFlight(t)' \/ pc'[t] = "begin" =>
               (HasFlight(t) \/ pc[t] = "begin") /\ scopes'[t] = scopes[t]
    PROVE  RouteInv'
<1> USE DEF Others, IInv, RouteInv, routeVars, writerVars
<1>1. VersionInv'  BY Zenon DEF VersionInv
<1>2. FloorInv'    BY DEF FloorInv, HasFlight
<1>3. SameFloor'   BY DEF SameFloor
<1> QED  BY Zenon, <1>1, <1>2, <1>3

(* The packets of the other threads, when t leaves the flights alone.      *)
LEMMA OtherPackets ==
    ASSUME IInv, NEW t \in Threads, Others(t), TypeOK', UNCHANGED <<flight, table>>,
           NEW u \in Threads \ {t}
    PROVE  PacketOK(u)'
<1>1. PacketOK(u)
  BY Zenon DEF IInv, PacketInv
<1>2. /\ pc'[u] = pc[u] /\ query'[u] = query[u] /\ reply'[u] = reply[u] /\ scopes'[u] = scopes[u]
      /\ entry'[u] = entry[u] /\ floor'[u] = floor[u] /\ since'[u] = since[u]
  BY Zenon DEF Others
<1>3. \A a : Suits(a, u)' <=> Suits(a, u)
  BY Zenon, <1>2 DEF Suits
<1>4. Fetched(u)' = Fetched(u) /\ (HasFlight(u)' <=> HasFlight(u))
  BY Zenon, <1>2 DEF Fetched, HasFlight
<1>5. flight'[entry'[u]] = flight[entry[u]]
  BY Zenon, <1>2
<1> QED  BY Zenon, <1>1, <1>2, <1>3, <1>4, <1>5 DEF PacketOK

(* The packets of all threads, when no thread moves.                       *)
LEMMA PacketsUnmoved ==
    ASSUME IInv, UNCHANGED <<threadVars, flight>>, table' \in Nat, table <= table',
           NEW u \in Threads
    PROVE  PacketOK(u)'
<1>1. PacketOK(u)
  BY Zenon DEF IInv, PacketInv
<1>2. \A a \in Answers : Suits(a, u) => Suits(a, u)'
  BY Zenon, PacketFacts, SuitsStable DEF threadVars, IInv, TypeOK
<1>3. Fetched(u)' = Fetched(u) /\ HasFlight(u)' = HasFlight(u)
  BY Zenon DEF Fetched, HasFlight, threadVars
<1> QED  BY Zenon, <1>1, <1>2, <1>3 DEF PacketOK, threadVars

(***************************************************************************)
(* Every action of a thread preserves IInv.                                *)
(***************************************************************************)

(* A query begins: nothing of an earlier one is left in reply.             *)
LEMMA BeginStep ==
    ASSUME IInv, NEW t \in Threads, Begin(t)
    PROVE  IInv'
<1> USE DEF Begin, GoTo
<1>1. TypeOK'
  BY DEF IInv, TypeOK, Steps, RoutedSteps, routeVars, writerVars
<1>2. Others(t)
  BY Zenon, OthersUnchanged DEF IInv
<1>3. ThreadInv'
  BY Zenon, <1>2 DEF IInv, TypeOK, ThreadInv, Others, HasFlight, RoutedSteps, LeaderSteps, routeVars
<1>4. FlightInv'
  BY Zenon, <1>1, <1>2, OutsideFlights DEF IInv, TypeOK, HasFlight, LeaderSteps
<1>5. RouteInv'
  <2>1. VersionInv'
    BY Zenon DEF IInv, RouteInv, VersionInv, routeVars, writerVars
  <2>2. FloorInv'
    BY <1>2 DEF IInv, TypeOK, RouteInv, FloorInv, Others, HasFlight, RoutedSteps, LeaderSteps,
                routeVars, writerVars
  <2>3. SameFloor'
    BY <1>2 DEF IInv, TypeOK, RouteInv, SameFloor, Others, RoutedSteps, LeaderSteps
  <2> QED  BY Zenon, <2>1, <2>2, <2>3 DEF RouteInv
<1>6. PacketInv'
  <2>1. CacheInv'
    BY Zenon DEF IInv, PacketInv, CacheInv, writerVars
  <2>2. PacketOK(t)'
    BY Zenon, PacketFacts DEF IInv, TypeOK, PacketOK, HasFlight, LeaderSteps
  <2>3. ASSUME NEW u \in Threads \ {t}  PROVE PacketOK(u)'
    BY Zenon, <1>1, <1>2, OtherPackets DEF routeVars
  <2> QED  BY Zenon, <2>1, <2>2, <2>3 DEF PacketInv
<1> QED  BY Zenon, <1>1, <1>3, <1>4, <1>5, <1>6 DEF IInv

(* REFUSED, a local answer, or on to routing.                              *)
LEMMA AnswerLocallyStep ==
    ASSUME IInv, NEW t \in Threads, AnswerLocally(t)
    PROVE  IInv'
<1> USE DEF AnswerLocally, GoTo, Finish
<1>1. TypeOK'
  BY DEF IInv, TypeOK, Steps, RoutedSteps, Verdicts, routeVars, writerVars
<1>2. Others(t)
  BY Zenon, OthersUnchanged DEF IInv, Step
<1>3. ThreadInv'
  BY <1>2 DEF IInv, TypeOK, ThreadInv, Others, HasFlight, RoutedSteps, LeaderSteps, routeVars
<1>4. FlightInv'
  BY Zenon, <1>1, <1>2, OutsideFlights DEF IInv, TypeOK, HasFlight, LeaderSteps
<1>5. RouteInv'
  BY <1>1, <1>2, RouteQuiet DEF IInv, TypeOK, HasFlight, RoutedSteps, LeaderSteps
<1>6. PacketInv'
  <2>1. CacheInv'
    BY Zenon DEF IInv, PacketInv, CacheInv, writerVars
  <2>2. PacketOK(t)'
    <3>1. pc'[t] = "route" \/ (pc'[t] = "idle" /\ reply'[t] \in Verdicts)
      BY Zenon DEF IInv, TypeOK, Verdicts
    <3> QED  BY Zenon, <3>1, PacketFacts DEF PacketOK, HasFlight, LeaderSteps
  <2>3. ASSUME NEW u \in Threads \ {t}  PROVE PacketOK(u)'
    BY Zenon, <1>1, <1>2, OtherPackets DEF routeVars
  <2> QED  BY Zenon, <2>1, <2>2, <2>3 DEF PacketInv
<1> QED  BY Zenon, <1>1, <1>3, <1>4, <1>5, <1>6 DEF IInv

(* The generation a query loads has the floor of everyone who loaded it.   *)
LEMMA LoadGenerationStep ==
    ASSUME IInv, NEW t \in Threads, LoadGeneration(t)
    PROVE  IInv'
<1> USE DEF LoadGeneration, GoTo
<1>1. TypeOK'
  BY Zenon DEF IInv, TypeOK, Steps, RoutedSteps, routeVars, writerVars
<1>2. Others(t)
  BY Zenon, OthersUnchanged DEF IInv, Step
<1>3. pc'[t] \in {"lookup", "select"}
  BY Zenon DEF IInv, TypeOK
<1>4. ThreadInv'
  BY <1>2, <1>3 DEF IInv, TypeOK, ThreadInv, Others, HasFlight, RoutedSteps, LeaderSteps,
                    RouteInv, VersionInv, routeVars
<1>5. FlightInv'
  BY Zenon, <1>1, <1>2, <1>3, OutsideFlights DEF HasFlight, LeaderSteps
<1>6. RouteInv'
  <2>1. VersionInv'
    BY Zenon DEF IInv, RouteInv, VersionInv, routeVars, writerVars
  <2>2. FloorInv'
    BY <1>2, <1>3 DEF IInv, TypeOK, RouteInv, FloorInv, VersionInv, Others, HasFlight,
                      LeaderSteps, routeVars, writerVars
  <2>3. SameFloor'
    BY <1>2, <1>3 DEF IInv, TypeOK, RouteInv, FloorInv, SameFloor, Others
  <2> QED  BY Zenon, <2>1, <2>2, <2>3 DEF RouteInv
<1>7. PacketInv'
  <2>1. CacheInv'
    BY Zenon DEF IInv, PacketInv, CacheInv, writerVars
  <2>2. PacketOK(t)'
    BY Zenon, <1>3 DEF PacketOK, HasFlight, LeaderSteps
  <2>3. ASSUME NEW u \in Threads \ {t}  PROVE PacketOK(u)'
    BY Zenon, <1>1, <1>2, OtherPackets DEF routeVars
  <2> QED  BY Zenon, <2>1, <2>2, <2>3 DEF PacketInv
<1> QED  BY Zenon, <1>1, <1>4, <1>5, <1>6, <1>7 DEF IInv

(* A hit that is not late is as new as every change that had returned when *)
(* the query began.                                                        *)
LEMMA LookupCacheStep ==
    ASSUME IInv, NEW t \in Threads, LookupCache(t)
    PROVE  IInv'
<1> USE DEF LookupCache, GoTo, Finish
<1> DEFINE q == query[t].question
           hit == cache[q] # Nothing /\ ~cache[q].stale
<1>0. query[t] \in Asks /\ q \in Questions /\ query[t].id \in Nat
  BY Zenon, AskFacts DEF IInv, ThreadInv
<1>1. CASE hit
  <2>1. /\ cache[q] \in Answers /\ reply'[t] = [cache[q] EXCEPT !.id = query[t].id]
        /\ pc'[t] = "idle"
    BY <1>0, <1>1 DEF IInv, TypeOK, Cached
  <2>2. reply'[t] \in Answers /\ reply'[t].late = cache[q].late
           /\ reply'[t].scopes = cache[q].scopes
    BY <1>0, <2>1, Retagged
  <2>3. TypeOK'
    BY <1>1, <2>1, <2>2 DEF IInv, TypeOK, Steps, Cached, routeVars, writerVars
  <2>4. Others(t)
    BY Zenon, OthersUnchanged DEF IInv, Step
  <2>5. ThreadInv'
    BY <1>1, <2>4 DEF IInv, TypeOK, ThreadInv, Others, HasFlight, RoutedSteps, LeaderSteps,
                      routeVars
  <2>6. FlightInv'
    BY Zenon, <2>1, <2>3, <2>4, OutsideFlights DEF HasFlight, LeaderSteps
  <2>7. RouteInv'
    BY Zenon, <1>1, <2>1, <2>3, <2>4, RouteQuiet DEF HasFlight, RoutedSteps, LeaderSteps
  <2>8. CacheInv'
    BY Zenon DEF IInv, PacketInv, CacheInv, writerVars
  <2>9. since'[t] = since[t] /\ since[t] <= returned /\ (~cache[q].late => returned <= cache[q].scopes)
    BY Zenon, <1>0, <1>1 DEF IInv, PacketInv, CacheInv, RouteInv, FloorInv
  <2>10. PacketOK(t)'
    <3>1. since[t] \in Nat /\ returned \in Nat /\ cache[q].scopes \in Nat
              /\ cache[q].late \in BOOLEAN
      BY ZenonT(40), <2>1, PacketFacts DEF IInv, TypeOK
    <3>2. ~cache[q].late => since[t] <= cache[q].scopes
      BY Zenon, <2>9, <3>1, AtMostThrough
    <3>3. reply'[t].late \/ since'[t] <= reply'[t].scopes
      BY Zenon, <2>2, <2>9, <3>2
    <3> QED  BY Zenon, <2>1, <3>3 DEF PacketOK, HasFlight, LeaderSteps
  <2>11. ASSUME NEW u \in Threads \ {t}  PROVE PacketOK(u)'
    BY Zenon, <2>3, <2>4, OtherPackets DEF routeVars
  <2> QED  BY Zenon, <2>3, <2>5, <2>6, <2>7, <2>8, <2>10, <2>11 DEF IInv, PacketInv
<1>2. CASE ~hit
  <2>1. TypeOK' /\ pc'[t] = "select"
    BY Zenon, <1>2 DEF IInv, TypeOK, Steps, RoutedSteps, routeVars, writerVars
  <2>2. Others(t)
    BY Zenon, OthersUnchanged DEF IInv, Step
  <2>3. ThreadInv'
    BY <1>2, <2>1, <2>2 DEF IInv, TypeOK, ThreadInv, Others, HasFlight, RoutedSteps,
                            LeaderSteps, routeVars
  <2>4. FlightInv'
    BY Zenon, <2>1, <2>2, OutsideFlights DEF HasFlight, LeaderSteps
  <2>5. RouteInv'
    BY Zenon, <1>2, <2>1, <2>2, RouteQuiet DEF HasFlight, RoutedSteps, LeaderSteps
  <2>6. CacheInv'
    BY Zenon DEF IInv, PacketInv, CacheInv, writerVars
  <2>7. PacketOK(t)'
    BY Zenon, <2>1 DEF PacketOK, HasFlight, LeaderSteps
  <2>8. ASSUME NEW u \in Threads \ {t}  PROVE PacketOK(u)'
    BY Zenon, <2>1, <2>2, OtherPackets DEF routeVars
  <2> QED  BY Zenon, <2>1, <2>3, <2>4, <2>5, <2>6, <2>7, <2>8 DEF IInv, PacketInv
<1> QED  BY Zenon, <1>1, <1>2

(* The scopes selected now are no older than the announcement seen.        *)
LEMMA SelectScopesStep ==
    ASSUME IInv, NEW t \in Threads, SelectScopes(t)
    PROVE  IInv'
<1> USE DEF SelectScopes, GoTo, Finish
<1>1. TypeOK'
  BY DEF IInv, TypeOK, Steps, RoutedSteps, Verdicts, routeVars, writerVars
<1>2. Others(t)
  BY Zenon, OthersUnchanged DEF IInv, Step
<1>3. \/ pc'[t] = "idle" /\ reply'[t] = Failed
      \/ pc'[t] = "begin" /\ scopes'[t] = table /\ gen' = gen /\ entry' = entry
  BY Zenon DEF IInv, TypeOK
<1>4. ThreadInv'
  BY <1>2, <1>3 DEF IInv, TypeOK, ThreadInv, Others, HasFlight, RoutedSteps, LeaderSteps, routeVars
<1>5. FlightInv'
  BY Zenon, <1>1, <1>2, <1>3, OutsideFlights DEF HasFlight, LeaderSteps
<1>6. RouteInv'
  <2>1. VersionInv'
    BY Zenon DEF IInv, RouteInv, VersionInv, routeVars, writerVars
  <2>2. FloorInv'
    <3>1. since' = since /\ floor' = floor
      OBVIOUS
    <3> QED
      BY <1>2, <1>3, <3>1 DEF IInv, TypeOK, RouteInv, FloorInv, VersionInv, Others, HasFlight,
                              RoutedSteps, LeaderSteps, routeVars, writerVars
  <2>3. SameFloor'
    BY <1>2, <1>3 DEF IInv, TypeOK, RouteInv, SameFloor, Others, RoutedSteps, LeaderSteps
  <2> QED  BY Zenon, <2>1, <2>2, <2>3 DEF RouteInv
<1>7. PacketInv'
  <2>1. CacheInv'
    BY Zenon DEF IInv, PacketInv, CacheInv, writerVars
  <2>2. PacketOK(t)'
    BY Zenon, <1>3, PacketFacts DEF PacketOK, HasFlight, LeaderSteps, Verdicts
  <2>3. ASSUME NEW u \in Threads \ {t}  PROVE PacketOK(u)'
    BY Zenon, <1>1, <1>2, OtherPackets DEF routeVars
  <2> QED  BY Zenon, <2>1, <2>2, <2>3 DEF PacketInv
<1> QED  BY Zenon, <1>1, <1>4, <1>5, <1>6, <1>7 DEF IInv

(* Joining an entry that is listed: it has a leader, and if the leader has *)
(* published already, what it published suits the newcomer too, because    *)
(* equal keys have equal generations.                                      *)
LEMMA FollowStep ==
    ASSUME IInv, NEW t \in Threads, BeginFlight(t), NEW e \in Listed(KeyOf(t)),
           entry' = [entry EXCEPT ![t] = e], GoTo(t, "wait"), flight' = flight
    PROVE  IInv'
<1> USE DEF GoTo
<1>1. /\ pc[t] = "begin" /\ e \in Entries /\ flight[e].listed /\ flight[e].key = KeyOf(t)
      /\ UNCHANGED <<query, reply, gen, scopes, asked, floor, since, cache, routeVars, writerVars>>
  BY Zenon DEF BeginFlight, Listed
<1>2. TypeOK'
  BY Zenon, <1>1 DEF IInv, TypeOK, Steps, RoutedSteps, routeVars, writerVars
<1>3. Others(t) /\ entry'[t] = e /\ pc'[t] = "wait" /\ KeyOf(t)' = KeyOf(t)
  BY Zenon, <1>1, OthersUnchanged DEF IInv, TypeOK, Step, KeyOf
<1>4. ThreadInv'
  BY <1>1, <1>3 DEF IInv, TypeOK, ThreadInv, Others, HasFlight, RoutedSteps, LeaderSteps, routeVars
<1>5. PICK u \in Threads : pc[u] \in LeaderSteps /\ entry[u] = e
  BY Zenon, <1>1 DEF IInv, FlightInv, ListedInv
<1>6. u # t /\ KeyOf(u) = KeyOf(t) /\ (flight[e].running <=> pc[u] # "remove")
  BY Zenon, <1>1, <1>5 DEF IInv, FlightInv, KeyInv, LeaderInv, HasFlight, LeaderSteps
<1>7. FlightInv'
  <2> USE DEF IInv, FlightInv, Others, HasFlight
  <2>1. KeyInv'
    <3>1. ASSUME NEW v \in Threads \ {t}, HasFlight(v)'  PROVE flight'[entry'[v]].key = KeyOf(v)'
      <4>1. HasFlight(v) /\ entry'[v] = entry[v] /\ KeyOf(v)' = KeyOf(v)
        BY Zenon, <1>1, <1>3, <3>1 DEF KeyOf
      <4> QED  BY Zenon, <4>1 DEF KeyInv
    <3>2. flight'[entry'[t]].key = KeyOf(t)'
      BY Zenon, <1>1, <1>3
    <3> QED  BY Zenon, <3>1, <3>2 DEF KeyInv
  <2>2. LeaderInv'
    <3> SUFFICES ASSUME NEW v \in Threads, pc'[v] \in LeaderSteps
                 PROVE  flight'[entry'[v]].listed /\ (flight'[entry'[v]].running <=> pc'[v] # "remove")
      BY Zenon DEF LeaderInv
    <3>1. v # t
      BY Zenon, <1>3 DEF LeaderSteps
    <3>2. pc'[v] = pc[v] /\ entry'[v] = entry[v]
      BY Zenon, <1>3, <3>1
    <3> QED  BY Zenon, <3>2 DEF LeaderInv
  <2>3. WaitInv'
    <3>1. u \in Threads /\ pc'[u] = pc[u] /\ entry'[u] = entry[u]
      BY Zenon, <1>3, <1>6
    <3>2. flight[e].running => pc'[u] \in LeaderSteps \ {"remove"} /\ entry'[u] = entry'[t]
      BY Zenon, <1>3, <1>5, <1>6, <3>1
    <3>3. ASSUME NEW v \in Threads \ {t}, pc'[v] = "wait", flight'[entry'[v]].running
          PROVE  \E x \in Threads : pc'[x] \in LeaderSteps \ {"remove"} /\ entry'[x] = entry'[v]
      <4>0. pc[v] = "wait" /\ entry'[v] = entry[v] /\ flight[entry[v]].running
        BY Zenon, <1>3, <3>3
      <4>1. PICK x \in Threads : pc[x] \in LeaderSteps \ {"remove"} /\ entry[x] = entry[v]
        BY Zenon, <4>0 DEF WaitInv
      <4>2. x # t
        BY Zenon, <1>1, <4>1 DEF LeaderSteps
      <4> QED  BY Zenon, <1>3, <3>3, <4>1, <4>2
    <3> QED  BY <1>3, <3>1, <3>2, <3>3 DEF WaitInv
  <2>4. ListedInv'
    <3>1. ASSUME NEW x \in Threads, pc[x] \in LeaderSteps
          PROVE  pc'[x] = pc[x] /\ entry'[x] = entry[x]
      BY Zenon, <1>1, <1>3, <3>1 DEF LeaderSteps
    <3> SUFFICES ASSUME NEW f \in Entries, flight'[f].listed
                 PROVE  \E x \in Threads : pc'[x] \in LeaderSteps /\ entry'[x] = f
      BY Zenon DEF ListedInv
    <3>2. PICK x \in Threads : pc[x] \in LeaderSteps /\ entry[x] = f
      BY Zenon DEF ListedInv
    <3> QED  BY Zenon, <3>1, <3>2
  <2>5. OneLeader'
    <3>1. ASSUME NEW x \in Threads, pc'[x] \in LeaderSteps
          PROVE  pc'[x] = pc[x] /\ entry'[x] = entry[x]
      BY Zenon, <1>3, <3>1 DEF LeaderSteps
    <3> QED  BY Zenon, <3>1 DEF OneLeader
  <2>6. OneEntry'   BY Zenon DEF OneEntry
  <2> QED  BY Zenon, <2>1, <2>2, <2>3, <2>4, <2>5, <2>6
<1>8. RouteInv'
  BY Zenon, <1>1, <1>2, <1>3, RouteQuiet DEF HasFlight, RoutedSteps
<1>9. PacketInv'
  <2>1. CacheInv'
    BY Zenon, <1>1 DEF IInv, PacketInv, CacheInv, writerVars
  <2>2. query[u].question = query[t].question /\ query[u].link = query[t].link
           /\ query[u].cd = query[t].cd /\ gen[u] = gen[t]
    BY <1>1, <1>5, <1>6, KeyFacts DEF IInv, RoutedSteps
  <2>3. floor[u] = floor[t]
    BY Zenon, <1>1, <1>5, <2>2 DEF IInv, RouteInv, SameFloor, RoutedSteps
  <2>4. ASSUME ~flight[e].running, flight[e].response # Nothing
        PROVE  flight[e].response \in Answers /\ Suits(flight[e].response, t)
    BY Zenon, <1>5, <2>2, <2>3, <2>4 DEF IInv, PacketInv, PacketOK, HasFlight, Suits
  <2>5. PacketOK(t)'
    BY Zenon, <1>1, <1>3, <2>4 DEF PacketOK, Suits, routeVars, LeaderSteps
  <2>6. ASSUME NEW v \in Threads \ {t}  PROVE PacketOK(v)'
    BY Zenon, <1>1, <1>2, <1>3, OtherPackets DEF routeVars
  <2> QED  BY Zenon, <2>1, <2>5, <2>6 DEF PacketInv
<1> QED  BY Zenon, <1>2, <1>4, <1>7, <1>8, <1>9 DEF IInv

(* Becoming the leader of a key nobody has listed, with an unused entry.   *)
LEMMA LeadStep ==
    ASSUME IInv, NEW t \in Threads, BeginFlight(t), Listed(KeyOf(t)) = {},
           NEW e \in Entries, flight[e] = Unused,
           flight' = [flight EXCEPT ![e] = [listed |-> TRUE, running |-> TRUE,
                                            key |-> KeyOf(t), response |-> Nothing]],
           entry' = [entry EXCEPT ![t] = e], GoTo(t, "exchange")
    PROVE  IInv'
<1> USE DEF GoTo
<1>1. /\ pc[t] = "begin"
      /\ UNCHANGED <<query, reply, gen, scopes, asked, floor, since, cache, routeVars, writerVars>>
  BY Zenon DEF BeginFlight
<1>2. KeyOf(t) \in Keys
  BY Zenon, <1>1, KeyFacts DEF IInv, RoutedSteps
<1>3. TypeOK'
  <2>1. [listed |-> TRUE, running |-> TRUE, key |-> KeyOf(t), response |-> Nothing] \in Flights
    BY Zenon, <1>2 DEF Flights
  <2> QED  BY Zenon, <1>1, <2>1 DEF IInv, TypeOK, Steps, RoutedSteps, LeaderSteps, routeVars, writerVars
<1>4. Others(t) /\ entry'[t] = e /\ pc'[t] = "exchange" /\ KeyOf(t)' = KeyOf(t)
  BY Zenon, <1>1, OthersUnchanged DEF IInv, TypeOK, Step, KeyOf
<1>5. ThreadInv'
  BY ZenonT(40), <1>1, <1>4 DEF IInv, TypeOK, ThreadInv, Others, HasFlight, RoutedSteps, LeaderSteps, routeVars
<1>6. ASSUME NEW u \in Threads, HasFlight(u)  PROVE entry[u] # e /\ entry[u] \in Entries
  <2>1. flight[entry[u]].key = KeyOf(u) /\ KeyOf(u).gen >= 1
    BY Zenon, <1>6, KeyFacts DEF IInv, FlightInv, KeyInv, HasFlight, RoutedSteps
  <2>2. flight[e].key.gen = 0
    BY DEF Unused, NoKey
  <2>3. entry[u] \in Entries
    BY Zenon, <1>6 DEF IInv, ThreadInv
  <2>4. flight[entry[u]].key.gen # 0
    BY <2>1
  <2> QED  BY Zenon, <2>2, <2>3, <2>4
<1>7. /\ flight'[e].listed /\ flight'[e].running /\ flight'[e].key = KeyOf(t)
      /\ \A f \in Entries \ {e} : flight'[f] = flight[f]
      /\ ~flight[e].listed
  BY DEF IInv, TypeOK, Unused
<1>8. FlightInv'
  <2> USE DEF IInv, FlightInv, Others, HasFlight
  <2>1. KeyInv'
    <3>1. ASSUME NEW u \in Threads \ {t}, HasFlight(u)'  PROVE flight'[entry'[u]].key = KeyOf(u)'
      <4>1. HasFlight(u) /\ entry'[u] = entry[u] /\ KeyOf(u)' = KeyOf(u)
        BY Zenon, <1>1, <1>4, <3>1 DEF KeyOf
      <4>2. flight'[entry[u]] = flight[entry[u]]
        BY Zenon, <1>6, <1>7, <4>1
      <4> QED  BY Zenon, <4>1, <4>2 DEF KeyInv
    <3>2. flight'[entry'[t]].key = KeyOf(t)'
      BY Zenon, <1>1, <1>4, <1>7
    <3> QED  BY Zenon, <3>1, <3>2 DEF KeyInv
  <2>2. LeaderInv'
    <3>1. ASSUME NEW v \in Threads \ {t}, pc'[v] \in LeaderSteps
          PROVE  flight'[entry'[v]] = flight[entry[v]] /\ pc'[v] = pc[v]
      <4>1. pc'[v] = pc[v] /\ entry'[v] = entry[v]
        BY Zenon, <1>4
      <4>2. entry[v] # e /\ entry[v] \in Entries
        BY Zenon, <1>6, <3>1, <4>1
      <4> QED  BY Zenon, <1>7, <4>1, <4>2
    <3>2. flight'[entry'[t]].listed /\ flight'[entry'[t]].running = TRUE /\ pc'[t] # "remove"
      BY Zenon, <1>4, <1>7 DEF TypeOK
    <3>3. ASSUME NEW v \in Threads, pc'[v] \in LeaderSteps
          PROVE  flight'[entry'[v]].listed /\ (flight'[entry'[v]].running <=> pc'[v] # "remove")
      <4>1. CASE v = t   BY Zenon, <3>2, <4>1
      <4>2. CASE v # t
        <5>1. flight'[entry'[v]] = flight[entry[v]] /\ pc'[v] = pc[v]
          BY Zenon, <3>1, <3>3, <4>2
        <5>2. flight[entry[v]].listed /\ (flight[entry[v]].running <=> pc[v] # "remove")
          BY Zenon, <3>3, <5>1 DEF LeaderInv
        <5> QED  BY Zenon, <5>1, <5>2
      <4> QED  BY Zenon, <4>1, <4>2
    <3> QED  BY Zenon, <3>3 DEF LeaderInv
  <2>3. WaitInv'
    <3>1. ASSUME NEW v \in Threads \ {t}, pc'[v] = "wait", flight'[entry'[v]].running
          PROVE  \E x \in Threads : pc'[x] \in LeaderSteps \ {"remove"} /\ entry'[x] = entry'[v]
      <4>0. pc[v] = "wait" /\ flight[entry[v]].running
        <5>1. pc[v] = "wait" /\ entry'[v] = entry[v]
          BY Zenon, <1>4, <3>1
        <5>2. entry[v] # e /\ entry[v] \in Entries
          BY Zenon, <1>6, <5>1
        <5> QED  BY Zenon, <1>7, <3>1, <5>1, <5>2
      <4>1. PICK x \in Threads : pc[x] \in LeaderSteps \ {"remove"} /\ entry[x] = entry[v]
        BY Zenon, <4>0 DEF WaitInv
      <4>2. x # t
        BY Zenon, <1>1, <4>1 DEF LeaderSteps
      <4> QED  BY Zenon, <1>4, <3>1, <4>1, <4>2
    <3> QED  BY Zenon, <1>4, <3>1 DEF WaitInv
  <2>4. ListedInv'
    <3>1. ASSUME NEW f \in Entries \ {e}, flight'[f].listed
          PROVE  \E x \in Threads : pc'[x] \in LeaderSteps /\ entry'[x] = f
      <4>1. PICK x \in Threads : pc[x] \in LeaderSteps /\ entry[x] = f
        BY Zenon, <1>7, <3>1 DEF ListedInv
      <4>2. x # t
        BY Zenon, <1>1, <4>1 DEF LeaderSteps
      <4> QED  BY Zenon, <1>4, <4>1, <4>2
    <3>2. pc'[t] \in LeaderSteps /\ entry'[t] = e
      BY Zenon, <1>4 DEF LeaderSteps
    <3> QED  BY Zenon, <3>1, <3>2 DEF ListedInv
  <2>5. OneLeader'
    <3>1. ASSUME NEW v \in Threads \ {t}, pc'[v] \in LeaderSteps
          PROVE  pc[v] \in LeaderSteps /\ entry'[v] = entry[v] /\ entry'[v] # e
      <4>1. pc'[v] = pc[v] /\ entry'[v] = entry[v]
        BY Zenon, <1>4
      <4> QED  BY Zenon, <1>6, <3>1, <4>1
    <3> SUFFICES ASSUME NEW v \in Threads, NEW w \in Threads, pc'[v] \in LeaderSteps,
                        pc'[w] \in LeaderSteps, entry'[v] = entry'[w]
                 PROVE  v = w
      BY Zenon DEF OneLeader
    <3>2. CASE v = t
      BY ZenonT(40), <1>4, <3>1, <3>2
    <3>3. CASE w = t
      BY Zenon, <1>4, <3>1, <3>3
    <3>4. CASE v # t /\ w # t
      <4>1. pc[v] \in LeaderSteps /\ pc[w] \in LeaderSteps /\ entry[v] = entry[w]
        BY Zenon, <3>1, <3>4
      <4> QED  BY Zenon, <4>1 DEF OneLeader
    <3> QED  BY Zenon, <3>2, <3>3, <3>4
  <2>6. OneEntry'
    BY <1>7 DEF OneEntry, Listed
  <2> QED  BY Zenon, <2>1, <2>2, <2>3, <2>4, <2>5, <2>6
<1>9. RouteInv'
  BY Zenon, <1>1, <1>3, <1>4, RouteQuiet DEF HasFlight, RoutedSteps, LeaderSteps
<1>10. PacketInv'
  <2>1. CacheInv'
    BY Zenon, <1>1 DEF IInv, PacketInv, CacheInv, writerVars
  <2>2. PacketOK(t)'
    BY ZenonT(40), <1>4, <1>7 DEF PacketOK
  <2>3. ASSUME NEW v \in Threads \ {t}  PROVE PacketOK(v)'
    <3>1. HasFlight(v) => flight'[entry[v]] = flight[entry[v]]
      BY Zenon, <1>6, <1>7
    <3>2. PacketOK(v)
      BY Zenon DEF IInv, PacketInv
    <3>3. HasFlight(v)' = HasFlight(v) /\ Fetched(v)' = Fetched(v)
      BY Zenon, <1>4, <2>3 DEF Others, HasFlight, Fetched
    <3>4. \A a : Suits(a, v)' = Suits(a, v)
      BY Zenon, <1>1, <1>4, <2>3 DEF Others, Suits, routeVars
    <3> QED  BY SMTT(60), <1>4, <2>3, <3>1, <3>2, <3>3, <3>4 DEF PacketOK, Others
  <2> QED  BY Zenon, <2>1, <2>2, <2>3 DEF PacketInv
<1> QED  BY Zenon, <1>3, <1>5, <1>8, <1>9, <1>10 DEF IInv

(* Inflight::begin hands out one of the two roles.                         *)
LEMMA BeginFlightStep ==
    ASSUME IInv, NEW t \in Threads, BeginFlight(t)
    PROVE  IInv'
BY Zenon, FollowStep, LeadStep DEF BeginFlight

(* What the exchange fetched has the scopes the leader selected.           *)
LEMMA ExchangeStep ==
    ASSUME IInv, NEW t \in Threads, Exchange(t)
    PROVE  IInv'
<1> USE DEF Exchange, GoTo
<1>1. query[t] \in Asks /\ query[t].id \in Nat /\ query[t].question \in Questions
         /\ query[t].link \in Links /\ query[t].cd \in BOOLEAN /\ scopes[t] \in Nat
  BY Zenon, AskFacts DEF IInv, ThreadInv, TypeOK
<1>2. Fetched(t) \in Answers
  BY Zenon, <1>1 DEF Fetched, Answers
<1>3. TypeOK'
  BY <1>2 DEF IInv, TypeOK, Steps, RoutedSteps, LeaderSteps, Verdicts, routeVars, writerVars
<1>4. Others(t)
  BY Zenon, OthersUnchanged DEF IInv, Step
<1>5. /\ pc'[t] \in {"insert", "stale", "publish"}
      /\ \/ reply'[t] = Fetched(t)
         \/ pc'[t] # "insert" /\ reply'[t] = Failed
  BY Zenon DEF IInv, TypeOK
<1>6. ThreadInv'
  BY Zenon, <1>4, <1>5 DEF IInv, TypeOK, ThreadInv, Others, HasFlight, RoutedSteps, LeaderSteps, routeVars
<1>7. FlightInv'
  BY Zenon, <1>3, <1>4, <1>5, LeaderMoves DEF LeaderSteps
<1>8. RouteInv'
  BY Zenon, <1>3, <1>4, <1>5, RouteQuiet DEF HasFlight, RoutedSteps, LeaderSteps
<1>9. PacketInv'
  <2>1. CacheInv'
    BY Zenon DEF IInv, PacketInv, CacheInv, writerVars
  <2>2. Suits(Fetched(t), t) /\ Fetched(t).id = query[t].id
    BY Zenon DEF IInv, RouteInv, FloorInv, Suits, Fetched, HasFlight, LeaderSteps
  <2>3. /\ Fetched(t)' = Fetched(t) /\ \A a : Suits(a, t)' = Suits(a, t)
        /\ flight' = flight /\ entry' = entry /\ query' = query /\ flight[entry[t]].running
    BY Zenon DEF Fetched, Suits, routeVars, IInv, FlightInv, LeaderInv, LeaderSteps
  <2>4. PacketOK(t)'
    BY Zenon, <1>2, <1>5, <2>2, <2>3 DEF PacketOK
  <2>5. ASSUME NEW u \in Threads \ {t}  PROVE PacketOK(u)'
    BY Zenon, <1>3, <1>4, OtherPackets DEF routeVars
  <2> QED  BY Zenon, <2>1, <2>4, <2>5 DEF PacketInv
<1> QED  BY Zenon, <1>3, <1>6, <1>7, <1>8, <1>9 DEF IInv

(* An entry that goes in before a newer version is announced is as new as  *)
(* every flush so far, finished or not.                                    *)
LEMMA InsertCacheStep ==
    ASSUME IInv, NEW t \in Threads, InsertCache(t)
    PROVE  IInv'
<1> USE DEF InsertCache, GoTo
<1> DEFINE q == query[t].question
           packet == [reply[t] EXCEPT !.id = NeutralId, !.source = "cache",
                                      !.late = scopes[t] < announced]
<1>1. query[t] \in Asks /\ q \in Questions /\ query[t].link \in Links /\ query[t].id \in Nat
         /\ query[t].cd \in BOOLEAN /\ scopes[t] \in Nat /\ announced \in Nat
  BY Zenon, AskFacts DEF IInv, ThreadInv, TypeOK
<1>2. reply[t] = Fetched(t)
  BY Zenon DEF IInv, PacketInv, PacketOK
<1>3. /\ packet \in Answers /\ packet.question = q /\ packet.source = "cache"
      /\ packet.scopes = scopes[t] /\ packet.late = (scopes[t] < announced)
  <2>1. reply[t] \in Answers /\ reply[t].question = q /\ reply[t].scopes = scopes[t]
    BY <1>1, <1>2 DEF Fetched, Answers
  <2> DEFINE b == scopes[t] < announced
  <2>2. b \in BOOLEAN /\ packet = [reply[t] EXCEPT !.id = NeutralId, !.source = "cache", !.late = b]
    OBVIOUS
  <2>3. packet.late = b
    <3> HIDE DEF b, packet
    <3> QED  BY Zenon, <2>1, <2>2, Filed
  <2> HIDE DEF packet
  <2>4. packet.late = (scopes[t] < announced)
    BY <2>3, Zenon
  <2> HIDE DEF b
  <2> QED  BY Zenon, <2>1, <2>2, <2>4, Filed
<1>4. /\ \A n \in Questions : n # q => cache'[n] \in {Nothing, cache[n]}
      /\ cache'[q] = packet
      /\ cache' \in [Questions -> Answers \cup {Nothing}]
  <2>1. PICK evicted \in SUBSET Neighbours(q) :
           cache' = [n \in Questions |-> IF n = q THEN packet
                                         ELSE IF n \in evicted THEN Nothing ELSE cache[n]]
    OBVIOUS
  <2> HIDE DEF packet, q
  <2> QED  BY Zenon, <1>1, <1>3, <2>1, PacketFacts DEF IInv, TypeOK
<1>5. TypeOK'
  BY Zenon, <1>4 DEF IInv, TypeOK, Steps, RoutedSteps, LeaderSteps, routeVars, writerVars
<1>6. Others(t) /\ pc'[t] = "publish"
  BY Zenon, OthersUnchanged DEF IInv, Step, TypeOK
<1>7. ThreadInv'
  BY Zenon, <1>6 DEF IInv, TypeOK, ThreadInv, Others, HasFlight, RoutedSteps, LeaderSteps, routeVars
<1>8. FlightInv'
  BY Zenon, <1>5, <1>6, LeaderMoves DEF LeaderSteps
<1>9. RouteInv'
  BY Zenon, <1>5, <1>6, RouteQuiet DEF HasFlight, RoutedSteps, LeaderSteps
<1>10. PacketInv'
  <2>1. ASSUME ~packet.late
        PROVE  returned <= packet.scopes
                  /\ \A w \in Writers : ShardOf[q] < wshard[w] => version[w] <= packet.scopes
    <3>1. announced <= scopes[t]
      <4>1. ~(scopes[t] < announced)
        BY <1>3, <2>1, Zenon
      <4> QED  BY <1>1, <4>1
    <3>2. returned <= announced /\ returned \in Nat
      BY Zenon DEF IInv, RouteInv, VersionInv, TypeOK
    <3>3. ASSUME NEW w \in Writers, ShardOf[q] < wshard[w]  PROVE version[w] <= announced
      BY <1>1, <3>3, ShardsAssumption DEF IInv, RouteInv, VersionInv, TypeOK, Shards
    <3>4. \A w \in Writers : version[w] \in Nat
      BY Zenon DEF IInv, TypeOK
    <3> QED  BY <1>1, <1>3, <3>1, <3>2, <3>3, <3>4
  <2>2. CacheInv'
    <3> SUFFICES ASSUME NEW n \in Questions, cache'[n] # Nothing
                 PROVE  /\ cache'[n].question = n /\ cache'[n].source = "cache"
                        /\ ~cache'[n].late => /\ returned <= cache'[n].scopes
                                              /\ \A w \in Writers : ShardOf[n] < wshard[w] =>
                                                     version[w] <= cache'[n].scopes
      BY Zenon DEF CacheInv, writerVars
    <3>1. CASE n = q
      BY Zenon, <1>3, <1>4, <2>1, <3>1
    <3>2. CASE n # q
      <4>1. cache'[n] = cache[n]
        BY Zenon, <1>4, <3>2
      <4> QED  BY Zenon, <4>1 DEF IInv, PacketInv, CacheInv
    <3> QED  BY Zenon, <3>1, <3>2
  <2>3. Suits(Fetched(t), t) /\ Fetched(t).id = query[t].id /\ Fetched(t) \in Answers
    BY Zenon, <1>1 DEF IInv, RouteInv, FloorInv, Suits, Fetched, HasFlight, LeaderSteps, Answers
  <2>4. /\ Fetched(t)' = Fetched(t) /\ \A a : Suits(a, t)' = Suits(a, t)
        /\ flight' = flight /\ entry' = entry /\ query' = query /\ reply' = reply
        /\ flight[entry[t]].running
    BY Zenon DEF Fetched, Suits, routeVars, IInv, FlightInv, LeaderInv, LeaderSteps
  <2>5. PacketOK(t)'
    BY <1>2, <1>6, <2>3, <2>4 DEF PacketOK
  <2>6. ASSUME NEW u \in Threads \ {t}  PROVE PacketOK(u)'
    BY Zenon, <1>5, <1>6, OtherPackets DEF routeVars
  <2> QED  BY Zenon, <2>2, <2>5, <2>6 DEF PacketInv
<1> QED  BY Zenon, <1>5, <1>7, <1>8, <1>9, <1>10 DEF IInv

(* A packet served stale is late unless it is as new as the announcement.  *)
LEMMA ServeStaleStep ==
    ASSUME IInv, NEW t \in Threads, ServeStale(t)
    PROVE  IInv'
<1> USE DEF ServeStale, GoTo
<1> DEFINE q == query[t].question
           packet == [Cached(t) EXCEPT !.late = @ \/ Cached(t).scopes < announced]
<1>1. query[t] \in Asks /\ q \in Questions /\ query[t].id \in Nat /\ announced \in Nat
  BY Zenon, AskFacts DEF IInv, ThreadInv, TypeOK
<1>2. ASSUME cache[q] # Nothing
      PROVE  /\ packet \in Answers /\ packet.id = query[t].id /\ packet.question = q
             /\ packet.source = "cache" /\ (packet.late \/ announced <= packet.scopes)
  <2>1. cache[q] \in Answers /\ cache[q].question = q /\ cache[q].source = "cache"
    BY Zenon, <1>1, <1>2 DEF IInv, TypeOK, PacketInv, CacheInv
  <2>2. /\ Cached(t) \in Answers /\ Cached(t).id = query[t].id /\ Cached(t).question = q
        /\ Cached(t).source = "cache"
    BY Zenon, <1>1, <2>1, Retagged DEF Cached
  <2> DEFINE b == Cached(t).late \/ Cached(t).scopes < announced
  <2>3. b \in BOOLEAN /\ packet = [Cached(t) EXCEPT !.late = b]
    OBVIOUS
  <2>4. b \/ announced <= Cached(t).scopes
    BY <1>1, <2>2, PacketFacts
  <2> HIDE DEF b, packet
  <2> QED  BY Zenon, <2>2, <2>3, <2>4, Marked
<1>3. /\ reply'[t] = IF cache[q] # Nothing THEN packet ELSE Failed
      /\ pc'[t] = "publish"
  BY Zenon DEF IInv, TypeOK
<1>4. TypeOK'
  <2> HIDE DEF packet, q
  <2>1. reply'[t] \in Answers \cup Verdicts \cup {Nothing}
    BY Zenon, <1>2, <1>3 DEF Verdicts
  <2> QED
    BY Zenon, <2>1 DEF IInv, TypeOK, Steps, RoutedSteps, LeaderSteps, routeVars, writerVars
<1>5. Others(t)
  BY Zenon, OthersUnchanged DEF IInv, Step
<1>6. ThreadInv'
  BY Zenon, <1>3, <1>5 DEF IInv, TypeOK, ThreadInv, Others, HasFlight, RoutedSteps, LeaderSteps, routeVars
<1>7. FlightInv'
  BY Zenon, <1>3, <1>4, <1>5, LeaderMoves DEF LeaderSteps
<1>8. RouteInv'
  BY Zenon, <1>3, <1>4, <1>5, RouteQuiet DEF HasFlight, RoutedSteps, LeaderSteps
<1>9. PacketInv'
  <2>1. CacheInv'
    BY Zenon DEF IInv, PacketInv, CacheInv, writerVars
  <2>2. floor[t] <= announced /\ floor[t] \in Nat
    BY Zenon DEF IInv, RouteInv, FloorInv, RoutedSteps, LeaderSteps, TypeOK
  <2>3. cache[q] # Nothing => Suits(packet, t)
    <3> HIDE DEF packet
    <3> QED  BY <1>1, <1>2, <2>2, PacketFacts DEF Suits
  <2>4. /\ \A a : Suits(a, t)' = Suits(a, t)
        /\ flight' = flight /\ entry' = entry /\ query' = query /\ flight[entry[t]].running
    BY Zenon DEF Suits, routeVars, IInv, FlightInv, LeaderInv, LeaderSteps
  <2>5. PacketOK(t)'
    <3> HIDE DEF packet
    <3> QED  BY Zenon, <1>2, <1>3, <2>3, <2>4 DEF PacketOK
  <2>6. ASSUME NEW u \in Threads \ {t}  PROVE PacketOK(u)'
    BY Zenon, <1>4, <1>5, OtherPackets DEF routeVars
  <2> QED  BY Zenon, <2>1, <2>5, <2>6 DEF PacketInv
<1> QED  BY Zenon, <1>4, <1>6, <1>7, <1>8, <1>9 DEF IInv

(* What a leader publishes suits it and every follower of its entry.       *)
LEMMA PublishStep ==
    ASSUME IInv, NEW t \in Threads, Publish(t)
    PROVE  IInv'
<1> DEFINE e == entry[t]
           shared == IF reply[t].kind = "answer"
                     THEN [reply[t] EXCEPT !.id = NeutralId] ELSE Nothing
<1>0. /\ pc[t] = "publish" /\ pc' = [pc EXCEPT ![t] = "remove"]
      /\ UNCHANGED <<query, reply, gen, scopes, entry, asked, floor, since, cache, routeVars,
                     writerVars>>
  BY Zenon DEF Publish, GoTo
<1>1. e \in Entries /\ HasFlight(t) /\ query[t] \in Asks /\ flight[e] \in Flights
  BY Zenon, <1>0 DEF IInv, ThreadInv, HasFlight, LeaderSteps, TypeOK
<1>2. shared # Nothing => shared \in Answers /\ Suits(shared, t)
  <2> SUFFICES ASSUME reply[t].kind = "answer"  PROVE shared \in Answers /\ Suits(shared, t)
    OBVIOUS
  <2>1. reply[t] \in Answers /\ Suits(reply[t], t)
    BY Zenon, <1>0, PacketFacts DEF IInv, PacketInv, PacketOK, Verdicts
  <2> QED  BY <2>1, Retagged DEF Suits, NeutralId
<1>3. flight' = [flight EXCEPT ![e] = [flight[e] EXCEPT !.response = shared, !.running = FALSE]]
  BY Zenon, <1>1 DEF IInv, TypeOK, Flights, Publish
<1>4. /\ flight'[e] \in Flights /\ flight'[e].response = shared /\ flight'[e].running = FALSE
      /\ flight'[e].listed = flight[e].listed /\ flight'[e].key = flight[e].key
      /\ \A f \in Entries \ {e} : flight'[f] = flight[f]
  <2> HIDE DEF shared
  <2>1. shared \in Answers \cup {Nothing}
    BY Zenon, <1>2
  <2>2. flight'[e] = [flight[e] EXCEPT !.response = shared, !.running = FALSE]
    BY Zenon, <1>1, <1>3 DEF IInv, TypeOK
  <2>3. ASSUME NEW f \in Entries, f # e  PROVE flight'[f] = flight[f]
    <3> HIDE DEF e
    <3>1. flight \in [Entries -> Flights]
      BY Zenon DEF IInv, TypeOK
    <3> QED  BY <1>3, <2>3, <3>1, Zenon
  <2>4. /\ flight'[e] \in Flights /\ flight'[e].response = shared /\ flight'[e].running = FALSE
        /\ flight'[e].listed = flight[e].listed /\ flight'[e].key = flight[e].key
    <3> DEFINE r == flight[e]
               w == flight'[e]
    <3>1. r \in Flights /\ w = [r EXCEPT !.response = shared, !.running = FALSE]
      BY Zenon, <1>1, <2>2
    <3> HIDE DEF r, w
    <3>2. /\ w \in Flights /\ w.response = shared /\ w.running = FALSE
          /\ w.listed = r.listed /\ w.key = r.key
      BY <2>1, <3>1, FlightFields, Zenon
    <3> QED  BY <3>2, Zenon DEF r, w
  <2>5. \A f \in Entries \ {e} : flight'[f] = flight[f]
    BY <2>3, Zenon
  <2> QED  BY <2>4, <2>5, Zenon
<1>5. TypeOK'
  <2> HIDE DEF shared
  <2> QED  BY Zenon, <1>0, <1>1, <1>3, <1>4 DEF IInv, TypeOK, Steps, RoutedSteps, LeaderSteps, routeVars, writerVars
<1>6. Others(t) /\ pc'[t] = "remove"
  BY Zenon, <1>0, OthersUnchanged DEF IInv, Step, TypeOK
<1>7. ThreadInv'
  BY Zenon, <1>0, <1>6 DEF IInv, TypeOK, ThreadInv, Others, HasFlight, RoutedSteps, LeaderSteps, routeVars
<1> HIDE DEF shared
<1>8. \A u \in Threads : HasFlight(u)' = HasFlight(u) /\ (HasFlight(u) => entry[u] \in Entries)
  BY <1>0, <1>6 DEF Others, HasFlight, LeaderSteps, IInv, ThreadInv
<1>9. FlightInv'
  <2> USE DEF IInv, FlightInv, Others
  <2>1. KeyInv'
    <3> SUFFICES ASSUME NEW u \in Threads, HasFlight(u)'
                 PROVE  flight'[entry'[u]].key = KeyOf(u)'
      BY Zenon DEF KeyInv
    <3>1. HasFlight(u) /\ entry[u] \in Entries /\ entry'[u] = entry[u]
      BY Zenon, <1>0, <1>8
    <3>2. flight'[entry[u]].key = flight[entry[u]].key
      BY Zenon, <1>4, <3>1
    <3>3. KeyOf(u)' = KeyOf(u)
      BY Zenon, <1>0 DEF KeyOf
    <3> QED  BY Zenon, <3>1, <3>2, <3>3 DEF KeyInv
  <2>2. LeaderInv'
    <3>1. ASSUME NEW u \in Threads \ {t}, pc'[u] \in LeaderSteps
          PROVE  flight'[entry'[u]] = flight[entry[u]] /\ pc'[u] = pc[u]
      <4>1. pc'[u] = pc[u] /\ entry'[u] = entry[u] /\ HasFlight(u)
        BY Zenon, <1>0, <1>6, <3>1 DEF HasFlight
      <4>2. entry[u] # e /\ entry[u] \in Entries
        BY Zenon, <1>0, <1>8, <3>1, <4>1 DEF OneLeader, LeaderSteps
      <4>3. \A f \in Entries : f # e => flight'[f] = flight[f]
        BY Zenon, <1>4
      <4>4. flight'[entry[u]] = flight[entry[u]]
        BY Zenon, <4>2, <4>3
      <4> QED  BY Zenon, <4>1, <4>4
    <3>2. flight'[entry'[t]].listed /\ flight'[entry'[t]].running = FALSE /\ pc'[t] = "remove"
      BY Zenon, <1>0, <1>4, <1>6 DEF LeaderInv, LeaderSteps
    <3>3. ASSUME NEW v \in Threads, pc'[v] \in LeaderSteps
          PROVE  flight'[entry'[v]].listed /\ (flight'[entry'[v]].running <=> pc'[v] # "remove")
      <4>1. CASE v = t   BY Zenon, <3>2, <4>1
      <4>2. CASE v # t
        <5>1. flight'[entry'[v]] = flight[entry[v]] /\ pc'[v] = pc[v]
          BY Zenon, <3>1, <3>3, <4>2
        <5>2. flight[entry[v]].listed /\ (flight[entry[v]].running <=> pc[v] # "remove")
          BY Zenon, <3>3, <5>1 DEF LeaderInv
        <5> QED  BY Zenon, <5>1, <5>2
      <4> QED  BY Zenon, <4>1, <4>2
    <3> QED  BY Zenon, <3>3 DEF LeaderInv
  <2>3. WaitInv'
    <3> SUFFICES ASSUME NEW v \in Threads, pc'[v] = "wait", flight'[entry'[v]].running
                 PROVE  \E x \in Threads : pc'[x] \in LeaderSteps \ {"remove"} /\ entry'[x] = entry'[v]
      BY Zenon DEF WaitInv
    <3>1. v # t /\ entry[v] # e /\ flight[entry[v]].running /\ pc[v] = "wait" /\ entry' = entry
      <4>1. v # t /\ pc[v] = "wait" /\ entry' = entry
        BY Zenon, <1>0, <1>6
      <4>2. entry[v] # e /\ entry[v] \in Entries
        BY Zenon, <1>4, <1>8, <4>1 DEF HasFlight
      <4> QED  BY Zenon, <1>4, <4>1, <4>2
    <3>2. PICK x \in Threads : pc[x] \in LeaderSteps \ {"remove"} /\ entry[x] = entry[v]
      BY Zenon, <3>1 DEF WaitInv
    <3> QED  BY Zenon, <1>6, <3>1, <3>2
  <2>4. ListedInv'
    <3> SUFFICES ASSUME NEW f \in Entries, flight'[f].listed
                 PROVE  \E x \in Threads : pc'[x] \in LeaderSteps /\ entry'[x] = f
      BY Zenon DEF ListedInv
    <3>1. flight[f].listed
      BY Zenon, <1>4
    <3>2. PICK x \in Threads : pc[x] \in LeaderSteps /\ entry[x] = f
      BY Zenon, <3>1 DEF ListedInv
    <3>3. pc'[x] \in LeaderSteps
      BY Zenon, <1>6, <3>2 DEF LeaderSteps
    <3> QED  BY Zenon, <1>0, <3>2, <3>3
  <2>5. OneLeader'
    <3>1. ASSUME NEW v \in Threads, pc'[v] \in LeaderSteps  PROVE pc[v] \in LeaderSteps
      BY Zenon, <1>0, <1>6, <3>1 DEF LeaderSteps
    <3> QED  BY Zenon, <1>0, <3>1 DEF OneLeader
  <2>6. OneEntry'
    <3>1. \A f \in Entries : flight'[f].listed = flight[f].listed /\ flight'[f].key = flight[f].key
      BY Zenon, <1>4
    <3> QED  BY Zenon, <3>1 DEF OneEntry
  <2> QED  BY Zenon, <2>1, <2>2, <2>3, <2>4, <2>5, <2>6
<1>10. RouteInv'
  BY Zenon, <1>0, <1>5, <1>6, RouteQuiet DEF HasFlight, RoutedSteps, LeaderSteps
<1>11. PacketInv'
  <2>1. CacheInv'
    BY Zenon, <1>0 DEF IInv, PacketInv, CacheInv, writerVars
  <2>2. ASSUME NEW u \in Threads  PROVE PacketOK(u)'
    <3>1. PacketOK(u) /\ HasFlight(u)' = HasFlight(u) /\ (HasFlight(u) => entry[u] \in Entries)
      BY Zenon, <1>8 DEF IInv, PacketInv
    <3>2. /\ UNCHANGED <<query, reply, entry, since, floor>> /\ Fetched(u)' = Fetched(u)
          /\ \A a : Suits(a, u)' = Suits(a, u)
      BY Zenon, <1>0 DEF Fetched, Suits, routeVars
    <3>3. pc'[u] \in {"publish", "remove"} => pc[u] \in {"publish", "remove"}
      BY Zenon, <1>0, <1>6 DEF Others
    <3>4. pc'[u] \in {"insert", "idle"} => pc'[u] = pc[u]
      BY Zenon, <1>0, <1>6 DEF Others
    <3>5. ASSUME HasFlight(u), ~flight'[entry[u]].running, flight'[entry[u]].response # Nothing
          PROVE  /\ flight'[entry[u]].response \in Answers
                 /\ Suits(flight'[entry[u]].response, u)
      <4>1. CASE entry[u] = e
        BY Zenon, <1>1, <1>2, <1>4, <3>5, <4>1, SameEntrySuits
      <4>2. CASE entry[u] # e
        BY Zenon, <1>4, <3>1, <3>5, <4>2 DEF PacketOK
      <4> QED  BY Zenon, <4>1, <4>2
    <3> QED  BY Zenon, <3>1, <3>2, <3>3, <3>4, <3>5 DEF PacketOK
  <2> QED  BY Zenon, <2>1, <2>2 DEF PacketInv
<1> QED  BY Zenon, <1>5, <1>7, <1>9, <1>10, <1>11 DEF IInv

(* When a leader forgets its entry, its followers keep theirs.             *)
LEMMA RemoveStep ==
    ASSUME IInv, NEW t \in Threads, Remove(t)
    PROVE  IInv'
<1> DEFINE e == entry[t]
           unlisted == [flight EXCEPT ![e].listed = FALSE]
<1>0. /\ pc[t] = "remove" /\ pc' = [pc EXCEPT ![t] = "idle"] /\ reply' = [reply EXCEPT ![t] = reply[t]]
      /\ gen' = [gen EXCEPT ![t] = 0] /\ scopes' = [scopes EXCEPT ![t] = 0]
      /\ entry' = [entry EXCEPT ![t] = None]
      /\ UNCHANGED <<query, asked, floor, since, cache, routeVars, writerVars>>
  BY Zenon DEF Remove, Finish
<1>1. e \in Entries /\ HasFlight(t) /\ flight \in [Entries -> Flights]
  BY Zenon, <1>0 DEF IInv, ThreadInv, HasFlight, LeaderSteps, TypeOK
<1>2. /\ unlisted \in [Entries -> Flights] /\ ~unlisted[e].listed
      /\ unlisted[e].key = flight[e].key /\ unlisted[e].running = flight[e].running
      /\ unlisted[e].response = flight[e].response
      /\ \A f \in Entries \ {e} : unlisted[f] = flight[f]
  BY Zenon, <1>1 DEF Flights
<1>3. /\ flight' \in [Entries -> Flights]
      /\ \A u \in Threads \ {t} : entry[u] \in Entries => flight'[entry[u]] = unlisted[entry[u]]
      /\ \A f \in Entries : flight'[f].listed => f # e /\ flight'[f] = flight[f]
  <2>1. flight' = Released(t, unlisted)
    BY Zenon DEF Remove
  <2> HIDE DEF unlisted
  <2> QED  BY <1>1, <1>2, <2>1, ReleaseFacts
<1> HIDE DEF unlisted
<1>4. TypeOK'
  BY Zenon, <1>0, <1>3 DEF IInv, TypeOK, Steps, routeVars, writerVars
<1>5. Others(t) /\ pc'[t] = "idle" /\ reply' = reply
  BY Zenon, <1>0, OthersUnchanged DEF IInv, Step, TypeOK
<1>6. ThreadInv'
  BY <1>0, <1>5 DEF IInv, TypeOK, ThreadInv, Others, HasFlight, RoutedSteps, LeaderSteps, routeVars
<1>7. ASSUME NEW u \in Threads, HasFlight(u)'
      PROVE  /\ u # t /\ HasFlight(u) /\ entry[u] \in Entries
             /\ flight'[entry'[u]].key = flight[entry[u]].key
             /\ flight'[entry'[u]].running = flight[entry[u]].running
             /\ flight'[entry'[u]].response = flight[entry[u]].response
             /\ pc[u] \in LeaderSteps => flight'[entry'[u]] = flight[entry[u]]
  <2>1. u # t /\ HasFlight(u) /\ entry[u] \in Entries /\ entry'[u] = entry[u]
    BY Zenon, <1>5, <1>7 DEF HasFlight, LeaderSteps, Others, IInv, ThreadInv
  <2>2. flight'[entry[u]] = unlisted[entry[u]]
    BY Zenon, <1>3, <2>1
  <2>3. pc[u] \in LeaderSteps => entry[u] # e
    BY Zenon, <1>0, <2>1 DEF IInv, FlightInv, OneLeader, LeaderSteps
  <2> QED  BY Zenon, <1>2, <2>1, <2>2, <2>3
<1>8. FlightInv'
  <2> USE DEF IInv, FlightInv, Others
  <2>1. KeyInv'
    BY <1>0, <1>5, <1>7 DEF KeyInv, KeyOf
  <2>2. LeaderInv'
    <3>1. ASSUME NEW u \in Threads, pc'[u] \in LeaderSteps
          PROVE  flight'[entry'[u]] = flight[entry[u]] /\ pc'[u] = pc[u]
      BY Zenon, <1>5, <1>7, <3>1 DEF HasFlight
    <3> QED  BY Zenon, <3>1 DEF LeaderInv
  <2>3. WaitInv'
    <3> SUFFICES ASSUME NEW v \in Threads, pc'[v] = "wait", flight'[entry'[v]].running
                 PROVE  \E x \in Threads : pc'[x] \in LeaderSteps \ {"remove"} /\ entry'[x] = entry'[v]
      BY Zenon DEF WaitInv
    <3>1. v # t /\ flight[entry[v]].running /\ pc[v] = "wait"
      BY Zenon, <1>0, <1>5, <1>7 DEF HasFlight
    <3>2. PICK x \in Threads : pc[x] \in LeaderSteps \ {"remove"} /\ entry[x] = entry[v]
      BY Zenon, <3>1 DEF WaitInv
    <3> QED  BY <1>0, <1>5, <3>1, <3>2
  <2>4. ListedInv'
    <3> SUFFICES ASSUME NEW f \in Entries, flight'[f].listed
                 PROVE  \E x \in Threads : pc'[x] \in LeaderSteps /\ entry'[x] = f
      BY Zenon DEF ListedInv
    <3>1. PICK x \in Threads : pc[x] \in LeaderSteps /\ entry[x] = f
      BY Zenon, <1>3 DEF ListedInv
    <3> QED  BY Zenon, <1>0, <1>3, <1>5, <3>1
  <2>5. OneLeader'
    BY <1>0, <1>5 DEF OneLeader, LeaderSteps
  <2>6. OneEntry'
    BY Zenon, <1>3 DEF OneEntry
  <2> QED  BY Zenon, <2>1, <2>2, <2>3, <2>4, <2>5, <2>6
<1>9. RouteInv'
  BY Zenon, <1>0, <1>4, <1>5, RouteQuiet DEF HasFlight, RoutedSteps, LeaderSteps
<1>10. PacketInv'
  <2>1. CacheInv'
    BY Zenon, <1>0 DEF IInv, PacketInv, CacheInv, writerVars
  <2>2. PacketOK(t)'
    <3>1. reply[t].kind = "answer" => reply[t] \in Answers /\ Suits(reply[t], t)
      BY Zenon, <1>0, PacketFacts DEF IInv, PacketInv, PacketOK, Verdicts
    <3>2. since[t] <= floor[t] /\ since[t] \in Nat /\ floor[t] \in Nat
      BY Zenon, <1>0 DEF IInv, RouteInv, FloorInv, RoutedSteps, LeaderSteps, TypeOK
    <3>3. reply[t].kind = "answer" => reply[t].late \/ since[t] <= reply[t].scopes
      BY <3>1, <3>2, PacketFacts DEF Suits
    <3> QED  BY Zenon, <1>0, <1>5, <3>3 DEF PacketOK, HasFlight, LeaderSteps
  <2>3. ASSUME NEW u \in Threads \ {t}  PROVE PacketOK(u)'
    <3>1. PacketOK(u)
      BY Zenon DEF IInv, PacketInv
    <3>2. pc'[u] = pc[u] /\ HasFlight(u)' = HasFlight(u) /\ Fetched(u)' = Fetched(u)
      BY Zenon, <1>5, <2>3 DEF Others, HasFlight, Fetched
    <3>3. \A a : Suits(a, u)' = Suits(a, u)
      BY Zenon, <1>0, <1>5, <2>3 DEF Others, Suits, routeVars
    <3> QED  BY Zenon, <1>5, <1>7, <2>3, <3>1, <3>2, <3>3 DEF PacketOK, Others
  <2> QED  BY Zenon, <2>1, <2>2, <2>3 DEF PacketInv
<1> QED  BY Zenon, <1>4, <1>6, <1>8, <1>9, <1>10 DEF IInv

(* A follower takes its leader's packet, or goes back to Inflight::begin.  *)
LEMMA WaitStep ==
    ASSUME IInv, NEW t \in Threads, Wait(t)
    PROVE  IInv'
<1> DEFINE e == entry[t]
           shared == flight[e].response
           mine == [shared EXCEPT !.id = query[t].id]
<1>0. /\ pc[t] = "wait" /\ flight[e].running = FALSE /\ flight' = Released(t, flight)
      /\ entry' = [entry EXCEPT ![t] = None]
      /\ UNCHANGED <<query, asked, floor, since, cache, routeVars, writerVars>>
  <2>1. e \in Entries /\ flight[e].running \in BOOLEAN
    BY Zenon DEF Wait, IInv, ThreadInv, HasFlight, TypeOK, Flights
  <2> QED  BY Zenon, <2>1 DEF Wait, Finish
<1>1. e \in Entries /\ HasFlight(t) /\ query[t] \in Asks /\ flight \in [Entries -> Flights]
      /\ query[t].id \in Nat
  BY Zenon, <1>0, AskFacts DEF IInv, ThreadInv, HasFlight, TypeOK
<1>2. \/ /\ shared # Nothing /\ pc' = [pc EXCEPT ![t] = "idle"] /\ reply' = [reply EXCEPT ![t] = mine]
         /\ gen' = [gen EXCEPT ![t] = 0] /\ scopes' = [scopes EXCEPT ![t] = 0]
      \/ /\ pc' = [pc EXCEPT ![t] = "begin"] /\ UNCHANGED <<reply, gen, scopes>>
  BY Zenon DEF Wait, Finish, GoTo
<1>3. shared # Nothing =>
          /\ mine \in Answers
          /\ mine.late \/ since[t] <= mine.scopes
  <2> SUFFICES ASSUME shared # Nothing
               PROVE  mine \in Answers /\ (mine.late \/ since[t] <= mine.scopes)
    OBVIOUS
  <2>1. shared \in Answers /\ Suits(shared, t)
    BY Zenon, <1>0, <1>1 DEF IInv, PacketInv, PacketOK
  <2>2. since[t] <= floor[t] /\ since[t] \in Nat /\ floor[t] \in Nat
    BY Zenon, <1>0 DEF IInv, RouteInv, FloorInv, RoutedSteps, TypeOK
  <2>3. shared.late \/ since[t] <= shared.scopes
    BY <2>1, <2>2, PacketFacts DEF Suits
  <2> QED  BY <1>1, <2>1, <2>3, Retagged
<1> HIDE DEF mine
<1>4. /\ flight' \in [Entries -> Flights]
      /\ \A u \in Threads \ {t} : entry[u] \in Entries => flight'[entry[u]] = flight[entry[u]]
      /\ \A f \in Entries : flight'[f].listed => flight'[f] = flight[f]
  BY ZenonT(40), <1>0, <1>1, ReleaseFacts
<1>5. TypeOK'
  BY SMTT(60), <1>0, <1>2, <1>3, <1>4 DEF IInv, TypeOK, Steps, RoutedSteps, routeVars, writerVars
<1>6. /\ Others(t) /\ pc'[t] \in {"idle", "begin"}
      /\ pc'[t] = "begin" => gen'[t] = gen[t] /\ scopes'[t] = scopes[t]
      /\ pc'[t] = "idle" => reply'[t] = mine /\ shared # Nothing
  BY ZenonT(40), <1>0, <1>2, OthersUnchanged DEF IInv, Step, TypeOK
<1>7. ThreadInv'
  BY SMTT(60), <1>0, <1>1, <1>6
     DEF IInv, TypeOK, ThreadInv, Others, HasFlight, RoutedSteps, LeaderSteps, routeVars
<1>8. ASSUME NEW u \in Threads, HasFlight(u)'
      PROVE  /\ u # t /\ HasFlight(u) /\ pc'[u] = pc[u] /\ entry[u] \in Entries
             /\ entry'[u] = entry[u] /\ flight'[entry[u]] = flight[entry[u]]
  <2>1. u # t /\ HasFlight(u) /\ entry[u] \in Entries /\ entry'[u] = entry[u] /\ pc'[u] = pc[u]
    BY Zenon, <1>6, <1>8 DEF HasFlight, LeaderSteps, Others, IInv, ThreadInv
  <2> QED  BY Zenon, <1>4, <2>1
<1>9. FlightInv'
  <2> USE DEF IInv, FlightInv, Others
  <2>1. KeyInv'
    <3> SUFFICES ASSUME NEW u \in Threads, HasFlight(u)'
                 PROVE  flight'[entry'[u]].key = KeyOf(u)'
      BY Zenon DEF KeyInv
    <3>1. u # t /\ HasFlight(u) /\ flight'[entry'[u]] = flight[entry[u]]
      BY Zenon, <1>8
    <3>2. KeyOf(u)' = KeyOf(u)
      BY Zenon, <1>0, <1>6, <3>1 DEF KeyOf
    <3> QED  BY Zenon, <3>1, <3>2 DEF KeyInv
  <2>2. LeaderInv'
    <3>1. ASSUME NEW u \in Threads, pc'[u] \in LeaderSteps
          PROVE  flight'[entry'[u]] = flight[entry[u]] /\ pc'[u] = pc[u]
      BY ZenonT(40), <1>8, <3>1 DEF HasFlight
    <3> QED  BY Zenon, <3>1 DEF LeaderInv
  <2>3. WaitInv'
    <3> SUFFICES ASSUME NEW v \in Threads, pc'[v] = "wait", flight'[entry'[v]].running
                 PROVE  \E x \in Threads : pc'[x] \in LeaderSteps \ {"remove"} /\ entry'[x] = entry'[v]
      BY Zenon DEF WaitInv
    <3>1. v # t /\ flight[entry[v]].running /\ pc[v] = "wait" /\ entry'[v] = entry[v]
      BY Zenon, <1>8 DEF HasFlight
    <3>2. PICK x \in Threads : pc[x] \in LeaderSteps \ {"remove"} /\ entry[x] = entry[v]
      BY Zenon, <3>1 DEF WaitInv
    <3> QED  BY SMTT(60), <1>0, <1>6, <3>1, <3>2 DEF LeaderSteps
  <2>4. ListedInv'
    <3> SUFFICES ASSUME NEW f \in Entries, flight'[f].listed
                 PROVE  \E x \in Threads : pc'[x] \in LeaderSteps /\ entry'[x] = f
      BY Zenon DEF ListedInv
    <3>1. PICK x \in Threads : pc[x] \in LeaderSteps /\ entry[x] = f
      BY Zenon, <1>4 DEF ListedInv
    <3> QED  BY Zenon, <1>0, <1>6, <3>1 DEF LeaderSteps
  <2>5. OneLeader'
    <3> SUFFICES ASSUME NEW u \in Threads, NEW v \in Threads, pc'[u] \in LeaderSteps,
                        pc'[v] \in LeaderSteps, entry'[u] = entry'[v]
                 PROVE  u = v
      BY Zenon DEF OneLeader
    <3>1. u # t /\ v # t
      BY Zenon, <1>6 DEF LeaderSteps
    <3>2. pc'[u] = pc[u] /\ entry'[u] = entry[u] /\ pc'[v] = pc[v] /\ entry'[v] = entry[v]
      BY Zenon, <1>6, <3>1
    <3> QED  BY Zenon, <3>1, <3>2 DEF OneLeader
  <2>6. OneEntry'
    BY Zenon, <1>4 DEF OneEntry
  <2> QED  BY Zenon, <2>1, <2>2, <2>3, <2>4, <2>5, <2>6
<1>10. RouteInv'
  BY Zenon, <1>0, <1>5, <1>6, RouteQuiet DEF HasFlight, RoutedSteps, LeaderSteps
<1>11. PacketInv'
  <2>1. CacheInv'
    BY Zenon, <1>0 DEF IInv, PacketInv, CacheInv, writerVars
  <2>2. PacketOK(t)'
    BY Zenon, <1>0, <1>3, <1>6 DEF PacketOK, HasFlight, LeaderSteps
  <2>3. ASSUME NEW u \in Threads \ {t}  PROVE PacketOK(u)'
    <3>1. PacketOK(u)
      BY Zenon DEF IInv, PacketInv
    <3>2. pc'[u] = pc[u] /\ HasFlight(u)' = HasFlight(u) /\ Fetched(u)' = Fetched(u)
      BY Zenon, <1>6, <2>3 DEF Others, HasFlight, Fetched
    <3>3. \A a : Suits(a, u)' = Suits(a, u)
      BY Zenon, <1>0, <1>6, <2>3 DEF Others, Suits, routeVars
    <3>4. entry'[u] = entry[u] /\ reply'[u] = reply[u] /\ query'[u] = query[u]
             /\ since'[u] = since[u]
      BY Zenon, <1>6, <2>3 DEF Others
    <3> QED  BY Zenon, <1>8, <3>1, <3>2, <3>3, <3>4 DEF PacketOK
  <2> QED  BY Zenon, <2>1, <2>2, <2>3 DEF PacketInv
<1> QED  BY Zenon, <1>5, <1>7, <1>9, <1>10, <1>11 DEF IInv

(***************************************************************************)
(* The other actions, and the theorems.                                    *)
(***************************************************************************)

(* A routing change makes a version that no one has announced.             *)
LEMMA ChangeStep ==
    ASSUME IInv, NEW w \in Writers, ChangeRouting(w) \/ ChangeSilently(w)
    PROVE  IInv'
<1>1. /\ UNCHANGED <<threadVars, flight, cache, generation, announced, wshard, returned>>
      /\ table' = table + 1 /\ wpc[w] = "idle"
      /\ \/ wpc' = [wpc EXCEPT ![w] = "bump"] /\ version' = [version EXCEPT ![w] = table + 1]
         \/ UNCHANGED <<wpc, version>>
  BY Zenon DEF ChangeRouting, ChangeSilently, writerVars
<1>2. TypeOK'
  BY <1>1 DEF IInv, TypeOK, threadVars
<1>3. ThreadInv'
  BY Zenon, <1>1 DEF IInv, ThreadInv, HasFlight, threadVars
<1>4. FlightInv'
  BY Zenon, <1>1, FlightsUnchanged DEF IInv, threadVars
<1>5. RouteInv'
  <2> USE DEF IInv, RouteInv, TypeOK
  <2>1. VersionInv'  BY <1>1 DEF VersionInv
  <2>2. FloorInv'    BY <1>1 DEF FloorInv, HasFlight, threadVars
  <2>3. SameFloor'   BY Zenon, <1>1 DEF SameFloor, threadVars
  <2> QED  BY Zenon, <2>1, <2>2, <2>3
<1>6. CacheInv'
  <2>1. \A x \in Writers : wshard'[x] > 1 => version'[x] = version[x]
    BY <1>1 DEF IInv, TypeOK, RouteInv, VersionInv
  <2>2. \A q \in Questions : ShardOf[q] \in 1 .. NShards
    BY Zenon, ShardsAssumption DEF Shards
  <2>3. \A x \in Writers, q \in Questions : ShardOf[q] < wshard'[x] => version'[x] = version[x]
    BY <1>2, <2>1, <2>2, ShardsAssumption DEF TypeOK, Shards
  <2> QED  BY Zenon, <1>1, <2>3 DEF IInv, PacketInv, CacheInv
<1>7. \A u \in Threads : PacketOK(u)'
  BY <1>1, PacketsUnmoved DEF IInv, TypeOK
<1> QED  BY Zenon, <1>2, <1>3, <1>4, <1>5, <1>6, <1>7 DEF IInv, PacketInv

(* The new generation is no thread's yet.                                  *)
LEMMA BumpGenerationStep ==
    ASSUME IInv, NEW w \in Writers, BumpGeneration(w)
    PROVE  IInv'
<1> USE DEF BumpGeneration
<1>1. TypeOK'
  BY DEF IInv, TypeOK, threadVars
<1>2. ThreadInv'
  BY DEF IInv, ThreadInv, HasFlight, threadVars, TypeOK
<1>3. FlightInv'
  BY Zenon, FlightsUnchanged DEF IInv, threadVars
<1>4. RouteInv'
  <2> USE DEF IInv, RouteInv, TypeOK
  <2>1. VersionInv'  BY DEF VersionInv
  <2>2. FloorInv'    BY DEF FloorInv, VersionInv, ThreadInv, HasFlight, threadVars
  <2>3. SameFloor'   BY ZenonT(40) DEF SameFloor, threadVars
  <2> QED  BY Zenon, <2>1, <2>2, <2>3
<1>5. CacheInv'
  BY Zenon DEF IInv, PacketInv, CacheInv
<1>6. \A u \in Threads : PacketOK(u)'
  BY PacketsUnmoved DEF IInv, TypeOK
<1> QED  BY Zenon, <1>1, <1>2, <1>3, <1>4, <1>5, <1>6 DEF IInv, PacketInv

(* Starting a flush says nothing yet about the shards.                    *)
LEMMA FlushCacheStep ==
    ASSUME IInv, NEW w \in Writers, FlushCache(w)
    PROVE  IInv'
<1> USE DEF FlushCache, routeVars
<1>1. TypeOK'
  BY Zenon DEF IInv, TypeOK, threadVars
<1>2. ThreadInv'
  BY Zenon DEF IInv, ThreadInv, HasFlight, threadVars
<1>3. FlightInv'
  BY Zenon, FlightsUnchanged DEF IInv, threadVars
<1>4. RouteInv'
  <2> USE DEF IInv, RouteInv, TypeOK
  <2>1. VersionInv'  BY DEF VersionInv
  <2>2. FloorInv'    BY Zenon DEF FloorInv, HasFlight, threadVars
  <2>3. SameFloor'   BY ZenonT(40) DEF SameFloor, threadVars
  <2> QED  BY Zenon, <2>1, <2>2, <2>3
<1>5. CacheInv'
  <2>1. /\ \A x \in Writers : version'[x] = version[x] \/ version'[x] = 0
        /\ cache' = cache /\ returned' = returned /\ wshard' = wshard
    BY Zenon DEF IInv, TypeOK
  <2>2. SUFFICES ASSUME NEW q \in Questions, cache[q] # Nothing, ~cache[q].late,
                        NEW x \in Writers, ShardOf[q] < wshard[x]
                 PROVE  version'[x] <= cache[q].scopes
    BY Zenon, <2>1 DEF IInv, PacketInv, CacheInv
  <2>3. version[x] <= cache[q].scopes  BY Zenon, <2>2 DEF IInv, PacketInv, CacheInv
  <2>4. cache[q].scopes \in Nat  BY Zenon, <2>2, PacketFacts DEF IInv, TypeOK
  <2>5. version'[x] = version[x] \/ version'[x] = 0  BY Zenon, <2>1
  <2> QED  BY <2>3, <2>4, <2>5
<1>6. \A u \in Threads : PacketOK(u)'
  BY PacketsUnmoved DEF IInv, TypeOK
<1> QED  BY Zenon, <1>1, <1>2, <1>3, <1>4, <1>5, <1>6 DEF IInv, PacketInv

(* What is left in a flushed shard came after the flush.                   *)
LEMMA FlushShardStep ==
    ASSUME IInv, NEW w \in Writers, FlushShard(w)
    PROVE  IInv'
<1>1. /\ UNCHANGED <<threadVars, flight, routeVars, version>> /\ wpc[w] = "flush"
      /\ cache' = [q \in Questions |-> IF ShardOf[q] = wshard[w] THEN Nothing ELSE cache[q]]
      /\ \/ /\ wshard[w] < NShards /\ wshard' = [wshard EXCEPT ![w] = wshard[w] + 1]
            /\ UNCHANGED <<wpc, returned>>
         \/ /\ ~(wshard[w] < NShards) /\ wshard' = [wshard EXCEPT ![w] = 1]
            /\ wpc' = [wpc EXCEPT ![w] = "idle"]
            /\ returned' = IF version[w] > returned THEN version[w] ELSE returned
  BY Zenon DEF FlushShard
<1>2. TypeOK'
  BY <1>1, ShardsAssumption DEF IInv, TypeOK, threadVars, routeVars, Shards
<1>3. ThreadInv'
  BY Zenon, <1>1 DEF IInv, ThreadInv, HasFlight, threadVars, routeVars
<1>4. FlightInv'
  BY Zenon, <1>1, FlightsUnchanged DEF IInv, threadVars
<1>5. RouteInv'
  <2> USE DEF IInv, RouteInv, TypeOK, routeVars
  <2>1. VersionInv'  BY ZenonT(40), <1>1 DEF VersionInv
  <2>2. FloorInv'    BY <1>1 DEF FloorInv, HasFlight, threadVars
  <2>3. SameFloor'   BY Zenon, <1>1 DEF SameFloor, threadVars
  <2> QED  BY Zenon, <2>1, <2>2, <2>3
<1>6. CacheInv'
  <2> SUFFICES ASSUME NEW q \in Questions, cache'[q] # Nothing
               PROVE  /\ cache'[q].question = q /\ cache'[q].source = "cache"
                      /\ ~cache'[q].late =>
                            /\ returned' <= cache'[q].scopes
                            /\ \A x \in Writers : ShardOf[q] < wshard'[x] =>
                                                      version'[x] <= cache'[q].scopes
    BY Zenon DEF CacheInv
  <2>1. /\ cache'[q] = cache[q] /\ cache[q] # Nothing /\ ShardOf[q] # wshard[w]
        /\ cache[q].scopes \in Nat
    BY Zenon, <1>1, PacketFacts DEF IInv, TypeOK
  <2>2. ShardOf[q] \in 1 .. NShards /\ wshard[w] \in 1 .. NShards /\ NShards \in Nat
    BY Zenon, ShardsAssumption DEF IInv, TypeOK, Shards
  <2>3. /\ cache[q].question = q /\ cache[q].source = "cache"
        /\ ~cache[q].late => /\ returned <= cache[q].scopes
                             /\ \A x \in Writers : ShardOf[q] < wshard[x] =>
                                                       version[x] <= cache[q].scopes
    BY Zenon, <2>1 DEF IInv, PacketInv, CacheInv
  <2>4. ASSUME NEW x \in Writers, ShardOf[q] < wshard'[x]  PROVE ShardOf[q] < wshard[x]
    <3>1. \/ wshard'[x] = wshard[x]
          \/ x = w /\ (wshard'[x] = wshard[w] + 1 \/ wshard'[x] = 1)
      BY Zenon, <1>1 DEF IInv, TypeOK
    <3> QED  BY SMT, <2>1, <2>2, <2>4, <3>1
  <2>5. ~cache[q].late => returned' <= cache[q].scopes
    <3>1. CASE returned' = returned  BY Zenon, <2>3, <3>1
    <3>2. CASE ~(wshard[w] < NShards) /\ returned' = version[w]
      <4>1. ShardOf[q] < wshard[w]  BY SMT, <2>1, <2>2, <3>2
      <4> QED  BY Zenon, <2>3, <3>2, <4>1
    <3> QED  BY Zenon, <1>1, <3>1, <3>2
  <2> QED  BY Zenon, <1>1, <2>1, <2>3, <2>4, <2>5
<1>7. \A u \in Threads : PacketOK(u)'
  BY SMTT(60), <1>1, PacketsUnmoved DEF IInv, TypeOK, routeVars
<1> QED  BY Zenon, <1>2, <1>3, <1>4, <1>5, <1>6, <1>7 DEF IInv, PacketInv

(* Time takes entries away or makes them stale: both leave who asked,     *)
(* under which routing version, and how late they are.                    *)
LEMMA ExpireStep ==
    ASSUME IInv, NEW q \in Questions, Expire(q)
    PROVE  IInv'
<1> DEFINE c == cache[q]
           aged == [c EXCEPT !.stale = TRUE]
<1>1. /\ UNCHANGED <<threadVars, flight, routeVars, writerVars>> /\ c # Nothing
      /\ cache' = [cache EXCEPT ![q] = aged] \/ cache' = [cache EXCEPT ![q] = Nothing]
  BY Zenon DEF Expire, IInv, TypeOK
<1>2. /\ aged \in Answers /\ aged.question = c.question /\ aged.source = c.source
      /\ aged.scopes = c.scopes /\ aged.late = c.late
  <2>1. c \in Answers
    BY Zenon, <1>1 DEF IInv, TypeOK
  <2> HIDE DEF c
  <2> QED  BY Zenon, <2>1 DEF Answers
<1> HIDE DEF aged
<1>3. TypeOK'
  BY Zenon, <1>1, <1>2 DEF IInv, TypeOK, threadVars, routeVars, writerVars
<1>4. ThreadInv'
  BY Zenon, <1>1 DEF IInv, ThreadInv, HasFlight, threadVars, routeVars
<1>5. FlightInv'
  BY Zenon, <1>1, FlightsUnchanged DEF IInv, threadVars
<1>6. RouteInv'
  BY Zenon, <1>1 DEF IInv, RouteInv, VersionInv, FloorInv, SameFloor, HasFlight, threadVars, routeVars, writerVars
<1>7. CacheInv'
  <2> SUFFICES ASSUME NEW n \in Questions, cache'[n] # Nothing
               PROVE  /\ cache'[n].question = n /\ cache'[n].source = "cache"
                      /\ ~cache'[n].late =>
                            /\ returned' <= cache'[n].scopes
                            /\ \A x \in Writers : ShardOf[n] < wshard'[x] =>
                                                      version'[x] <= cache'[n].scopes
    BY Zenon DEF CacheInv
  <2>1. cache[n] # Nothing /\ (cache'[n] = cache[n] \/ (cache'[n] = aged /\ n = q))
    <3>1. cache \in [Questions -> Answers \cup {Nothing}]
      BY Zenon DEF IInv, TypeOK
    <3> QED  BY Zenon, <1>1, <3>1
  <2>2. /\ cache'[n].question = cache[n].question /\ cache'[n].source = cache[n].source
        /\ cache'[n].scopes = cache[n].scopes /\ cache'[n].late = cache[n].late
    BY Zenon, <1>2, <2>1
  <2> QED  BY Zenon, <1>1, <2>1, <2>2 DEF IInv, PacketInv, CacheInv, writerVars
<1>8. \A u \in Threads : PacketOK(u)'
  BY <1>1, PacketsUnmoved DEF IInv, TypeOK, routeVars
<1> QED  BY Zenon, <1>3, <1>4, <1>5, <1>6, <1>7, <1>8 DEF IInv, PacketInv

(* A fresh resolver: empty cache, no entry in flight, generation 1.       *)
LEMMA InitIInv == Init => IInv
<1> SUFFICES ASSUME Init  PROVE IInv
  OBVIOUS
<1>1. Unused \in Flights /\ Unused.listed = FALSE
  BY Zenon DEF Unused, Flights
<1> HIDE DEF Unused
<1>2. TypeOK
  BY <1>1, ShardsAssumption DEF Init, TypeOK, Steps, Shards
<1>3. ThreadInv
  BY Zenon DEF Init, ThreadInv, HasFlight, LeaderSteps, RoutedSteps
<1>4. FlightInv
  BY Zenon, <1>1 DEF Init, FlightInv, KeyInv, LeaderInv, WaitInv, ListedInv, OneLeader, OneEntry,
              HasFlight, LeaderSteps
<1>5. RouteInv
  BY DEF Init, RouteInv, VersionInv, FloorInv, SameFloor, HasFlight, LeaderSteps, RoutedSteps
<1>6. PacketInv
  BY Zenon, PacketFacts DEF Init, PacketInv, CacheInv, PacketOK, HasFlight, LeaderSteps
<1> QED  BY Zenon, <1>2, <1>3, <1>4, <1>5, <1>6 DEF IInv

(* Nothing changes when the resolver does nothing.                        *)
LEMMA StutterStep == IInv /\ UNCHANGED vars => IInv'
<1> SUFFICES ASSUME IInv, UNCHANGED vars  PROVE IInv'
  OBVIOUS
<1>1. TypeOK' /\ ThreadInv' /\ RouteInv' /\ CacheInv'
  BY Zenon DEF vars, threadVars, routeVars, writerVars, IInv, TypeOK, ThreadInv, HasFlight, RouteInv,
         VersionInv, FloorInv, SameFloor, PacketInv, CacheInv
<1>2. FlightInv'
  BY Zenon, FlightsUnchanged DEF IInv, vars, threadVars
<1>3. \A u \in Threads : PacketOK(u)'
  BY PacketsUnmoved DEF IInv, TypeOK, vars, routeVars
<1> QED  BY Zenon, <1>1, <1>2, <1>3 DEF IInv, PacketInv

(* Every step of a thread, a writer or time preserves the invariant.      *)
LEMMA NextIInv == IInv /\ [Next]_vars => IInv'
<1> SUFFICES ASSUME IInv, [Next]_vars  PROVE IInv'
  OBVIOUS
<1>1. ASSUME NEW t \in Threads, Begin(t) \/ Step(t)  PROVE IInv'
  BY Zenon, <1>1, BeginStep, AnswerLocallyStep, LoadGenerationStep, LookupCacheStep, SelectScopesStep,
     BeginFlightStep, ExchangeStep, InsertCacheStep, ServeStaleStep, PublishStep, RemoveStep,
     WaitStep DEF Step
<1>2. ASSUME NEW w \in Writers, Write(w)  PROVE IInv'
  BY Zenon, <1>2, ChangeStep, BumpGenerationStep, FlushCacheStep, FlushShardStep DEF Write
<1>3. ASSUME NEW q \in Questions, Expire(q)  PROVE IInv'
  BY Zenon, <1>3, ExpireStep
<1>4. CASE UNCHANGED vars
  BY Zenon, <1>4, StutterStep
<1> QED  BY Zenon, <1>1, <1>2, <1>3, <1>4 DEF Next, Quiescent

(* The inductive invariant holds throughout every behaviour.               *)
THEOREM Invariance == Spec => []IInv
BY InitIInv, NextIInv, PTL DEF Spec

(* Every variable of query_on_link, Inflight, the cache and the routing    *)
(* state keeps its type, whatever the threads do.                          *)
THEOREM TypeCorrect == Spec => []TypeOK
BY Invariance, PTL DEF IInv

(* At most one thread leads an exchange for given route and query bytes,   *)
(* for any number of threads, queries, links and routing changes.          *)
THEOREM SingleFlightHolds == Spec => []SingleFlight
<1>1. IInv => SingleFlight
  <2> SUFFICES ASSUME IInv, NEW t \in Threads, NEW u \in Threads, pc[t] \in LeaderSteps,
                      pc[u] \in LeaderSteps, KeyOf(t) = KeyOf(u)
               PROVE  t = u
    BY Zenon DEF SingleFlight
  <2>1. /\ entry[t] \in Entries /\ flight[entry[t]].listed /\ flight[entry[t]].key = KeyOf(t)
        /\ entry[u] \in Entries /\ flight[entry[u]].listed /\ flight[entry[u]].key = KeyOf(u)
    BY Zenon DEF IInv, ThreadInv, FlightInv, KeyInv, LeaderInv, HasFlight
  <2>2. entry[t] = entry[u]
    BY Zenon, <2>1 DEF IInv, FlightInv, OneEntry
  <2> QED  BY Zenon, <2>2 DEF IInv, FlightInv, OneLeader
<1> QED  BY <1>1, Invariance, PTL

(* A follower's leader is always on its way to it, and a listed entry's    *)
(* leader to removing it.                                                  *)
THEOREM WaitersHaveLeaderHolds == Spec => []WaitersHaveLeader
<1>1. IInv => WaitersHaveLeader
  <2> SUFFICES ASSUME IInv  PROVE WaitersHaveLeader
    OBVIOUS
  <2>1. ASSUME NEW t \in Threads, pc[t] = "wait", flight[entry[t]].running
        PROVE  \E u \in Threads : /\ pc[u] \in LeaderSteps \ {"remove"}
                                  /\ entry[u] = entry[t]
                                  /\ KeyOf(u) = KeyOf(t)
    <3>1. PICK u \in Threads : pc[u] \in LeaderSteps \ {"remove"} /\ entry[u] = entry[t]
      BY Zenon, <2>1 DEF IInv, FlightInv, WaitInv
    <3>2. KeyOf(u) = flight[entry[u]].key /\ KeyOf(t) = flight[entry[t]].key
      BY Zenon, <2>1, <3>1 DEF IInv, FlightInv, KeyInv, HasFlight
    <3> QED  BY Zenon, <3>1, <3>2
  <2>2. ListedInv
    BY Zenon DEF IInv, FlightInv
  <2> QED  BY Zenon, <2>1, <2>2 DEF WaitersHaveLeader, ListedInv
<1> QED  BY <1>1, Invariance, PTL

(* Coalescing in full: every exchange is shared and no follower stranded.  *)
THEOREM CoalescingHolds == Spec => []Coalescing
BY SingleFlightHolds, WaitersHaveLeaderHolds, PTL DEF Coalescing

(* A routing change that has returned shows in every later reply, but for  *)
(* packets that entered the cache late or were read from it in the middle  *)
(* of the change.                                                          *)
THEOREM RepliesReflectRoutingHolds == Spec => []RepliesReflectRouting
<1>1. IInv => RepliesReflectRouting
  <2> SUFFICES ASSUME IInv, NEW t \in Threads, pc[t] = "idle", reply[t].kind = "answer"
               PROVE  reply[t].scopes >= since[t] \/ reply[t].late
    BY Zenon DEF RepliesReflectRouting
  <2>1. reply[t] \in Answers /\ since[t] \in Nat
    BY Zenon, PacketFacts DEF IInv, TypeOK
  <2>2. reply[t].late \/ since[t] <= reply[t].scopes
    BY Zenon DEF IInv, PacketInv, PacketOK
  <2> QED  BY Zenon, <2>1, <2>2, PacketFacts
<1> QED  BY <1>1, Invariance, PTL

(***************************************************************************)
(* Refinement: each step of ResolverQuery is a step of QueryService under  *)
(* the mapping of Service, or leaves its variables unchanged.              *)
(***************************************************************************)
shownReply == [t \in Threads |-> IF pc[t] = "idle" THEN reply[t] ELSE Nothing]

asking == [t \in Threads |-> pc[t] # "idle"]

(* A thread in the middle of a query shows its client nothing.             *)
LEMMA HiddenStep ==
    ASSUME TypeOK, NEW t \in Threads, pc[t] # "idle", pc'[t] # "idle", Others(t),
           UNCHANGED <<query, floor, table>>
    PROVE  UNCHANGED Service!vars
<1>1. asking' = asking /\ shownReply' = shownReply
  BY Zenon DEF Others, asking, shownReply
<1> QED  BY Zenon, <1>1 DEF Service!vars, asking, shownReply

(* Finish(t, r) is Respond(t) when r fits the query.                       *)
LEMMA AnswerStep ==
    ASSUME TypeOK, NEW t \in Threads, pc[t] # "idle", NEW r, Finish(t, r), table' = table,
           r \in Verdicts \/ (r \in Answers /\ Service!Fits(r, query[t], floor[t], table))
    PROVE  Service!Respond(t)
<1>1. pc' = [pc EXCEPT ![t] = "idle"] /\ reply' = [reply EXCEPT ![t] = r]
      /\ UNCHANGED <<query, floor>>
  BY Zenon DEF Finish
<1>2. asking' = [asking EXCEPT ![t] = FALSE] /\ asking[t]
  BY Zenon, <1>1 DEF asking, TypeOK
<1>3. shownReply' = [shownReply EXCEPT ![t] = r] /\ shownReply'[t] = r
  BY Zenon, <1>1 DEF shownReply, TypeOK
<1> QED  BY Zenon, <1>1, <1>2, <1>3 DEF Service!Respond, asking, shownReply

(* A packet that suits t and carries its transaction ID fits its query.    *)
LEMMA SuitsFits ==
    ASSUME NEW t \in Threads, NEW a, Suits(a, t), a.id = query[t].id
    PROVE  Service!Fits(a, query[t], floor[t], table)
BY Zenon DEF Suits, Service!Fits

(* Each action of a thread asks, observes, responds, or shows nothing.     *)
LEMMA ThreadRefines ==
    ASSUME IInv, NEW t \in Threads, Begin(t) \/ Step(t)
    PROVE  [Service!Next]_Service!vars
<1> USE DEF IInv
<1>1. Others(t)
  BY Zenon, OthersUnchanged
<1>2. CASE Begin(t)
  <2>1. /\ pc[t] = "idle" /\ pc' = [pc EXCEPT ![t] = "local"]
        /\ reply' = [reply EXCEPT ![t] = Nothing] /\ UNCHANGED <<floor, table>>
        /\ query' = [query EXCEPT ![t] = query'[t]] /\ query'[t] \in Asks
    BY Zenon, <1>2 DEF Begin, GoTo, TypeOK, routeVars
  <2>2. asking' = [asking EXCEPT ![t] = TRUE] /\ ~asking[t]
    BY Zenon, <2>1 DEF asking, TypeOK
  <2>3. shownReply' = [shownReply EXCEPT ![t] = Nothing]
    BY Zenon, <2>1 DEF shownReply, TypeOK
  <2> QED  BY Zenon, <2>1, <2>2, <2>3 DEF Service!Ask, Service!Next, asking, shownReply
<1>3. CASE LoadGeneration(t)
  <2>1. /\ pc[t] = "route" /\ pc'[t] # "idle" /\ UNCHANGED <<query, table>>
        /\ floor' = [floor EXCEPT ![t] = announced]
    BY Zenon, <1>3 DEF LoadGeneration, GoTo, TypeOK, routeVars
  <2>2. asking' = asking /\ shownReply' = shownReply /\ asking[t]
    BY Zenon, <1>1, <2>1 DEF Others, asking, shownReply
  <2>3. floor'[t] = announced /\ announced \in 0 .. table
    BY <2>1 DEF TypeOK, RouteInv, VersionInv
  <2> QED  BY Zenon, <2>1, <2>2, <2>3 DEF Service!Observe, Service!Next, asking, shownReply
<1>4. ASSUME pc[t] # "idle", pc'[t] # "idle", UNCHANGED <<query, floor, table>>
      PROVE  [Service!Next]_Service!vars
  BY Zenon, <1>1, <1>4, HiddenStep
<1>5. ASSUME NEW r, pc[t] # "idle", Finish(t, r), table' = table,
             r \in Verdicts \/ (r \in Answers /\ Service!Fits(r, query[t], floor[t], table))
      PROVE  [Service!Next]_Service!vars
  BY Zenon, <1>5, AnswerStep DEF Service!Next
<1>6. CASE AnswerLocally(t)
  BY Zenon, <1>4, <1>5, <1>6 DEF AnswerLocally, Finish, GoTo, Verdicts, TypeOK, routeVars
<1>7. CASE LookupCache(t)
  <2> DEFINE q == query[t].question
             c == cache[q]
  <2>1. /\ pc[t] = "lookup" /\ table' = table
        /\ \/ c # Nothing /\ Finish(t, Cached(t))
           \/ pc'[t] # "idle" /\ UNCHANGED <<query, floor>>
    BY Zenon, <1>7 DEF LookupCache, GoTo, TypeOK, routeVars
  <2>2. c # Nothing => Cached(t) \in Answers /\ Service!Fits(Cached(t), query[t], floor[t], table)
    <3> SUFFICES ASSUME c # Nothing
                 PROVE  Cached(t) \in Answers /\ Service!Fits(Cached(t), query[t], floor[t], table)
      OBVIOUS
    <3>1. query[t].id \in Nat /\ q \in Questions
      BY Zenon, <2>1, AskFacts DEF ThreadInv
    <3>2. c \in Answers /\ c.question = q /\ c.source = "cache"
      BY Zenon, <3>1 DEF TypeOK, PacketInv, CacheInv
    <3> QED  BY ZenonT(40), <3>1, <3>2, Retagged DEF Cached, Service!Fits
  <2> QED  BY Zenon, <1>4, <1>5, <2>1, <2>2
<1>8. CASE SelectScopes(t)
  BY Zenon, <1>4, <1>5, <1>8 DEF SelectScopes, Finish, GoTo, Verdicts, TypeOK, routeVars
<1>9. CASE BeginFlight(t)
  BY Zenon, <1>4, <1>9 DEF BeginFlight, GoTo, TypeOK, routeVars
<1>10. CASE Exchange(t) \/ InsertCache(t) \/ ServeStale(t) \/ Publish(t)
  BY Zenon, <1>4, <1>10 DEF Exchange, InsertCache, ServeStale, Publish, GoTo, TypeOK, routeVars
<1>11. CASE Remove(t)
  <2>1. pc[t] = "remove" /\ Finish(t, reply[t]) /\ table' = table
    BY Zenon, <1>11 DEF Remove, routeVars
  <2>2. reply[t] # Failed => reply[t] \in Answers /\ Service!Fits(reply[t], query[t], floor[t], table)
    BY Zenon, <2>1, SuitsFits DEF PacketInv, PacketOK
  <2> QED  BY Zenon, <1>5, <2>1, <2>2 DEF Verdicts
<1>12. CASE Wait(t)
  <2> DEFINE shared == flight[entry[t]].response
             mine == [shared EXCEPT !.id = query[t].id]
  <2>1. /\ pc[t] = "wait" /\ table' = table /\ ~flight[entry[t]].running
        /\ \/ shared # Nothing /\ Finish(t, mine)
           \/ pc'[t] # "idle" /\ UNCHANGED <<query, floor>>
    BY Zenon, <1>12 DEF Wait, GoTo, TypeOK, routeVars
  <2>2. shared # Nothing => mine \in Answers /\ Service!Fits(mine, query[t], floor[t], table)
    <3> SUFFICES ASSUME shared # Nothing
                 PROVE  mine \in Answers /\ Service!Fits(mine, query[t], floor[t], table)
      OBVIOUS
    <3>1. query[t].id \in Nat
      BY Zenon, <2>1, AskFacts DEF ThreadInv
    <3>2. shared \in Answers /\ Suits(shared, t)
      BY Zenon, <2>1 DEF PacketInv, PacketOK, HasFlight
    <3>3. mine \in Answers /\ mine.id = query[t].id /\ Suits(mine, t)
      BY <3>1, <3>2, Retagged DEF Suits
    <3> QED  BY Zenon, <3>3, SuitsFits
  <2> QED  BY Zenon, <1>4, <1>5, <2>1, <2>2
<1> QED  BY Zenon, <1>2, <1>3, <1>6, <1>7, <1>8, <1>9, <1>10, <1>11, <1>12 DEF Step

(* Writers reroute or show nothing.                                        *)
LEMMA WriterRefines ==
    ASSUME NEW w \in Writers, Write(w)
    PROVE  [Service!Next]_Service!vars
<1>1. UNCHANGED <<pc, query, reply, floor>> /\ (table' = table \/ table' = table + 1)
  BY Zenon DEF Write, ChangeRouting, ChangeSilently, BumpGeneration, FlushCache, FlushShard, threadVars,
         routeVars
<1> QED  BY Zenon, <1>1 DEF Service!Next, Service!Reroute, Service!vars

(* query_on_link, with its cache, its coalescing and the routing changes   *)
(* around it, implements QueryService: each query gets at most one reply,  *)
(* and the reply fits the query.                                           *)
THEOREM Implementation == Spec => ImplementsService
<1>1. Init => Service!Init
  BY Zenon DEF Init, Service!Init
<1>2. IInv /\ [Next]_vars => [Service!Next]_Service!vars
  <2> SUFFICES ASSUME IInv, [Next]_vars  PROVE [Service!Next]_Service!vars
    OBVIOUS
  <2>1. CASE UNCHANGED vars
    BY Zenon, <2>1 DEF vars, threadVars, routeVars, Service!vars
  <2>2. ASSUME NEW q \in Questions, Expire(q)  PROVE UNCHANGED Service!vars
    BY Zenon, <2>2 DEF Expire, threadVars, routeVars, Service!vars
  <2> QED  BY Zenon, <2>1, <2>2, ThreadRefines, WriterRefines DEF Next, Quiescent
<1> QED  BY <1>1, <1>2, Invariance, PTL DEF Spec, ImplementsService, Service!Spec
=============================================================================
