---------------------------- MODULE QueryService ----------------------------
(***************************************************************************)
(* What Resolver::query_on_link promises a client, with every mechanism    *)
(* left out: no cache, no coalescing, no thread waiting for another.  A    *)
(* client asks; later it gets one reply, and the reply fits what was       *)
(* asked.  ResolverQuery is shown to implement this specification.         *)
(***************************************************************************)
EXTENDS Integers

CONSTANTS Threads,     \* the threads that call query_on_link
          Asks,        \* what a client may ask: [question, cd, link, mode, id]
          Answers,     \* the response packets a client may be handed
          Verdicts,    \* the replies that carry no upstream data
          Nothing      \* the query and the reply of a thread that has none yet

VARIABLES pending,     \* pending[t]: thread t has asked and has no reply yet
          query,       \* query[t]: what t asked last
          reply,       \* reply[t]: the reply t got to it
          floor,       \* floor[t]: the routing changes t's query has observed
          table        \* how many times the routing state has changed

vars == <<pending, query, reply, floor, table>>

(***************************************************************************)
(* A packet fits the query when it carries the client's own transaction    *)
(* ID and question, whoever fetched it.  A packet that a running exchange  *)
(* fetched was, besides, fetched for the same link with the same           *)
(* checking-disabled flag, over scopes no older than the routing changes   *)
(* the query had observed.  A cached packet promises ID and question.      *)
(***************************************************************************)
Fits(a, q, low, high) ==
    /\ a.id = q.id
    /\ a.question = q.question
    /\ a.source = "upstream" => /\ a.link = q.link
                                /\ a.cd = q.cd
                                /\ low <= a.scopes
                                /\ a.scopes <= high

Init ==
    /\ pending = [t \in Threads |-> FALSE]
    /\ query = [t \in Threads |-> Nothing]
    /\ reply = [t \in Threads |-> Nothing]
    /\ floor = [t \in Threads |-> 0]
    /\ table = 0

Ask(t) ==
    /\ ~pending[t]
    /\ pending' = [pending EXCEPT ![t] = TRUE]
    /\ query' = [query EXCEPT ![t] = query'[t]]
    /\ query'[t] \in Asks
    /\ reply' = [reply EXCEPT ![t] = Nothing]
    /\ UNCHANGED <<floor, table>>

(* The pending query takes notice of some of the routing changes made.     *)
Observe(t) ==
    /\ pending[t]
    /\ floor' = [floor EXCEPT ![t] = floor'[t]]
    /\ floor'[t] \in 0 .. table
    /\ UNCHANGED <<pending, query, reply, table>>

Respond(t) ==
    /\ pending[t]
    /\ pending' = [pending EXCEPT ![t] = FALSE]
    /\ reply' = [reply EXCEPT ![t] = reply'[t]]
    /\ \/ reply'[t] \in Verdicts
       \/ reply'[t] \in Answers /\ Fits(reply'[t], query[t], floor[t], table)
    /\ UNCHANGED <<query, floor, table>>

Reroute ==
    /\ table' = table + 1
    /\ UNCHANGED <<pending, query, reply, floor>>

Next == Reroute \/ \E t \in Threads : Ask(t) \/ Observe(t) \/ Respond(t)

Spec == Init /\ [][Next]_vars
=============================================================================
