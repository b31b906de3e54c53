------------------------------- MODULE Redirects -------------------------------
(***************************************************************************)
(* CNAME and DNAME chains inside one response.  Two walks of the wire      *)
(* module follow them: classify_redirect_chain, which decides whether the  *)
(* resolver is done or asks again for the name at the end of the chain,    *)
(* and resolve_address_chain, which then takes the addresses out of the    *)
(* response.  A name is a sequence of labels, a record                     *)
(* [owner, type, target], the target of an address record an address.      *)
(***************************************************************************)
EXTENDS Naturals, Sequences, SequencesExt

CONSTANTS
    CNAME_REDIRECTS_MAX,  \* redirects of classify_redirect_chain
    MAX_REDIRECT_CHAIN,   \* iterations of resolve_address_chain
    MAX_LABELS            \* the longest name a DNAME may make

Invalid == [kind |-> "InvalidRecord", name |-> <<>>, redirects |-> 0]
CnameLoop == [kind |-> "CnameLoop", name |-> <<>>, redirects |-> 0]
NameTooLong == [kind |-> "NameTooLong", name |-> <<>>, redirects |-> 0]
NoData == [kind |-> "NoData", name |-> <<>>, redirects |-> 0]
At(kind, name, redirects) == [kind |-> kind, name |-> name, redirects |-> redirects]

Owners(records, types) == {r.owner : r \in {s \in records : s.type \in types}}
\* What a message says of an owner: repeated records count once.
DataOf(records, type, owner) ==
    {r.target : r \in {s \in records : s.type = type /\ s.owner = owner}}

\* insert_redirect: an owner with two different targets spoils the answer.
Consistent(records, type) ==
    \A owner \in Owners(records, {type}) :
        \A s, t \in DataOf(records, type, owner) : s = t

\* The covering DNAMEs of a name by the number of labels before the suffix:
\* rewrite_covering_dname starts behind the first label, rewrite_dname at the
\* name itself.  The closest one is taken; "none" and the error are sets.
Suffix(name, n) == SubSeq(name, n + 1, Len(name))
Covering(name, dnames, first) ==
    {n \in first..Len(name) : Suffix(name, n) \in Owners(dnames, {"DNAME"})}
Closest(S) == CHOOSE n \in S : \A k \in S : n <= k
Rewritten(name, dnames, n) ==
    {SubSeq(name, 1, n) \o t : t \in DataOf(dnames, "DNAME", Suffix(name, n))}
rewrite_covering_dname(name, dnames) ==
    LET covering == IF name = <<>> THEN {} ELSE Covering(name, dnames, 1)
    IN  IF covering = {} THEN {} ELSE Rewritten(name, dnames, Closest(covering))
rewrite_dname(name, dnames) ==
    LET covering == Covering(name, dnames, 0)
    IN  IF covering = {} THEN {} ELSE Rewritten(name, dnames, Closest(covering))
TooLong(targets) == \E t \in targets : Len(t) > MAX_LABELS

\* classify_redirect_chain: the loop, its visited names and its count.
Target(current, aliases, dnames) ==
    IF current \in Owners(aliases, {"CNAME"}) THEN DataOf(aliases, "CNAME", current)
    ELSE rewrite_covering_dname(current, dnames)
RECURSIVE Classify(_, _, _, _, _, _)
Classify(current, direct, aliases, dnames, visited, redirects) ==
    LET target == Target(current, aliases, dnames)
    IN  CASE current \in visited -> CnameLoop
          [] current \in direct -> At("Direct", current, redirects)
          [] current \notin Owners(aliases, {"CNAME"}) /\ TooLong(target) -> NameTooLong
          [] target = {} ->
               IF redirects = 0 THEN NoData ELSE At("Redirect", current, redirects)
          [] redirects >= CNAME_REDIRECTS_MAX -> CnameLoop
          [] OTHER -> Classify(CHOOSE t \in target : TRUE, direct, aliases, dnames,
                               visited \union {current}, redirects + 1)
MutantClassifyChain(name, direct, aliases, dnames) ==
    LET c == Classify(name, direct, aliases, dnames, {}, 0)
    IN  IF c.kind = "Redirect" /\ c.redirects = CNAME_REDIRECTS_MAX THEN CnameLoop ELSE c
classify_redirect_chain(name, direct, aliases, dnames) ==
    Classify(name, direct, aliases, dnames, {}, 0)

\* classify_redirect_answer: the answers of the asked type are direct, the
\* others count as redirects; an alias may own nothing else of interest.
classify_redirect_answer(question, rcode, records) ==
    LET wanted == {r \in records : question.type = "ANY" \/ r.type = question.type}
        others == records \ wanted
        direct == {r.owner : r \in wanted}
        aliased == Owners(others, {"CNAME"})
    IN  CASE rcode # 0 -> NoData
          [] ~Consistent(others, "CNAME") \/ ~Consistent(others, "DNAME") -> Invalid
          [] aliased \intersect (direct \union Owners(others, {"DNAME"})) # {} -> Invalid
          [] OTHER -> classify_redirect_chain(question.name, direct, others, others)

\* resolve_address_chain: aliases first, then DNAMEs, then the addresses of
\* the family at the name where the chain ends.
NoRecords == [kind |-> "InvalidRecord", name |-> <<>>, addresses |-> {}]
RECURSIVE AddressChain(_, _, _, _)
AddressChain(current, records, family, visited) ==
    LET target == IF current \in Owners(records, {"CNAME"})
                  THEN DataOf(records, "CNAME", current)
                  ELSE rewrite_dname(current, records)
    IN  CASE current \in visited \/ Len(SetToSeq(visited)) = MAX_REDIRECT_CHAIN -> NoRecords
          [] current \notin Owners(records, {"CNAME"}) /\ TooLong(target) ->
               [NoRecords EXCEPT !.kind = "NameTooLong"]
          [] target # {} -> AddressChain(CHOOSE t \in target : TRUE, records, family,
                                         visited \union {current})
          [] OTHER -> [kind |-> "Ok", name |-> current,
                       addresses |-> DataOf(records, family, current)]
resolve_address_chain(name, records, family) == AddressChain(name, records, family, {})

\* parse_address_answers and extract_address_records.
extract_address_records(question, records, family) ==
    IF \/ ~Consistent(records, "CNAME") \/ ~Consistent(records, "DNAME")
       \/ Owners(records, {"CNAME"}) \intersect Owners(records, {"A", "AAAA", "DNAME"}) # {}
    THEN NoRecords
    ELSE resolve_address_chain(question.name, records, family)

\* ------------------------------------------------------------- properties
\* The reference: the names reached after n redirects, without remembering
\* them; the empty set where the chain has ended or a name would be too long.
Successors(names, records) ==
    UNION {Target(n, records, records) : n \in names}
Reached(question, records) ==
    LET reach[n \in 0..(CNAME_REDIRECTS_MAX + 1)] ==
            IF n = 0 THEN {question.name} ELSE Successors(reach[n - 1], records)
    IN  reach
Ends(question, records, n) ==
    \E name \in Reached(question, records)[n] :
        name \in Owners(records, {question.type}) \/ Target(name, records, records) = {}

\* classify_redirect_chain ends for every response, and where the reference
\* ends: after the least number of redirects that comes to a name with the
\* asked records (Direct) or without a successor (Redirect, or NoData when it
\* is the name asked for).  It fails only on a loop, on more redirects than
\* allowed, or on a name that would grow too long.
ClassifiedExactly(question, records) ==
    LET c == classify_redirect_answer(question, 0, records)
        reach == Reached(question, records)
        ends == {n \in 0..CNAME_REDIRECTS_MAX : Ends(question, records, n)}
    IN  /\ c.kind \in {"Direct", "Redirect", "NoData"} =>
             /\ ends # {}
             /\ LET n == Closest(ends)
                    name == CHOOSE x \in reach[n] : TRUE
                IN  c = CASE name \in Owners(records, {question.type}) -> At("Direct", name, n)
                          [] n = 0 -> NoData
                          [] OTHER -> At("Redirect", name, n)
        /\ c.kind = "CnameLoop" => ends = {}
        /\ c.kind = "NameTooLong" => \E n \in 1..(CNAME_REDIRECTS_MAX + 1) : TooLong(reach[n])

\* An owner with a CNAME and an address, of the other family when
\* classify_redirect_answer lets it pass; a DNAME at a name of the chain or
\* above its end, where the second walk goes on and the first does not.
AliasWithAddress(records) ==
    Owners(records, {"CNAME"}) \intersect Owners(records, {"A", "AAAA"}) # {}
DnameAtChain(question, records, end) ==
    \/ Covering(end, records, 0) # {}
    \/ \E n \in 0..CNAME_REDIRECTS_MAX : \E name \in Reached(question, records)[n] :
          name \in Owners(records, {"DNAME"})

\* What classify_redirect_answer calls direct, extract_address_records finds:
\* the same name at the end of the chain and all its addresses.  There are
\* two exceptions.  An owner anywhere in the response with both a CNAME and an
\* address makes it fail; and where a name of the chain owns a DNAME, or one
\* owns or covers its end, the second walk applies the DNAME and the first
\* does not, so nothing is said.
DirectAnswersExtracted(question, records) ==
    LET c == classify_redirect_answer(question, 0, records)
        e == extract_address_records(question, records, question.type)
    IN  question.type \in {"A", "AAAA"} /\ c.kind = "Direct" =>
            IF AliasWithAddress(records) THEN e.kind = "InvalidRecord"
            ELSE ~DnameAtChain(question, records, c.name) =>
                    e = [kind |-> "Ok", name |-> c.name, addresses |-> DataOf(records, question.type, c.name)]

\* Refuted: without the exceptions.
DirectAlwaysExtracted(question, records) ==
    LET c == classify_redirect_answer(question, 0, records)
    IN  question.type \in {"A", "AAAA"} /\ c.kind = "Direct" =>
            extract_address_records(question, records, question.type).kind = "Ok"
=============================================================================
