------------------------------- MODULE Messages -------------------------------
(***************************************************************************)
(* Whole messages: how the repository walks the sections of one, builds    *)
(* the answers it gives itself, and keeps the lifetimes of what it caches. *)
(* The wire module (parse_sections, validate, local_response,              *)
(* cache_lifetime, age_ttls), the mDNS code (validate_sections,            *)
(* parse_message, parse_response_records) and the racing resolver          *)
(* (extract_min_ttl, extract_addrs, extract_cname_target) each have a walk *)
(* of their own; they are compared on the same messages.                   *)
(*                                                                         *)
(* A message is its header's fields and a body, which starts at offset 0.  *)
(* Every fixed field is one octet: a question is a name and a type, a      *)
(* record is a name, a type, a TTL, the length of its data and the data.   *)
(* There is one class.                                                     *)
(***************************************************************************)
EXTENDS NameCodec, FiniteSetsExt

CONSTANT MAX_MESSAGE  \* octets of a response the daemon writes (65535)

TYPE_A == 1
TYPE_AAAA == 2
TYPE_PTR == 3
TYPE_CNAME == 4
TYPE_SOA == 5
TYPE_OPT == 6
TYPE_TSIG == 7
TYPE_SRV == 9
TYPE_ANY == 8
QuestionFields == 1
RecordFields == 3
Total(m) == m.an + m.ns + m.ar
Least(S) == IF S = {} THEN {} ELSE {Min(S)}

\* --------------------------------------------------------------- the wire module
Bad == [ok |-> FALSE, at |-> 0, questions |-> <<>>, records |-> <<>>]
Question(name, packet) ==
    [labels |-> name.labels, type |-> At(packet, name.next)]
Record(name, packet) ==
    [labels |-> name.labels, type |-> At(packet, name.next),
     ttl |-> At(packet, name.next + 1), ttl_offset |-> name.next + 1,
     rdata_offset |-> name.next + RecordFields,
     next_offset |-> name.next + RecordFields + At(packet, name.next + 2)]

\* One question, or one record, read behind a walk w: Bad once it fails.
parse_question(packet, name, w) ==
    IF ~w.ok \/ ~name.ok \/ name.next + QuestionFields > Len(packet) THEN Bad
    ELSE [w EXCEPT !.at = name.next + QuestionFields,
                   !.questions = Append(@, Question(name, packet))]
parse_record(packet, name, w) ==
    IF \/ ~w.ok \/ ~name.ok \/ name.next + RecordFields > Len(packet)
       \/ Record(name, packet).next_offset > Len(packet)
    THEN Bad
    ELSE [w EXCEPT !.at = Record(name, packet).next_offset,
                   !.records = Append(@, Record(name, packet))]

Times(n) == [i \in 1..n |-> i]
Start == [ok |-> TRUE, at |-> 0, questions |-> <<>>, records |-> <<>>]
Sections(m, Name(_, _)) ==
    LET q == FoldLeft(LAMBDA w, i : parse_question(m.body, Name(m.body, w.at), w),
                      Start, Times(m.qd))
    IN  FoldLeft(LAMBDA w, i : parse_record(m.body, Name(m.body, w.at), w),
                 q, Times(Total(m)))
parse_sections(m) == Sections(m, read_name)

validate(m, expect_response) ==
    LET w == parse_sections(m)
    IN  /\ w.ok
        /\ m.response = expect_response
        /\ m.opcode = 0
        /\ w.questions # <<>>
        /\ ~expect_response => m.qd = 1
        /\ w.at = Len(m.body)

first_question(m) == parse_sections([m EXCEPT !.qd = 1, !.an = 0, !.ns = 0, !.ar = 0]).questions[1]
question_end(m) == parse_sections([m EXCEPT !.an = 0, !.ns = 0, !.ar = 0]).at

response_matches(query, response) ==
    /\ validate(query, FALSE)
    /\ validate(response, TRUE)
    /\ query.id = response.id
    /\ first_question(query) = first_question(response)

\* servfail_for and refused_for: the query's question alone, and the code.
Answer(query, rcode, body, an) ==
    [query EXCEPT !.response = TRUE, !.rcode = rcode, !.body = body,
                  !.an = an, !.ns = 0, !.ar = 0]
servfail_for(query) == Answer(query, 2, SubSeq(query.body, 1, question_end(query)), 0)
refused_for(query) == Answer(query, 5, SubSeq(query.body, 1, question_end(query)), 0)

\* local_response: the records of the asked type, each owned by a pointer to
\* the question's name.  The error is "none".
Wanted(query, record) ==
    record.type = first_question(query).type \/ first_question(query).type = TYPE_ANY
Rdata(record) == IF record.type = TYPE_PTR THEN encode_name(record.value) ELSE record.value
AnswerOctets(record, ttl) ==
    <<192, 0, record.type, ttl, Len(Rdata(record))>> \o Rdata(record)
count_records_after_question(body, end) ==
    LET n[at \in 0..Len(body)] ==
            IF at = Len(body) THEN 0
            ELSE 1 + n[Record(read_name(body, at), body).next_offset]
    IN  n[end]
local_response(query, records, ttl) ==
    LET wanted == SelectSeq(records, LAMBDA r : Wanted(query, r))
        body == SubSeq(query.body, 1, question_end(query))
                   \o FlattenSeq([i \in 1..Len(wanted) |-> AnswerOctets(wanted[i], ttl)])
    IN  IF \/ ~validate(query, FALSE)
           \/ \E i \in 1..Len(wanted) : Rdata(wanted[i]) = <<>>
           \/ Len(body) > MAX_MESSAGE
        THEN {}
        ELSE {Answer(query, 0, body, count_records_after_question(body, question_end(query)))}

\* The lifetime cached with a response: the least TTL of its answers, or of
\* the SOA records of a negative one; {} for not at all.
soa_minimum(m, record) ==
    LET first == read_name(m.body, record.rdata_offset)
        second == read_name(m.body, first.next)
    IN  IF first.ok /\ second.ok /\ second.next + 1 = record.next_offset
        THEN {At(m.body, second.next)} ELSE {}
cache_lifetime(m) ==
    LET records == parse_sections(m).records
        Section(first, last) == {records[i] : i \in first..last}
        Negative(r) == {Min({r.ttl, minimum}) : minimum \in soa_minimum(m, r)}
    IN  CASE ~parse_sections(m).ok \/ ~m.response -> {}
          [] \E i \in 1..Len(records) : records[i].type = TYPE_TSIG -> {}
          [] m.rcode = 3 \/ m.an = 0 ->
               Least(UNION {Negative(r) : r \in {s \in Section(m.an + 1, m.an + m.ns) :
                                                   s.type = TYPE_SOA}})
          [] OTHER -> Least({r.ttl : r \in {s \in Section(1, m.an) : s.type # TYPE_OPT}})

\* age_ttls: the time an answer has spent in the cache comes off every TTL.
age_ttls(m, elapsed, stale) ==
    LET w == parse_sections(m)
        Aged(ttl) == IF stale \/ elapsed > ttl THEN 0 ELSE ttl - elapsed
        Age(body, r) ==
            IF r.type = TYPE_OPT THEN body ELSE [body EXCEPT ![r.ttl_offset + 1] = Aged(r.ttl)]
    IN  IF w.ok THEN [m EXCEPT !.body = FoldLeft(Age, m.body, w.records)] ELSE m

\* extract_ptr_names: the names of the PTR answers; {} when one cannot be read.
extract_ptr_names(m) ==
    LET w == parse_sections([m EXCEPT !.ns = 0, !.ar = 0])
        ptrs == SelectSeq(w.records, LAMBDA r : r.type = TYPE_PTR)
        names == [i \in 1..Len(ptrs) |-> read_name(m.body, ptrs[i].rdata_offset)]
    IN  IF ~w.ok \/ ~m.response \/ \E i \in 1..Len(names) : ~names[i].ok THEN {}
        ELSE {[i \in 1..Len(names) |-> names[i].labels]}

\* ---------------------------------------------------------------- multicast
MutantValidateSections(m) == Sections(m, skip_name).ok
\* validate_sections, before anything of an mDNS packet is used.
validate_sections(m) ==
    LET w == Sections(m, skip_name) IN w.ok /\ w.at = Len(m.body)

\* expand_rdata writes the names inside the data out: as a set, {} the error.
Expanded(octets, labels) == {[octets |-> octets, labels |-> labels]}
NameAlone(packet, from, r, Name(_, _)) ==
    LET n == Name(packet, from)
    IN  IF n.ok /\ n.next = r.next_offset
        THEN Expanded(SubSeq(packet, r.rdata_offset + 1, from), n.labels) ELSE {}
Verbatim(packet, r) ==
    Expanded(SubSeq(packet, r.rdata_offset + 1, r.next_offset), <<>>)
expand_rdata_responder(packet, r) ==
    CASE r.type \in {TYPE_CNAME, TYPE_PTR} ->
           NameAlone(packet, r.rdata_offset, r, decode_name_responder)
      [] r.type = TYPE_SRV ->
           IF r.rdata_offset + 1 > r.next_offset THEN {}
           ELSE NameAlone(packet, r.rdata_offset + 1, r, decode_name_responder)
      [] OTHER -> Verbatim(packet, r)
expand_rdata_runtime(packet, r) ==
    CASE r.type \in {TYPE_CNAME, TYPE_PTR} ->
           NameAlone(packet, r.rdata_offset, r, decode_name_runtime)
      [] r.type = TYPE_SRV ->
           IF r.rdata_offset + 1 > r.next_offset THEN {}
           ELSE NameAlone(packet, r.rdata_offset + 1, r, decode_name_runtime)
      [] r.type = TYPE_SOA ->
           LET mname == decode_name_runtime(packet, r.rdata_offset)
               rname == decode_name_runtime(packet, mname.next)
           IN  IF mname.ok /\ rname.ok /\ rname.next + 1 = r.next_offset
               THEN Expanded(<<At(packet, rname.next)>>, mname.labels \o rname.labels) ELSE {}
      [] OTHER -> Verbatim(packet, r)

\* parse_message of the responder and parse_response_records of the runtime:
\* every record, its data expanded, and nothing behind the last.
Parsed(m, w, Expand(_, _)) ==
    IF \/ ~w.ok \/ w.at # Len(m.body)
       \/ \E i \in 1..Len(w.records) : Expand(m.body, w.records[i]) = {}
    THEN {} ELSE {w.records}
parse_message(m) == Parsed(m, Sections(m, decode_name_responder), expand_rdata_responder)
parse_response_records(m) ==
    Parsed(m, Sections(m, decode_name_runtime), expand_rdata_runtime)

\* ------------------------------------------------------ the racing resolver
\* Its scans go over names without following a pointer; one of them checks
\* the bits of a length and counts the labels.
HyperSkip(packet, offset, strict) ==
    LET s[at \in Nat, hops \in Nat] ==
            CASE at >= Len(packet) -> Err
              [] strict /\ hops > MAX_STEPS -> Err
              [] At(packet, at) = 0 -> Ok(<<>>, at + 1)
              [] IsPointer(At(packet, at)) -> Ok(<<>>, at + 2)
              [] strict /\ BadBits(At(packet, at)) -> Err
              [] OTHER -> s[at + 1 + (At(packet, at) % 64), hops + 1]
    IN  s[offset, 0]
Scan == [going |-> TRUE, none |-> FALSE, at |-> 0, found |-> <<>>]
ScanQuestion(s, name) ==
    IF s.going /\ name.ok THEN [s EXCEPT !.at = name.next + QuestionFields]
    ELSE [s EXCEPT !.going = FALSE, !.none = TRUE]

\* extract_min_ttl: a name that cannot be skipped gives up, a record cut short
\* ends the scan; the length of the data is trusted.
MinTtlRecord(packet, s, name) ==
    CASE ~s.going -> s
      [] ~name.ok -> [s EXCEPT !.going = FALSE, !.none = TRUE]
      [] name.next + RecordFields > Len(packet) -> [s EXCEPT !.going = FALSE]
      [] OTHER -> [s EXCEPT !.found = Append(@, At(packet, name.next + 1)),
                            !.at = name.next + RecordFields + At(packet, name.next + 2)]
extract_min_ttl(m) ==
    LET q == FoldLeft(LAMBDA s, i : ScanQuestion(s, HyperSkip(m.body, s.at, TRUE)),
                      Scan, Times(m.qd))
        r == FoldLeft(LAMBDA s, i : MinTtlRecord(m.body, s, HyperSkip(m.body, s.at, TRUE)),
                      q, Times(m.an + m.ns))
    IN  IF r.none THEN {} ELSE Least({r.found[i] : i \in 1..Len(r.found)})

\* extract_addrs: whatever was found before the scan had to end.
AddrRecord(packet, s, name, type, size) ==
    IF \/ ~s.going \/ ~name.ok \/ name.next + RecordFields > Len(packet)
       \/ Record(name, packet).next_offset > Len(packet)
    THEN [s EXCEPT !.going = FALSE]
    ELSE LET r == Record(name, packet)
         IN  [s EXCEPT !.at = r.next_offset,
                       !.found = IF r.type = type /\ r.next_offset - r.rdata_offset = size
                                 THEN Append(@, SubSeq(packet, r.rdata_offset + 1, r.next_offset))
                                 ELSE @]
extract_addrs(m, type, size) ==
    LET q == FoldLeft(LAMBDA s, i : ScanQuestion(s, HyperSkip(m.body, s.at, FALSE)),
                      Scan, Times(m.qd))
    IN  FoldLeft(LAMBDA s, i : AddrRecord(m.body, s, HyperSkip(m.body, s.at, FALSE), type, size),
                 q, Times(m.an)).found

\* extract_cname_target: the first CNAME of the owner ends the scan, whatever
\* follows it.
CnameRecord(packet, s, name, owner) ==
    CASE ~s.going -> s
      [] \/ ~name.ok \/ name.next + RecordFields > Len(packet)
         \/ Record(name, packet).next_offset > Len(packet) ->
           [s EXCEPT !.going = FALSE, !.none = TRUE]
      [] At(packet, name.next) = TYPE_CNAME /\ name.labels = owner ->
           LET target == decompress_name(packet, name.next + RecordFields)
           IN  [s EXCEPT !.going = FALSE, !.none = ~target.ok, !.found = <<target.labels>>]
      [] OTHER -> [s EXCEPT !.at = Record(name, packet).next_offset]
extract_cname_target(m, owner) ==
    LET q == FoldLeft(LAMBDA s, i : ScanQuestion(s, decompress_name(m.body, s.at)),
                      Scan, Times(m.qd))
        r == FoldLeft(LAMBDA s, i : CnameRecord(m.body, s, decompress_name(m.body, s.at), owner),
                      q, Times(m.an))
    IN  IF r.none THEN <<>> ELSE r.found

\* ------------------------------------------------------------- properties
Names(records) == [i \in 1..Len(records) |->
                      [labels |-> records[i].labels, type |-> records[i].type]]

\* Every answer the daemon makes up itself (local_response, servfail_for,
\* refused_for) passes the checks it makes of a server's answer to the same
\* query: it is well formed, its counts are right, it answers the question.
\* The local one holds the records of the asked type in order, all owned by
\* the name asked for, and the PTR names come back as they went in.
LocalAnswersMatch(query, records, ttl) ==
    validate(query, FALSE) =>
        /\ response_matches(query, servfail_for(query))
        /\ response_matches(query, refused_for(query))
        /\ \A r \in local_response(query, records, ttl) :
             LET wanted == SelectSeq(records, LAMBDA x : Wanted(query, x))
                 ptrs == SelectSeq(wanted, LAMBDA x : x.type = TYPE_PTR)
             IN  /\ response_matches(query, r)
                 /\ Names(parse_sections(r).records) =
                      [i \in 1..Len(wanted) |->
                          [labels |-> first_question(query).labels, type |-> wanted[i].type]]
                 /\ extract_ptr_names(r) = {[i \in 1..Len(ptrs) |-> ptrs[i].value]}
                 /\ wanted # <<>> => cache_lifetime(r) = {ttl}

\* Time comes off a cached answer exactly once: after age_ttls a positive
\* answer lives for what was left of its lifetime, no TTL has grown, the OPT
\* record (whose TTL field holds flags) is as it was, and the message still
\* parses to the same records.  A negative answer may live longer than what
\* was left, since the minimum inside its SOA does not age, but never longer
\* than at first.
LifetimesFall(m, elapsed) ==
    LET a == age_ttls(m, elapsed, FALSE)
        before == parse_sections(m).records
        after == parse_sections(a).records
    IN  validate(m, TRUE) =>
          /\ validate(a, TRUE)
          /\ Names(after) = Names(before)
          /\ \A i \in 1..Len(before) :
               IF before[i].type = TYPE_OPT THEN after[i].ttl = before[i].ttl
               ELSE /\ after[i].ttl <= before[i].ttl
                    /\ parse_sections(age_ttls(m, elapsed, TRUE)).records[i].ttl = 0
          /\ \A l \in cache_lifetime(m) : \E n \in cache_lifetime(a) :
               IF m.rcode # 3 /\ m.an > 0 THEN n = IF elapsed > l THEN 0 ELSE l - elapsed
               ELSE n <= l /\ n + elapsed >= l

\* What validate_sections lets through is walked alike by the responder, the
\* runtime and the wire module: the same owners and types, record by record,
\* and whatever the runtime takes the responder takes too.
MulticastWalksAgree(m) ==
    validate_sections(m) =>
        LET w == parse_sections(m)
        IN  /\ w.ok /\ w.at = Len(m.body)
            /\ \A r \in parse_message(m) \union parse_response_records(m) : r = w.records
            /\ parse_response_records(m) \subseteq parse_message(m)

\* The racing resolver's three scans, two of which follow no pointer and
\* check little, find in a well-formed response exactly what the wire
\* module's walk finds: the same addresses, the same least TTL, the first
\* CNAME of the owner.
ScansAgree(m, owner) ==
    LET w == parse_sections(m)
        answers == SubSeq(w.records, 1, m.an)
        as == SelectSeq(answers, LAMBDA r : r.type = TYPE_A
                                            /\ r.next_offset - r.rdata_offset = 1)
        cnames == SelectSeq(answers, LAMBDA r : r.type = TYPE_CNAME /\ r.labels = owner)
    IN  validate(m, TRUE) =>
          /\ extract_addrs(m, TYPE_A, 1) =
               [i \in 1..Len(as) |-> SubSeq(m.body, as[i].rdata_offset + 1, as[i].next_offset)]
          /\ extract_min_ttl(m) = Least({w.records[i].ttl : i \in 1..(m.an + m.ns)})
          /\ cnames # <<>> /\ read_name(m.body, cnames[1].rdata_offset).ok =>
               extract_cname_target(m, owner)
                 = <<read_name(m.body, cnames[1].rdata_offset).labels>>
=============================================================================
