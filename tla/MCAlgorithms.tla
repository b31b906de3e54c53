---------------------------- MODULE MCAlgorithms ----------------------------
(***************************************************************************)
(* The pure algorithms on bounded inputs.  A state is one input, of the    *)
(* kind that world names, and the invariants compare what the code's       *)
(* functions return for it with the reference definitions of their         *)
(* modules.  Limits are scaled down together, so that short inputs reach   *)
(* them: 255 octets and 128 steps become 5 and 3 for single names, 7 and 4 *)
(* for messages.                                                           *)
(***************************************************************************)
EXTENDS Integers, Sequences, FiniteSets, SequencesExt

CONSTANT Worlds   \* the kinds of input to enumerate

VARIABLES world, input

Codec == INSTANCE NameCodec WITH MAX_NAME <- 5, MAX_STEPS <- 3
Wire == INSTANCE Messages WITH MAX_NAME <- 7, MAX_STEPS <- 4, MAX_MESSAGE <- 16
Chain == INSTANCE Redirects WITH CNAME_REDIRECTS_MAX <- 2, MAX_REDIRECT_CHAIN <- 8, MAX_LABELS <- 3
Denial == INSTANCE AggressiveNsec
Sig == INSTANCE Signatures WITH MAX_NAME <- 7, MAX_STEPS <- 4, SIGNATURE_TIME_SKEW <- 1, U32_MAX <- 9

Upto(n, S) == UNION {[1..m -> S] : m \in 0..n}

\* Packets: root, short labels, a letter that has two cases, and pointers.
Packets == Upto(6, {0, 1, 2, 65, 192}) \ {<<>>}
LabelLists == Upto(4, {<<>>, <<65>>, <<97, 1>>})

\* Messages about the name a: one question, two records, compressed or not,
\* of the types the code treats differently, cut or padded by an octet.
A == <<1, 97, 0>>
Pointer == <<192, 0>>
Record(name, type, ttl, rdata) == name \o <<type, ttl, Len(rdata)>> \o rdata
Records ==
    {Record(n, 1, t, <<7>>) : n \in {Pointer, A}, t \in {0, 3}}
    \union {Record(Pointer, 4, 2, d) : d \in {<<1, 98, 0>>, <<1, 98, 192, 0>>, Pointer, <<0, 0>>}}
    \union {Record(Pointer, 5, 3, <<0, 192, 0, 2>>), Record(Pointer, 5, 3, <<0, 192, 1, 1>>),
            Record(<<0>>, 6, 5, <<>>), Record(Pointer, 7, 1, <<>>), Record(<<0>>, 9, 1, <<1, 192, 1>>)}
Cut(body, by) == IF by = 1 THEN body \o <<0>> ELSE SubSeq(body, 1, Len(body) + by)
Sections == {<<2, 0>>, <<1, 1>>, <<0, 2>>, <<0, 1>>, <<1, 0>>, <<0, 0>>}
Message(response, rcode, an, ns, ar, body) ==
    [id |-> 1, opcode |-> 0, response |-> response, rcode |-> rcode, qd |-> 1,
     an |-> an, ns |-> ns, ar |-> ar, body |-> body]

Opt == Record(<<0>>, 6, 5, <<>>)
Asked ==
    {Message(FALSE, 0, 0, 0, IF opt = <<>> THEN 0 ELSE 1, n \o <<t>> \o opt) :
        n \in {<<1, 65, 0>>, <<0>>, <<2, 65, 66, 0>>}, t \in {1, 2, 3, 8}, opt \in {<<>>, Opt}}
Local == Upto(2, {[type |-> 1, value |-> <<7>>], [type |-> 2, value |-> <<7, 8>>],
                  [type |-> 3, value |-> <<<<97>>, <<98>>>>],
                  [type |-> 3, value |-> <<<<97>>, <<98>>, <<97>>>>]})

\* Sets of three records that redirect into each other, loops included.
Names == {<<"a">>, <<"b">>, <<"a", "b">>, <<>>}
Chained ==
    {[owner |-> n, type |-> "A", target |-> <<"1">>] : n \in Names}
    \union {[owner |-> <<"b">>, type |-> "AAAA", target |-> <<"2">>]}
    \union {[owner |-> n, type |-> "CNAME", target |-> t] :
                n \in Names \ {<<>>}, t \in Names \union {<<"a", "a", "b">>}}
    \union {[owner |-> n, type |-> "DNAME", target |-> t] : n \in Names, t \in Names}

Bitmaps == Upto(6, {0, 1, 2, 64, 128})
Keys == {<<1>>, <<1, 1>>, <<2>>, <<2, 0>>}

\* Data of the types whose names are in different places: as it stands in a
\* packet that starts with the name a, and what it says.
NameForms == {[cells |-> <<1, 97, 0>>, says |-> <<1, 97, 0>>],
              [cells |-> <<1, 65, 0>>, says |-> <<1, 97, 0>>],
              [cells |-> <<192, 0>>, says |-> <<1, 97, 0>>],
              [cells |-> <<1, 66, 192, 0>>, says |-> <<1, 98, 1, 97, 0>>]}
Around(before, n, after) == [cells |-> before \o n.cells \o after, says |-> before \o n.says \o after]
Forms(type) ==
    CASE type = 1 -> {[cells |-> d, says |-> d] : d \in {<<65>>, <<97>>}}
      [] type = 2 -> NameForms
      [] type = 6 -> {Around(<<0>>, n, <<5>>) : n \in NameForms}
      [] type = 16 -> {[cells |-> d, says |-> d] : d \in {<<1, 97>>, <<1, 65>>, <<0, 1, 65>>}}
      [] type = 15 -> {Around(<<65>>, n, <<>>) : n \in NameForms}
      [] type = 17 -> {Around(<<1, 97, 0>>, n, <<>>) : n \in NameForms}
      [] type = 26 -> {Around(<<65, 0>>, n, <<>>) : n \in NameForms}
      [] type = 33 -> {Around(<<65, 65, 65>>, n, <<>>) : n \in NameForms}
      [] type = 35 -> {Around(<<1, 1, 0, 1, 65, 0>>, n, <<>>) : n \in NameForms}
Types == {1, 2, 6, 15, 16, 17, 26, 33, 35}

\* A zone of the names a, b.a or *.a, and a question of what reached us that
\* differs from it in the data, in the owner, or in one of the other fields.
Zone(type, owner, labels, says) ==
    [type |-> type, class |-> 1, ttl |-> 3, owner |-> owner, labels |-> labels, rdatas |-> says,
     algorithm |-> 8, key_tag |-> 3336, signer |-> <<<<97>>>>, inception |-> 4, expiration |-> 6,
     key |-> <<9>>, signature |-> <<5>>]
Owners == {<<<<97>>>>, <<<<98>>, <<97>>>>}
Fields == [class : {1}, ttl : {3}, key : {<<256, 3, 8, 9>>}, keyOwner : {<<<<97>>>>}, now : {5}]
Astray == [class : {1, 2}, ttl : {2, 4}, keyOwner : Owners, now : 2..8,
           key : {<<flags, 3, 8, k>> : flags \in {0, 256, 384}, k \in {8, 9}}
                    \union {<<256, 3, 1, 9>>, <<256, 2, 8, 9>>}]

Init ==
    /\ \/ /\ world = "denial"
          /\ \E keys \in SUBSET Keys \ {{}}, asked \in Keys, t \in {1, 2}, n3 \in BOOLEAN :
                \E cached \in Upto(3, keys) :
                    input = [keys |-> keys, cached |-> cached, asked |-> asked, type |-> t, nsec3 |-> n3]
       \/ /\ world = "redirect"
          /\ \E r, s, t \in Chained, n \in Names \ {<<>>}, type \in {"A", "CNAME"} :
                input = [question |-> [name |-> n, type |-> type], records |-> {r, s, t}]
       \/ /\ world = "labels"
          /\ input \in LabelLists
       \/ /\ world = "query"
          /\ \E q \in Asked, l \in Local : input = [query |-> q, records |-> l]
       \/ /\ world = "message"
          /\ \E n \in {A, <<0>>}, r \in Upto(2, Records), c \in Sections, by \in -1..1, rcode \in {0, 3} :
                /\ c[1] + c[2] <= Len(r) /\ (rcode = 3 => by = 0)
                /\ input = Message(TRUE, rcode, c[1], c[2], Len(r) - c[1] - c[2],
                                   Cut(n \o <<1>> \o FlattenSeq(r), by))
       \/ /\ world = "packet"
          /\ \E p \in Packets, o \in 0..2 : input = [packet |-> p, offset |-> o]
       \/ /\ world = "bitmap"
          /\ \E b \in Bitmaps, t \in {1, 8, 257} : input = [bits |-> b, type |-> t]
       \/ /\ world = "signature"
          /\ \E t \in Types, o \in Owners, f \in Fields,
                z \in {<<n, Len(n)>> : n \in Owners} \union {<<<<<<42>>, <<97>>>>, 1>>} :
                \E s \in SUBSET {d.says : d \in Forms(t)} \ {{}}, r \in Upto(2, Forms(t)) \ {<<>>} :
                    input = [zone |-> Zone(t, z[1], z[2], s), owner |-> o, data |-> r, fields |-> f]
       \/ /\ world = "signature"
          /\ \E f \in Astray : input = [zone |-> Zone(1, <<<<97>>>>, 1, {<<65>>}), owner |-> <<<<97>>>>,
                                        data |-> <<[cells |-> <<65>>, says |-> <<65>>]>>, fields |-> f]
    /\ world \in Worlds
Next == UNCHANGED <<world, input>>
Spec == Init /\ [][Next]_<<world, input>>

-----------------------------------------------------------------------------
\* read_name accepts exactly the names of the reference walk and returns its
\* labels and the offset behind it; the five other decoders read the same names
\* as far as their limits go, and what the encoders write they all read back;
\* what validate_ingress lets through the mDNS decoders can read, and the walks
\* without pointers agree on the names that have none (NameCodec).
DecodersAgree ==
    /\ world = "packet" =>
          /\ Codec!ReadNameExact(input.packet, input.offset)
          /\ Codec!DecodersAgree(input.packet, input.offset)
          /\ Codec!IngressGuardsDecoding(input.packet, input.offset)
          /\ Codec!PlainWalksAgree(input.packet, input.offset)
    /\ world = "labels" => Codec!EncodedNamesDecode(input)

\* The walks over one message agree: the mDNS ingress check with the mDNS
\* parsers, the racing resolver's scans with the wire module; answers the
\* daemon makes up pass its own checks; and age_ttls takes the time off exactly
\* once and leaves the OPT record alone (Messages).
WalksAgree ==
    /\ world = "message" =>
          /\ Wire!MulticastWalksAgree(input)
          /\ Wire!ScansAgree(input, <<<<97>>>>)
          /\ \A elapsed \in {0, 1, 3} : Wire!LifetimesFall(input, elapsed)
    /\ world = "query" => Wire!LocalAnswersMatch(input.query, input.records, 2)

\* classify_redirect_chain says what the records say: direct answers, the
\* place where the chain leaves them, or that it is too long; and where it says
\* Direct, extract_address_records finds the addresses, but for a response with
\* a CNAME and an address at one owner, which it refuses, and one with a DNAME at
\* a name of the chain or above its end, which it follows (Redirects).
ClassifiedExactly ==
    world = "redirect" => /\ Chain!ClassifiedExactly(input.question, input.records)
                          /\ Chain!DirectAnswersExtracted(input.question, input.records)

\* The input's packet: the name a, the key, the signature, the DS record of
\* the zone's key, and the data.
ZoneKey == <<256, 3, 8, 9>>
Parts == <<<<1, 97, 0>>, input.fields.key,
           <<input.zone.type, 8, input.zone.labels, 3, 6, 4, 3336, 1, 65, 0, 5>>,
           <<3336, 8, 2>> \o Sig!resolved_dnssec_digest(2, <<1, 97, 0>> \o ZoneKey)>>
             \o [i \in 1..Len(input.data) |-> input.data[i].cells]
Place(n) == Len(FlattenSeq(SubSeq(Parts, 1, n)))
Part(n, labels, type, ttl) ==
    [labels |-> labels, type |-> type, class |-> input.fields.class, ttl |-> ttl,
     rdata_offset |-> Place(n - 1), next_offset |-> Place(n)]
Verified ==
    LET dnskey == Part(2, input.fields.keyOwner, 48, 3)
        rrset == [i \in 1..Len(input.data) |-> Part(i + 4, input.owner, input.zone.type, input.fields.ttl)]
    IN  /\ Sig!VerifiedExactly(FlattenSeq(Parts), Part(3, input.owner, 46, 3), rrset,
                               [i \in 1..Len(input.data) |-> input.data[i].says], dnskey,
                               input.fields.now, input.zone)
        /\ Sig!DsExact(FlattenSeq(Parts), Part(4, input.zone.signer, 43, 3), input.zone.signer, ZoneKey, dnskey)

\* Ranges deny nothing that exists, and all that does not once all are cached;
\* a type bitmap contains a type exactly when its window says so
\* (AggressiveNsec).  verify_rrsig accepts an RRset exactly when the zone signed
\* it and no longer datum comes before a shorter one in the order it was signed
\* in, a DS record matches its own key alone, and a bitmap parse_type_bitmap
\* accepts says the same to the cached ranges (Signatures).
DnssecExact ==
    /\ world = "signature" => Verified
    /\ world = "bitmap" => \A salt \in {<<1>>, <<1, 2>>} :
                              Sig!BitmapsAgree(input.bits, input.type, salt, <<3>> \o salt)
    /\ world = "bitmap" => Denial!BitmapExact(input.bits, input.type)
    /\ world = "denial" =>
          Denial!DenialsTrue(input.keys, input.cached, input.asked, input.type, <<0, 1, 64>>, input.nsec3)
=============================================================================
