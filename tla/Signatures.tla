------------------------------ MODULE Signatures ------------------------------
(***************************************************************************)
(* DNSSEC signatures: the records of wire/dnssec_records.rs, the canonical *)
(* form that dnssec/canonical.rs gives the signed data, and verify_rrsig   *)
(* and ds_matches_dnskey of dnssec.rs.                                     *)
(*                                                                         *)
(* Every fixed field is one octet, whatever its width.  A record is        *)
(* [labels, type, class, ttl, rdata_offset, next_offset]: its owner is     *)
(* decoded and lower-cased already (parse_record), its data still lies in  *)
(* the packet, names in it compressed or not.  A result that may be an     *)
(* error is a set, empty for the error.  The cryptography of OpenSSL is    *)
(* external: a digest is given by the operator Hash, and what a key has    *)
(* signed by the zone that a signature is checked against.                 *)
(***************************************************************************)
EXTENDS NameCodec, FiniteSets, AggressiveNsec

CONSTANTS
    SIGNATURE_TIME_SKEW,  \* seconds a signature counts early and late (3600)
    U32_MAX               \* the largest time a signature can name

TYPE_DS == 43
TYPE_RRSIG == 46
TYPE_NSEC == 47
TYPE_DNSKEY == 48
TYPE_NSEC3 == 50
TYPE_NSEC3PARAM == 51

Rdata(packet, r) == SubSeq(packet, r.rdata_offset + 1, r.next_offset)
From(s, i) == SubSeq(s, i, Len(s))

\* --------------------------------------------------------------- records
parse_dnskey(packet, r) ==
    LET d == Rdata(packet, r)
    IN  IF r.type # TYPE_DNSKEY \/ Len(d) < 3 \/ d[2] # 3 \/ From(d, 4) = <<>> THEN {}
        ELSE {[flags |-> d[1], algorithm |-> d[3], public_key |-> From(d, 4)]}

\* Digests of known types have one length, others any but none.
DigestLength(type) == CASE type = 1 -> 1 [] type = 2 -> 2 [] type = 4 -> 3
parse_ds(packet, r) ==
    LET d == Rdata(packet, r)
    IN  IF \/ r.type # TYPE_DS \/ Len(d) < 4
           \/ d[3] \in {1, 2, 4} /\ Len(From(d, 4)) # DigestLength(d[3])
        THEN {}
        ELSE {[key_tag |-> d[1], algorithm |-> d[2], digest_type |-> d[3], digest |-> From(d, 4)]}

RRSIG_FIXED_FIELDS_LEN == 7
RRSIG_MINIMUM_RDATA_LEN == RRSIG_FIXED_FIELDS_LEN + 2
parse_rrsig(packet, r) ==
    LET d == Rdata(packet, r)
        signer == read_name(packet, r.rdata_offset + RRSIG_FIXED_FIELDS_LEN)
    IN  IF \/ r.type # TYPE_RRSIG \/ Len(d) < RRSIG_MINIMUM_RDATA_LEN
           \/ ~signer.ok \/ signer.next >= r.next_offset
        THEN {}
        ELSE {[type_covered |-> d[1], algorithm |-> d[2], labels |-> d[3],
               original_ttl |-> d[4], expiration |-> d[5], inception |-> d[6],
               key_tag |-> d[7], signer |-> signer.labels,
               signature |-> SubSeq(packet, signer.next + 1, r.next_offset)]}

\* parse_type_bitmap: all of it must be blocks, in order, none of them ending
\* in an empty octet, and some type set.
Windows(bitmap) ==
    LET Behind(starts, i) ==
            LET at == Last(starts)
            IN  IF at + 2 > Len(bitmap) THEN starts ELSE Append(starts, at + 2 + bitmap[at + 2])
    IN  FoldLeft(Behind, <<0>>, bitmap)
parse_type_bitmap(bitmap) ==
    LET starts == Windows(bitmap)
        blocks == 1..(Len(starts) - 1)
        Length(b) == bitmap[starts[b] + 2]
        TypesOf(b) == {256 * bitmap[starts[b] + 1] + 8 * octet + bit :
                          octet \in 0..(Length(b) - 1), bit \in 0..7}
        Set(b, t) == Bit(bitmap[starts[b] + 3 + (t % 256) \div 8], t % 8)
    IN  IF \/ starts[Len(starts)] # Len(bitmap)
           \/ \E b \in blocks : \/ Length(b) = 0 \/ Length(b) > 32
                                \/ bitmap[starts[b + 1]] = 0
                                \/ b > 1 /\ bitmap[starts[b] + 1] <= bitmap[starts[b - 1] + 1]
        THEN {}
        ELSE {UNION {{t \in TypesOf(b) : Set(b, t)} : b \in blocks}} \ {{}}

parse_nsec(packet, r) ==
    LET next == read_name(packet, r.rdata_offset)
    IN  IF r.type # TYPE_NSEC \/ ~next.ok \/ next.next >= r.next_offset THEN {}
        ELSE {[next_domain |-> next.labels, types |-> types] :
                 types \in parse_type_bitmap(SubSeq(packet, next.next + 1, r.next_offset))}

\* [algorithm, flags, iterations, salt length, salt, hash length, hash, bitmap]
parse_nsec3(packet, r) ==
    LET d == Rdata(packet, r)
        salt_end == 4 + d[4]
        hash_end == salt_end + 1 + d[salt_end + 1]
    IN  CASE r.type # TYPE_NSEC3 \/ Len(d) < 5 -> {}
          [] salt_end >= Len(d) -> {}
          [] d[salt_end + 1] = 0 \/ hash_end >= Len(d) -> {}
          [] OTHER -> {[iterations |-> d[3], salt |-> SubSeq(d, 5, salt_end),
                        next_hashed_owner |-> SubSeq(d, salt_end + 2, hash_end), types |-> types] :
                          types \in parse_type_bitmap(From(d, hash_end + 1))}
parse_nsec3param(packet, r) ==
    LET d == Rdata(packet, r)
    IN  CASE r.type # TYPE_NSEC3PARAM \/ Len(d) < 4 -> {}
          [] 4 + d[4] # Len(d) -> {}
          [] OTHER -> {[iterations |-> d[3], salt |-> From(d, 5)]}

\* The key tag is a sum over octets, so the flags count as the two they are.
\* The sum of 65535 octets stays below 2^32: it never wraps.
dnskey_key_tag(packet, r) ==
    LET d == Rdata(packet, r)
        octets == <<d[1] \div 256, d[1] % 256>> \o From(d, 2)
        sum == FoldLeft(LAMBDA n, i : n + (IF i % 2 = 1 THEN 256 * octets[i] ELSE octets[i]),
                        0, [i \in 1..Len(octets) |-> i])
    IN  CASE r.type # TYPE_DNSKEY \/ Len(d) < 3 -> {}
          [] d[3] = 1 -> {256 * octets[Len(octets) - 2] + octets[Len(octets) - 1]}
          [] OTHER -> {(sum + ((sum \div 65536) % 65536)) % 65536}

\* -------------------------------------------------------- canonical form
canonical_wire(labels) ==
    FlattenSeq([i \in 1..Len(labels) |-> <<Len(labels[i])>> \o labels[i]]) \o <<0>>

\* The owner as it was signed: the wildcard, where the signature counts fewer
\* labels than the owner has.  label_offsets accepts every decoded name.
Star == <<42>>
canonical_owner(owner, labels) ==
    CASE labels > Len(owner) -> {}
      [] labels = Len(owner) -> {owner}
      [] OTHER -> {<<Star>> \o From(owner, Len(owner) - labels + 1)}

\* Names inside data are written out in lower case, the rest as it is.
canonical_single_name(packet, r, prefix) ==
    LET name == read_name(packet, r.rdata_offset + prefix)
    IN  IF Len(Rdata(packet, r)) < prefix + 1 \/ ~name.ok \/ name.next > r.next_offset THEN {}
        ELSE {SubSeq(Rdata(packet, r), 1, prefix) \o canonical_wire(name.labels)
                 \o SubSeq(packet, name.next + 1, r.next_offset)}
canonical_two_names(packet, r, prefix) ==
    LET first == read_name(packet, r.rdata_offset + prefix)
        second == read_name(packet, first.next)
    IN  IF \/ Len(Rdata(packet, r)) < prefix + 2 \/ ~first.ok \/ ~second.ok
           \/ second.next # r.next_offset
        THEN {}
        ELSE {SubSeq(Rdata(packet, r), 1, prefix) \o canonical_wire(first.labels)
                 \o canonical_wire(second.labels)}
SoaIntegers == 1
canonical_soa(packet, r) ==
    LET primary == read_name(packet, r.rdata_offset)
        mailbox == read_name(packet, primary.next)
    IN  IF ~primary.ok \/ ~mailbox.ok \/ mailbox.next + SoaIntegers # r.next_offset THEN {}
        ELSE {canonical_wire(primary.labels) \o canonical_wire(mailbox.labels)
                 \o SubSeq(packet, mailbox.next + 1, r.next_offset)}
\* Order, preference, three strings, and the name that replaces.
NaptrFixed == 2
OverString(packet, r, at) ==
    IF at >= Len(packet) THEN {} ELSE {at + 1 + At(packet, at)} \intersect (0..r.next_offset)
canonical_naptr(packet, r) ==
    LET behind == FoldLeft(LAMBDA places, i : UNION {OverString(packet, r, p) : p \in places},
                           {r.rdata_offset + NaptrFixed}, <<1, 2, 3>>)
    IN  IF Len(Rdata(packet, r)) < NaptrFixed + 4 THEN {}
        ELSE {SubSeq(packet, r.rdata_offset + 1, p) \o canonical_wire(read_name(packet, p).labels) :
                 p \in {q \in behind : /\ read_name(packet, q).ok
                                       /\ read_name(packet, q).next = r.next_offset}}
canonical_rdata(packet, r) ==
    CASE r.type \in {2, 3, 4, 5, 7, 8, 9, 12, 23, 30, 39, 47} -> canonical_single_name(packet, r, 0)
      [] r.type = 6 -> canonical_soa(packet, r)
      [] r.type \in {14, 17} -> canonical_two_names(packet, r, 0)
      [] r.type \in {15, 18, 21, 36, 64, 65, 107} -> canonical_single_name(packet, r, 1)
      [] r.type \in {24, 46} -> canonical_single_name(packet, r, RRSIG_FIXED_FIELDS_LEN)
      [] r.type = 26 -> canonical_two_names(packet, r, 1)
      [] r.type = 33 -> canonical_single_name(packet, r, 3)
      [] r.type = 35 -> canonical_naptr(packet, r)
      [] OTHER -> {Rdata(packet, r)}

rrsig_prefix(s) ==
    <<s.type_covered, s.algorithm, s.labels, s.original_ttl, s.expiration, s.inception, s.key_tag>>
        \o canonical_wire(s.signer)

\* The prefix and the records, each once and in the order of their octets,
\* with the signed owner and TTL in place of the received ones.
CanonicalRecord(owner, r, ttl, rdata) ==
    canonical_wire(owner) \o <<r.type, r.class, ttl, Len(rdata)>> \o rdata
canonical_signed_data(packet, s, rrset) ==
    LET Records(owner) == UNION {{CanonicalRecord(owner, rrset[i], s.original_ttl, d) :
                                     d \in canonical_rdata(packet, rrset[i])} : i \in 1..Len(rrset)}
    IN  IF \E i \in 1..Len(rrset) :
              \/ rrset[i].type # s.type_covered \/ rrset[i].class # rrset[1].class
              \/ rrset[i].labels # rrset[1].labels \/ canonical_rdata(packet, rrset[i]) = {}
        THEN {}
        ELSE {rrsig_prefix(s) \o FlattenSeq(SetToSortSeq(Records(owner), Less)) :
                 owner \in canonical_owner(rrset[1].labels, s.labels)}

\* The time is -1 before the epoch.
rrsig_time_valid(s, now) ==
    LET clamped == IF now > U32_MAX THEN U32_MAX ELSE now
    IN  /\ now >= 0
        /\ s.inception <= clamped + SIGNATURE_TIME_SKEW
        /\ s.expiration + SIGNATURE_TIME_SKEW >= clamped

\* ----------------------------------------------------------- verification
\* zone: what a key has signed, and the signature it got for it.  A key or a
\* signature that ffi/dnssec.c cannot take apart is an error there and FALSE
\* here.
resolved_dnssec_verify(zone, algorithm, key, data, signature) ==
    IF algorithm \notin {5, 7, 8, 10, 13, 14, 15} THEN {}
    ELSE {key = zone.key /\ data = zone.data /\ signature = zone.signature}
verify_signature(zone, algorithm, key, data, signature) ==
    IF algorithm \notin {5, 7, 8, 10, 13, 14, 15} THEN {}
    ELSE resolved_dnssec_verify(zone, algorithm, key, data, signature)

ZoneKey(flags) == (flags \div 256) % 2 = 1
Revoked(flags) == (flags \div 128) % 2 = 1
SignatureApplies(packet, s, k, rrsig, rrset, dnskey, now) ==
    /\ rrsig.class = rrset[1].class
    /\ rrsig.labels = rrset[1].labels
    /\ dnskey.class = rrset[1].class
    /\ dnskey.labels = s.signer
    /\ k.algorithm = s.algorithm
    /\ dnskey_key_tag(packet, dnskey) = {s.key_tag}
    /\ ZoneKey(k.flags) /\ ~Revoked(k.flags)
    /\ \A i \in 1..Len(rrset) : rrset[i].ttl <= s.original_ttl
    /\ rrsig_time_valid(s, now)
verify_rrsig(packet, rrsig, rrset, dnskey, now, zone) ==
    UNION {IF ~SignatureApplies(packet, s, k, rrsig, rrset, dnskey, now) THEN {FALSE}
           ELSE UNION {verify_signature(zone, s.algorithm, k.public_key, data, s.signature) :
                          data \in canonical_signed_data(packet, s, rrset)} :
              s \in IF rrset = <<>> THEN {} ELSE parse_rrsig(packet, rrsig),
              k \in parse_dnskey(packet, dnskey)}

\* External: EVP_Digest.  A digest is as long as its type says.
Hash(octets) == FoldLeft(LAMBDA h, o : (31 * h + o) % 65521, 7, octets)
resolved_dnssec_digest(type, octets) == [i \in 1..DigestLength(type) |-> Hash(octets) + i]
dnskey_ds_digest(packet, dnskey, digest_type) ==
    IF parse_dnskey(packet, dnskey) = {} \/ digest_type \notin {1, 2, 4} THEN {}
    ELSE {resolved_dnssec_digest(digest_type,
             canonical_wire(dnskey.labels) \o Rdata(packet, dnskey))}
ds_matches_dnskey(packet, ds, dnskey) ==
    UNION {IF d.algorithm # k.algorithm \/ dnskey_key_tag(packet, dnskey) # {d.key_tag} THEN {FALSE}
           ELSE {d.digest = digest : digest \in dnskey_ds_digest(packet, dnskey, d.digest_type)} :
              d \in parse_ds(packet, ds), k \in parse_dnskey(packet, dnskey)}

\* ------------------------------------------------------------- properties
\* The reference: what the signer of a zone signs.  A zone is the signed
\* owner, which may be a wildcard, the set of its data with names written out
\* in lower case, and the fields of its signature; nothing of a packet.  The
\* records are in the order of RFC 4034, section 6.3: that of their data, as
\* octets from the left.
SignedForm(z) ==
    LET ordered == SetToSortSeq(z.rdatas, Less)
        Record(d) == canonical_wire(z.owner) \o <<z.type, z.class, z.ttl, Len(d)>> \o d
    IN  <<z.type, z.algorithm, z.labels, z.ttl, z.expiration, z.inception, z.key_tag>>
            \o canonical_wire(z.signer)
            \o FlattenSeq([i \in 1..Len(ordered) |-> Record(ordered[i])])

\* canonical_signed_data sorts whole records, so the length of the data comes
\* before the data.  The two orders are the same unless longer data come
\* before shorter ones.
ShorterFirst(rdatas) == \A d, e \in rdatas : Less(d, e) => Len(d) <= Len(e)
OwnerOf(z, labels) ==
    \/ z.owner = labels /\ z.labels = Len(labels)
    \/ \E n \in 2..Len(labels) : z.owner = <<Star>> \o From(labels, n) /\ z.labels = Len(labels) - n + 1

\* verify_rrsig accepts an RRset exactly when the zone signed it: the same
\* data, in whatever order, case, compression and number of copies it came,
\* under the signed owner or a name its wildcard stands for, no TTL above the
\* signed one, inside the window of the signature, and by the zone's own key,
\* which is a zone key and not revoked; and the signed data come in the order
\* of their lengths.  An RRset for which the order of RFC 4034 puts longer data
\* first never verifies.  meant[i] is what rrset[i] says.
VerifiedExactly(packet, rrsig, rrset, meant, dnskey, now, z) ==
    LET zone == [key |-> z.key, signature |-> z.signature, data |-> SignedForm(z)]
    IN  TRUE \in verify_rrsig(packet, rrsig, rrset, dnskey, now, zone) <=>
            /\ \A i \in 1..Len(rrset) : /\ rrset[i].type = z.type /\ rrset[i].class = z.class
                                        /\ rrset[i].ttl <= z.ttl
            /\ OwnerOf(z, rrset[1].labels) /\ {meant[i] : i \in 1..Len(meant)} = z.rdatas
            /\ ShorterFirst(z.rdatas)
            /\ now + SIGNATURE_TIME_SKEW >= z.inception
            /\ now <= z.expiration + SIGNATURE_TIME_SKEW
            /\ \E key \in parse_dnskey(packet, dnskey) :
                  /\ key.public_key = z.key /\ key.algorithm = z.algorithm
                  /\ ZoneKey(key.flags) /\ ~Revoked(key.flags)
            /\ dnskey.labels = z.signer
            /\ rrsig.class = z.class /\ dnskey.class = z.class

\* A DS record that was made for the key with the given owner and data matches
\* that key and no other.
DsExact(packet, ds, owner, rdata, dnskey) ==
    TRUE \in ds_matches_dnskey(packet, ds, dnskey) <=>
        dnskey.labels = owner /\ Rdata(packet, dnskey) = rdata

\* Whatever parse_type_bitmap makes of a bitmap it accepts, the cached ranges
\* find the same types in it; and NSEC3 and NSEC records give it unchanged,
\* whatever salt, hash or name is before it.
BitmapsAgree(bits, rrtype, salt, hash) ==
    LET nsec3 == <<1, 0, 2, Len(salt)>> \o salt \o <<Len(hash)>> \o hash \o bits
        r == [type |-> TYPE_NSEC3, rdata_offset |-> 0, next_offset |-> Len(nsec3)]
        nsec == canonical_wire(<<salt>>) \o bits
        q == [type |-> TYPE_NSEC, rdata_offset |-> 0, next_offset |-> Len(nsec)]
    IN  /\ \A types \in parse_type_bitmap(bits) : rrtype \in types <=> contains(bits, rrtype)
        /\ parse_nsec3(nsec3, r) = {[iterations |-> 2, salt |-> salt, next_hashed_owner |-> hash,
                                     types |-> types] : types \in parse_type_bitmap(bits)}
        /\ parse_nsec(nsec, q) = {[next_domain |-> <<salt>>, types |-> types] :
                                     types \in parse_type_bitmap(bits)}
        /\ parse_nsec3param(SubSeq(nsec3, 1, 4 + Len(salt)),
                            [type |-> TYPE_NSEC3PARAM, rdata_offset |-> 0, next_offset |-> 4 + Len(salt)])
              = {[iterations |-> 2, salt |-> salt]}
=============================================================================
