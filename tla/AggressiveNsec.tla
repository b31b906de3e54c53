----------------------------- MODULE AggressiveNsec -----------------------------
(***************************************************************************)
(* Denials made from cached NSEC and NSEC3 records: the ranges of          *)
(* supremacy/nsec_agg.rs, and the type bitmaps in them.  A range is        *)
(* [nsec3, owner, next, bits, live, supported]: live stands for secure and *)
(* not expired, supported for parameters nsec3_hash accepts.  Owner and    *)
(* next of an NSEC range are wire names, of an NSEC3 range hashes; both    *)
(* are sequences of octets and compared as such.  A question is            *)
(* [name, hash, type], its hash that of the name under the zone's salt.    *)
(***************************************************************************)
EXTENDS Naturals, Sequences, FiniteSets

Less(a, b) ==
    \E i \in 1..Len(b) :
        /\ \A j \in 1..(i - 1) : j <= Len(a) /\ a[j] = b[j]
        /\ i > Len(a) \/ a[i] < b[i]

\* TypeBitmap::contains: window blocks [window, length, octets], in order.
Bit(octet, n) == (octet \div (2 ^ (7 - n))) % 2 = 1
RECURSIVE ContainsFrom(_, _, _, _)
ContainsFrom(bits, rrtype, offset, previous) ==
    LET window == bits[offset + 1]
        length == bits[offset + 2]
        byte == (rrtype % 256) \div 8
    IN  CASE offset >= Len(bits) \/ offset + 2 > Len(bits) -> FALSE
          [] length = 0 \/ length > 32 \/ offset + 2 + length > Len(bits) -> FALSE
          [] window \in previous \/ \E p \in previous : window < p -> FALSE
          [] window = rrtype \div 256 ->
               byte < length /\ Bit(bits[offset + 3 + byte], rrtype % 8)
          [] window > rrtype \div 256 -> FALSE
          [] OTHER -> ContainsFrom(bits, rrtype, offset + 2 + length, {window})
contains(bits, rrtype) == ContainsFrom(bits, rrtype, 0, {})

\* The open interval between owner and next; the last range of a chain wraps.
name_covers(owner, next, query) ==
    IF Less(owner, next) THEN Less(owner, query) /\ Less(query, next)
    ELSE Less(owner, query) \/ Less(query, next)
MutantHashCovers(owner, next, query) ==
    IF Less(owner, next) THEN Less(owner, query) /\ Less(query, next)
    ELSE Less(owner, query) /\ Less(query, next)
hash_covers(owner, next, query) ==
    IF Less(owner, next) THEN Less(owner, query) /\ Less(query, next)
    ELSE Less(owner, query) \/ Less(query, next)

\* The empty sequence where nsec3_hash refuses the parameters.
nsec3_hash(range, question) == IF range.supported THEN question.hash ELSE <<>>

\* What one range says, "skip" when nothing.
Verdict(range, question) ==
    LET asked == IF range.nsec3 THEN nsec3_hash(range, question) ELSE question.name
        covers == IF range.nsec3 THEN hash_covers(range.owner, range.next, asked)
                  ELSE name_covers(range.owner, range.next, asked)
    IN  CASE ~range.live \/ (range.nsec3 /\ asked = <<>>) -> "skip"
          [] asked = range.owner -> IF contains(range.bits, question.type) THEN "Miss" ELSE "NoData"
          [] covers -> "NxDomain"
          [] OTHER -> "skip"

\* lookup: the first range, zone by zone, that says something.
lookup(ranges, question) ==
    LET speaking == {i \in 1..Len(ranges) : Verdict(ranges[i], question) # "skip"}
    IN  IF speaking = {} THEN "Miss"
        ELSE Verdict(ranges[CHOOSE i \in speaking : \A j \in speaking : i <= j], question)

\* ------------------------------------------------------------- properties
\* The reference for a bitmap: where blocks may begin, one behind the other.
Starts(bits) ==
    LET s[n \in 0..Len(bits)] ==
            IF n = 0 THEN {0}
            ELSE {p + 2 + bits[p + 2] : p \in {q \in s[n - 1] : q + 2 <= Len(bits)
                                                               /\ bits[q + 2] \in 1..32}}
    IN  UNION {s[n] : n \in 0..Len(bits)}
Blocks(bits) == {p \in Starts(bits) : p + 2 <= Len(bits) /\ bits[p + 2] \in 1..32
                                     /\ p + 2 + bits[p + 2] <= Len(bits)}

\* contains finds a type exactly when the block of its window has its bit and
\* the windows up to there are in order: no octet of a bitmap is taken for
\* the window or the length of a block that it is not.
BitmapExact(bits, rrtype) ==
    contains(bits, rrtype) <=>
        \E p \in Blocks(bits) :
            /\ bits[p + 1] = rrtype \div 256
            /\ \A q \in Blocks(bits) : q < p => \A r \in Blocks(bits) :
                  (q < r /\ r <= p) => bits[q + 1] < bits[r + 1]
            /\ \E k \in 0..(bits[p + 2] - 1) :
                  k = (rrtype % 256) \div 8 /\ Bit(bits[p + 3 + k], rrtype % 8)

\* The chain of a zone whose names have the given keys (hashes, or wire names
\* whose order by octets is the order of the chain): every key and the next.
Following(keys, k) ==
    LET above == {x \in keys : Less(k, x)}
        candidates == IF above = {} THEN keys ELSE above
    IN  CHOOSE x \in candidates : \A y \in candidates : y = x \/ Less(x, y)
ChainRange(keys, k, bits, nsec3) ==
    [nsec3 |-> nsec3, owner |-> k, next |-> Following(keys, k), bits |-> bits,
     live |-> TRUE, supported |-> TRUE]

\* Whichever ranges of a zone's chain are cached, lookup denies no name of the
\* zone that exists and no type it has, and with the whole chain it denies
\* every name that does not exist, the ones before the first and behind the
\* last included.  Stated for one zone, for names in it, and for a chain that
\* is in the order lookup compares in: NSEC3 hashes always are, NSEC names
\* only where the order of their wire forms is the canonical one.
DenialsTrue(keys, cached, asked, rrtype, bits, nsec3) ==
    LET ranges == [i \in 1..Len(cached) |-> ChainRange(keys, cached[i], bits, nsec3)]
        answer == lookup(ranges, [name |-> asked, hash |-> asked, type |-> rrtype])
        complete == \A k \in keys : \E i \in 1..Len(cached) : cached[i] = k
    IN  /\ answer = "NxDomain" => asked \notin keys
        /\ answer = "NoData" => asked \in keys /\ ~contains(bits, rrtype)
        /\ (complete /\ asked \notin keys) => answer = "NxDomain"
        /\ (complete /\ asked \in keys /\ ~contains(bits, rrtype)) => answer = "NoData"
=============================================================================
