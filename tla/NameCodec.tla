------------------------------ MODULE NameCodec ------------------------------
(***************************************************************************)
(* Names on the wire.  The repository decodes compressed names in six      *)
(* places: the wire module (read_name), the mDNS ingress check             *)
(* (skip_name), the mDNS query runtime and the mDNS responder              *)
(* (decode_name, twice), the racing resolver (decompress_name) and the NSS *)
(* module (dns_expand_name), and names without pointers in five more.      *)
(* Each is a function of a packet and an offset, compared here with one    *)
(* reference walk and with each other on every short packet.               *)
(*                                                                         *)
(* A packet is a sequence of octets, offsets count from 0.  The limits on  *)
(* the length of a name (255) and on the steps of a walk (128) are         *)
(* constants, so that short packets reach them.                            *)
(***************************************************************************)
EXTENDS Naturals, Sequences, SequencesExt

CONSTANTS
    MAX_NAME,   \* octets of an expanded name, the root's included
    MAX_STEPS   \* pointers of read_name, iterations of the bounded loops

At(packet, offset) == packet[offset + 1]
IsPointer(octet) == octet >= 192
BadBits(octet) == octet >= 64 /\ octet < 192
Target(packet, offset) == (At(packet, offset) % 64) * 256 + At(packet, offset + 1)
Lower(octet) == IF octet \in 65..90 THEN octet + 32 ELSE octet
Label(packet, offset) == SubSeq(packet, offset + 2, offset + 1 + At(packet, offset))
LowerLabel(packet, offset) ==
    LET l == Label(packet, offset) IN [i \in 1..Len(l) |-> Lower(l[i])]

Ok(labels, next) == [ok |-> TRUE, labels |-> labels, next |-> next]
Err == [ok |-> FALSE, labels |-> <<>>, next |-> 0]

\* Where a decoder is: the place it reads, the offset after the name once it
\* has jumped, what it has counted, the places it remembers, the labels.
Begin(offset) == [at |-> offset, next |-> 0, jumped |-> FALSE, steps |-> 0,
                  length |-> 0, seen |-> {}, labels |-> <<>>]
After(s) == IF s.jumped THEN s.next ELSE s.at + 1
Jump(packet, s) ==
    [s EXCEPT !.next = IF s.jumped THEN @ ELSE s.at + 2, !.jumped = TRUE,
              !.at = Target(packet, s.at), !.steps = @ + 1]
Over(packet, s) ==
    [s EXCEPT !.at = @ + 1 + At(packet, s.at), !.steps = @ + 1,
              !.length = @ + 1 + At(packet, s.at),
              !.labels = Append(@, LowerLabel(packet, s.at))]
Fits(packet, s) == s.at + 1 + At(packet, s.at) <= Len(packet)

\* --------------------------------------------------------------- decoders
RECURSIVE MutantReadFrom(_, _)
MutantReadFrom(packet, s) ==
    IF s.at >= Len(packet) THEN Err
    ELSE CASE At(packet, s.at) = 0 -> Ok(s.labels, After(s))
           [] IsPointer(At(packet, s.at)) ->
                IF \/ s.at + 1 >= Len(packet)
                   \/ Target(packet, s.at) >= s.at
                   \/ s.steps > MAX_STEPS
                THEN Err
                ELSE MutantReadFrom(packet, [Jump(packet, s) EXCEPT !.next = s.at + 2])
           [] BadBits(At(packet, s.at)) \/ ~Fits(packet, s) -> Err
           [] OTHER ->
                IF Over(packet, s).length + 1 > MAX_NAME THEN Err
                ELSE MutantReadFrom(packet, [Over(packet, s) EXCEPT !.steps = s.steps])

\* read_name: pointers lead backwards only and are counted; the length is
\* checked label by label.
RECURSIVE ReadFrom(_, _)
ReadFrom(packet, s) ==
    IF s.at >= Len(packet) THEN Err
    ELSE CASE At(packet, s.at) = 0 -> Ok(s.labels, After(s))
           [] IsPointer(At(packet, s.at)) ->
                IF \/ s.at + 1 >= Len(packet)
                   \/ Target(packet, s.at) >= s.at
                   \/ s.steps + 1 > MAX_STEPS
                THEN Err
                ELSE ReadFrom(packet, Jump(packet, s))
           [] BadBits(At(packet, s.at)) \/ ~Fits(packet, s) -> Err
           [] OTHER ->
                IF Over(packet, s).length + 1 > MAX_NAME THEN Err
                ELSE ReadFrom(packet, [Over(packet, s) EXCEPT !.steps = s.steps])
MutantReadName(packet, offset) == MutantReadFrom(packet, Begin(offset))
read_name(packet, offset) == ReadFrom(packet, Begin(offset))

\* skip_name of the mDNS ingress check: bounded iterations, pointers lead
\* backwards and no target twice; only the offset after the name is wanted.
RECURSIVE SkipFrom(_, _)
SkipFrom(packet, s) ==
    IF s.steps = MAX_STEPS \/ s.at >= Len(packet) THEN Err
    ELSE CASE IsPointer(At(packet, s.at)) ->
                IF \/ s.at + 1 >= Len(packet)
                   \/ Target(packet, s.at) >= s.at
                   \/ Target(packet, s.at) \in s.seen
                THEN Err
                ELSE SkipFrom(packet, [Jump(packet, s) EXCEPT
                                          !.seen = @ \union {Target(packet, s.at)}])
           [] BadBits(At(packet, s.at)) -> Err
           [] At(packet, s.at) = 0 -> Ok(<<>>, After(s))
           [] ~Fits(packet, s) \/ Over(packet, s).length + 1 > MAX_NAME -> Err
           [] OTHER -> SkipFrom(packet, Over(packet, s))
skip_name(packet, offset) == SkipFrom(packet, Begin(offset))

\* canonical_wire_name on the labels collected: the length, checked again.
canonical_wire_name(s) == s.length + 1 <= MAX_NAME

\* decode_name of the responder and of the query runtime: pointers may lead
\* forwards, but to no target twice; the runtime also checks the length early.
RECURSIVE DecodeFrom(_, _, _)
DecodeFrom(packet, early, s) ==
    IF s.steps = MAX_STEPS \/ s.at >= Len(packet) THEN Err
    ELSE CASE IsPointer(At(packet, s.at)) ->
                IF \/ s.at + 1 >= Len(packet)
                   \/ Target(packet, s.at) >= Len(packet)
                   \/ Target(packet, s.at) \in s.seen
                THEN Err
                ELSE DecodeFrom(packet, early, [Jump(packet, s) EXCEPT
                                                   !.seen = @ \union {Target(packet, s.at)}])
           [] BadBits(At(packet, s.at)) -> Err
           [] At(packet, s.at) = 0 ->
                IF canonical_wire_name(s) THEN Ok(s.labels, After(s)) ELSE Err
           [] ~Fits(packet, s) -> Err
           [] early /\ Over(packet, s).length >= MAX_NAME -> Err
           [] OTHER -> DecodeFrom(packet, early, Over(packet, s))
decode_name_responder(packet, offset) == DecodeFrom(packet, FALSE, Begin(offset))
decode_name_runtime(packet, offset) == DecodeFrom(packet, TRUE, Begin(offset))

\* decompress_name: pointers may lead forwards; every place read is
\* remembered and counted, labels and pointers alike.
RECURSIVE DecompressFrom(_, _)
DecompressFrom(packet, s) ==
    IF s.at >= Len(packet) \/ s.steps > MAX_STEPS \/ s.at \in s.seen THEN Err
    ELSE LET r == [s EXCEPT !.seen = @ \union {s.at}]
         IN  CASE At(packet, s.at) = 0 ->
                    IF s.length + 1 > MAX_NAME THEN Err ELSE Ok(s.labels, After(s))
               [] IsPointer(At(packet, s.at)) ->
                    IF s.at + 1 >= Len(packet) \/ Target(packet, s.at) >= Len(packet) THEN Err
                    ELSE DecompressFrom(packet, Jump(packet, r))
               [] BadBits(At(packet, s.at)) \/ ~Fits(packet, s) -> Err
               [] OTHER -> IF Over(packet, s).length + 1 > MAX_NAME THEN Err
                           ELSE DecompressFrom(packet, Over(packet, r))
decompress_name(packet, offset) == DecompressFrom(packet, Begin(offset))

\* dns_expand_name: pointers lead backwards and are counted; the length that
\* is checked is that of the text, a dot between labels and none after them.
TextLength(s) == IF s.labels = <<>> THEN 0 ELSE s.length - 1

RECURSIVE ExpandFrom(_, _)
ExpandFrom(packet, s) ==
    IF s.at >= Len(packet) THEN Err
    ELSE CASE IsPointer(At(packet, s.at)) ->
                IF \/ s.at + 1 >= Len(packet)
                   \/ Target(packet, s.at) >= s.at
                   \/ s.steps + 1 > MAX_STEPS
                THEN Err
                ELSE ExpandFrom(packet, Jump(packet, s))
           [] BadBits(At(packet, s.at)) -> Err
           [] At(packet, s.at) = 0 -> Ok(s.labels, After(s))
           [] ~Fits(packet, s) \/ TextLength(Over(packet, s)) > MAX_NAME -> Err
           [] OTHER -> ExpandFrom(packet, [Over(packet, s) EXCEPT !.steps = s.steps])
dns_expand_name(packet, offset) == ExpandFrom(packet, Begin(offset))

\* The walks that know no pointers.  parse_qname (of the LLMNR engine, and the
\* same again in the mDNS engine) stops at the root octet and counts nothing;
\* wire_to_presentation counts the labels; validate_uncompressed and the
\* canonical_wire_name of the NSEC ranges want the name and nothing behind it.
RECURSIVE PlainFrom(_, _)
PlainFrom(packet, s) ==
    IF s.at >= Len(packet) THEN Err
    ELSE CASE At(packet, s.at) = 0 -> Ok(s.labels, After(s))
           [] IsPointer(At(packet, s.at)) \/ BadBits(At(packet, s.at)) -> Err
           [] ~Fits(packet, s) -> Err
           [] OTHER -> PlainFrom(packet, Over(packet, s))
parse_qname(packet, offset) == PlainFrom(packet, Begin(offset))
parse_qname_mdns(packet, offset) == PlainFrom(packet, Begin(offset))
wire_to_presentation(wire) ==
    LET p == PlainFrom(wire, Begin(0)) IN IF Len(p.labels) > MAX_STEPS THEN Err ELSE p
validate_uncompressed(wire) ==
    LET p == PlainFrom(wire, Begin(0))
    IN  IF wire # <<>> /\ Len(wire) <= MAX_NAME /\ p.next = Len(wire)
           /\ Len(p.labels) <= MAX_STEPS
        THEN p ELSE Err
canonical_wire_name_nsec(wire) ==
    LET p == PlainFrom(wire, Begin(0))
    IN  IF wire # <<>> /\ Len(wire) <= MAX_NAME /\ p.next = Len(wire) THEN p ELSE Err

\* --------------------------------------------------------------- encoders
\* encode_name on the labels of a name: the empty sequence is the error.
encode_name(labels) ==
    LET wire == FlattenSeq([i \in 1..Len(labels) |-> <<Len(labels[i])>> \o labels[i]])
                    \o <<0>>
    IN  IF \/ \E i \in 1..Len(labels) : Len(labels[i]) \notin 1..63
           \/ Len(wire) > MAX_NAME
        THEN <<>> ELSE wire

\* NameKey::from_labels of the racing resolver counts the length before it
\* writes, and writes lower case.
from_labels(labels) ==
    LET total == FoldLeft(LAMBDA n, l : n + 1 + Len(l), 1, labels)
        Written(l) == <<Len(l)>> \o [j \in 1..Len(l) |-> Lower(l[j])]
    IN  IF \/ \E i \in 1..Len(labels) : Len(labels[i]) \notin 1..63
           \/ total > MAX_NAME
        THEN <<>>
        ELSE FlattenSeq([i \in 1..Len(labels) |-> Written(labels[i])]) \o <<0>>

\* name_to_wire_lower of the shared-memory helpers counts the text first (a
\* dot between labels), then the octets; it writes lower case.
name_to_wire_lower(labels) ==
    LET text == FoldLeft(LAMBDA n, l : n + 1 + Len(l), 0, labels)
        Written(l) == <<Len(l)>> \o [j \in 1..Len(l) |-> Lower(l[j])]
        wire == FlattenSeq([i \in 1..Len(labels) |-> Written(labels[i])]) \o <<0>>
    IN  IF \/ text > MAX_NAME - 1
           \/ \E i \in 1..Len(labels) : Len(labels[i]) \notin 1..63
           \/ Len(wire) > MAX_NAME
        THEN <<>> ELSE wire

\* ------------------------------------------------------------- properties
\* The reference.  From every place the octets lead to at most one next
\* place; a name starts where the walk comes to a root octet.
Follow(packet, p) ==
    IF IsPointer(At(packet, p)) THEN Target(packet, p) ELSE p + 1 + At(packet, p)
MayFollow(packet, p) ==
    IF IsPointer(At(packet, p)) THEN p + 1 < Len(packet) /\ Target(packet, p) < p
    ELSE At(packet, p) \in 1..63 /\ p + 1 + At(packet, p) <= Len(packet)
Lost(packet) == Len(packet)
Walk(packet, offset) ==
    LET w[n \in 0..Len(packet)] ==
            IF n = 0 THEN offset
            ELSE LET p == w[n - 1]
                 IN  IF p < Len(packet) /\ MayFollow(packet, p)
                     THEN Follow(packet, p) ELSE Lost(packet)
    IN  w
Arrives(packet, offset, n) ==
    LET p == Walk(packet, offset)[n] IN p < Len(packet) /\ At(packet, p) = 0
Steps(packet, offset) == {n \in 0..Len(packet) : Arrives(packet, offset, n)}
IsName(packet, offset) == Steps(packet, offset) # {}
StepCount(packet, offset) == CHOOSE n \in Steps(packet, offset) : TRUE
Places(packet, offset) ==
    [n \in 1..StepCount(packet, offset) |-> Walk(packet, offset)[n - 1]]
LabelPlaces(packet, offset) ==
    SelectSeq(Places(packet, offset), LAMBDA p : ~IsPointer(At(packet, p)))
LabelsOf(packet, offset) ==
    LET ps == LabelPlaces(packet, offset) IN [i \in 1..Len(ps) |-> LowerLabel(packet, ps[i])]
PointerCount(packet, offset) ==
    StepCount(packet, offset) - Len(LabelPlaces(packet, offset))
WireLength(labels) == FoldLeft(LAMBDA n, l : n + 1 + Len(l), 1, labels)
NextOf(packet, offset) ==
    LET ps == Places(packet, offset) \o <<Walk(packet, offset)[StepCount(packet, offset)]>>
        i == CHOOSE i \in 1..Len(ps) :
                 /\ i = Len(ps) \/ IsPointer(At(packet, ps[i]))
                 /\ \A j \in 1..(i - 1) : ~IsPointer(At(packet, ps[j]))
    IN  IF IsPointer(At(packet, ps[i])) THEN ps[i] + 2 ELSE ps[i] + 1
Reference(packet, offset) ==
    IF /\ IsName(packet, offset)
       /\ WireLength(LabelsOf(packet, offset)) <= MAX_NAME
       /\ PointerCount(packet, offset) <= MAX_STEPS
    THEN Ok(LabelsOf(packet, offset), NextOf(packet, offset))
    ELSE Err

\* read_name remembers no place it has been: that it ends, and on exactly the
\* names the reference has, rests on its pointers leading backwards and on the
\* length it counts.  Labels and the offset after the name are the reference's.
ReadNameExact(packet, offset) == read_name(packet, offset) = Reference(packet, offset)

\* Whatever a decoder of the repository accepts besides read_name is the same
\* name, and whatever read_name accepts they accept unless their own limit on
\* iterations ends them first.  dns_expand_name, which counts the text, may
\* also take a name at most two octets too long.
Decoders(packet, offset) ==
    {decode_name_responder(packet, offset), decode_name_runtime(packet, offset),
     decompress_name(packet, offset)}
DecodersAgree(packet, offset) ==
    LET r == read_name(packet, offset)
        x == dns_expand_name(packet, offset)
    IN  /\ r.ok => /\ \A d \in Decoders(packet, offset) :
                         IF d.ok THEN d = r ELSE StepCount(packet, offset) >= MAX_STEPS
                   /\ x = r
        /\ x.ok /\ ~r.ok => /\ IsName(packet, offset)
                            /\ WireLength(x.labels) \in (MAX_NAME + 1)..(MAX_NAME + 2)

\* A packet whose names validate_ingress could skip never fails to decode in
\* the responder or the runtime afterwards, which then continue behind the
\* name where skip_name did.
IngressGuardsDecoding(packet, offset) ==
    LET s == skip_name(packet, offset)
    IN  s.ok => /\ decode_name_responder(packet, offset).ok
                /\ decode_name_responder(packet, offset).next = s.next
                /\ decode_name_runtime(packet, offset) = decode_name_responder(packet, offset)

\* The walks without pointers agree with the reference: parse_qname reads
\* exactly the names that use none, of any length; validate_uncompressed and
\* canonical_wire_name accept exactly the octets that are one such name of at
\* most MAX_NAME octets, so what the racing resolver and the NSEC ranges use
\* as a key is a name read_name reads the same way.
PlainWalksAgree(packet, offset) ==
    LET plain == IsName(packet, offset) /\ PointerCount(packet, offset) = 0
        whole == /\ IsName(packet, 0) /\ PointerCount(packet, 0) = 0
                 /\ NextOf(packet, 0) = Len(packet) /\ Len(packet) <= MAX_NAME
    IN  /\ parse_qname(packet, offset) =
              IF plain THEN Ok(LabelsOf(packet, offset), NextOf(packet, offset)) ELSE Err
        /\ parse_qname_mdns(packet, offset) = parse_qname(packet, offset)
        /\ validate_uncompressed(packet) = IF whole THEN read_name(packet, 0) ELSE Err
        /\ canonical_wire_name_nsec(packet) = validate_uncompressed(packet)
        /\ whole => wire_to_presentation(packet) = read_name(packet, 0)

\* What encode_name, from_labels and name_to_wire_lower write, every decoder reads back, up to
\* case; they refuse exactly the names that are too long or have a bad label.
EncodedNamesDecode(labels) ==
    LET wire == encode_name(labels)
        lowered == [i \in 1..Len(labels) |->
                       [j \in 1..Len(labels[i]) |-> Lower(labels[i][j])]]
    IN  /\ (wire = <<>>) <=> \/ \E i \in 1..Len(labels) : labels[i] = <<>>
                             \/ WireLength(labels) > MAX_NAME
        /\ wire # <<>> =>
             /\ \A d \in Decoders(wire, 0) \union {read_name(wire, 0), dns_expand_name(wire, 0)} :
                   d = Ok(lowered, Len(wire))
             /\ read_name(from_labels(labels), 0) = Ok(lowered, Len(wire))
             /\ name_to_wire_lower(labels) = from_labels(labels)
        /\ wire = <<>> => from_labels(labels) = <<>> /\ name_to_wire_lower(labels) = <<>>
=============================================================================
