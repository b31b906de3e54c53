SPECIFICATION Spec
CONSTANT Worlds = {"packet", "labels", "message", "query", "redirect", "bitmap", "denial", "signature"}
INVARIANTS
    DecodersAgree
    WalksAgree
    ClassifiedExactly
    DnssecExact
