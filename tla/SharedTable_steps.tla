------------------------- MODULE SharedTable_steps --------------------------
(***************************************************************************)
(* What each step of the publisher does to the shared table, for any keys, *)
(* hash, sizes, arena, number of publications and number of restarts: the  *)
(* lemmas behind SharedTable_proofs.  The publisher keeps every valid      *)
(* bucket in order (BucketOK), changes no cell below the limit that        *)
(* entries may hold, and gives a bucket it has changed a generation that   *)
(* no reader can have seen (NewestGrows, ArenaKept, BucketPinned).         *)
(***************************************************************************)
EXTENDS SharedTable, TLAPS

(* What a cell of the arena, a bucket, a file and an entry can be.         *)
CellValues == {Nothing} \cup {Owner(k) : k \in Keys} \cup {Address(p, i) : p \in Nat, i \in Nat}
BucketStates == [gen : Nat, key : Keys \cup {"none"}, off : Nat, n : Nat]
FileStates == [magic : BOOLEAN, gen : Nat, used : 0 .. ArenaSize,
               bucket : [Buckets -> BucketStates], arena : [Cells -> CellValues]]
EntryValues == [is : {"entry"}, key : Keys, addresses : UNION {[1 .. n -> CellValues] : n \in Nat}]

(* Where the publisher is outside a publication, and in one.               *)
Resting == {"down", "create", "header", "idle"}
Busy == {"reserve", "payload", "metadata", "metadata2", "commit", "finish"}
WriterStates ==
    [at : Resting]
    \cup [at : Busy, key : Keys, n : 0 .. ArenaSize - 1, odd : Nat, off : Nat, left : SUBSET Buckets, cell : Nat]

(* Where a lookup is once it has read a bucket's generation, and anywhere. *)
Snapped == {"meta", "meta2", "rebucket", "match", "payload", "verify"}
Reading == {"generation", "fields", "regeneration", "unmapped", "bucket", "answer", "none"} \cup Snapped
Lookups == [at : Reading, kind : {"rust", "c"}, key : Keys, file : 1 .. Files, round : Nat, gen : Nat,
            used : 0 .. ArenaSize, snap : BucketStates, cells : Seq(CellValues), quiet : BOOLEAN]
ReaderStates == [at : {"idle"}] \cup Lookups

(* The types of the variables, and which file publisher and reader are at. *)
Shape ==
    /\ mem \in [1 .. Files -> FileStates]
    /\ files \in 0 .. Files /\ path \in 0 .. files /\ published \in Nat
    /\ writer \in WriterStates /\ reader \in ReaderStates
    /\ current \in [1 .. Files -> [Buckets -> EntryValues \cup {Nothing}]]
    /\ writer.at \notin {"down", "create"} => files # 0
    /\ writer.at = "create" => files # Files
    /\ reader.at # "idle" => reader.file \in 1 .. files

(* What is assumed of the constants: sizes are numbers of cells.  Keys,    *)
(* the hash and the bounds are arbitrary.                                  *)
ConstantsOK == Sizes \subseteq Nat /\ ArenaSize \in Nat /\ Files \in Nat

(* The publisher's locals exist in a publication.                          *)
LEMMA WriterKinds ==
    ASSUME Shape
    PROVE  /\ writer.at \in Resting \cup Busy
           /\ writer.at \in Busy => /\ writer.key \in Keys /\ writer.n \in 0 .. ArenaSize - 1
                                    /\ writer.odd \in Nat /\ writer.off \in Nat /\ writer.left \subseteq Buckets
                                    /\ writer.cell \in Nat
                                    /\ BucketOf[writer.key] \in Buckets
<1>1. CASE writer \in [at : Resting]  BY <1>1 DEF Resting, Busy
<1>2. CASE writer \notin [at : Resting]
  BY <1>2 DEF Shape, WriterStates, Buckets
<1> QED  BY <1>1, <1>2

(* A reader that is not idle is in a lookup.                               *)
LEMMA ReaderKinds ==
    ASSUME Shape
    PROVE  /\ reader.at \in {"idle"} \cup Reading
           /\ reader.at \in Reading => reader \in Lookups
<1>1. CASE reader \in [at : {"idle"}]  BY <1>1 DEF Reading, Snapped
<1>2. CASE reader \notin [at : {"idle"}]
  BY <1>2 DEF Shape, ReaderStates, Lookups
<1> QED  BY <1>1, <1>2

(* The fields of a file.                                                   *)
LEMMA FileFields ==
    ASSUME Shape, NEW f \in 1 .. Files
    PROVE  /\ mem[f] \in FileStates /\ mem[f].magic \in BOOLEAN /\ mem[f].gen \in Nat
           /\ mem[f].used \in 0 .. ArenaSize
           /\ mem[f].bucket \in [Buckets -> BucketStates]
           /\ mem[f].arena \in [Cells -> CellValues]
           /\ \A b \in Buckets : /\ mem[f].bucket[b] \in BucketStates
                                 /\ mem[f].bucket[b].gen \in Nat /\ mem[f].bucket[b].off \in Nat
                                 /\ mem[f].bucket[b].n \in Nat
<1>1. mem[f] \in FileStates  BY DEF Shape
<1>2. /\ mem[f].magic \in BOOLEAN /\ mem[f].gen \in Nat /\ mem[f].used \in 0 .. ArenaSize
      /\ mem[f].bucket \in [Buckets -> BucketStates] /\ mem[f].arena \in [Cells -> CellValues]
  BY <1>1 DEF FileStates
<1>3. \A b \in Buckets : mem[f].bucket[b] \in BucketStates  BY <1>2
<1>4. \A e \in BucketStates : e.gen \in Nat /\ e.off \in Nat /\ e.n \in Nat  BY DEF BucketStates
<1> QED  BY <1>1, <1>2, <1>3, <1>4

(* A step of the publisher that writes s for the current file.             *)
OnlyFile(s) == mem' = [mem EXCEPT ![files] = s]

(* Nothing but the current file has changed, and it is a file.             *)
Frame ==
    /\ mem' \in [1 .. Files -> FileStates]
    /\ files \in 1 .. Files
    /\ \A f \in 1 .. Files : f # files => mem'[f] = mem[f]

(* Storing a file.                                                         *)
LEMMA Stored ==
    ASSUME Shape, NEW s \in FileStates, OnlyFile(s), files # 0
    PROVE  Frame /\ mem'[files] = s
BY DEF Shape, OnlyFile, Frame

(* The header's magic and generation.                                      *)
SetsHeader(m, g) ==
    /\ Frame /\ mem'[files].magic = m /\ mem'[files].gen = g
    /\ mem'[files].used = mem[files].used /\ mem'[files].bucket = mem[files].bucket
    /\ mem'[files].arena = mem[files].arena

(* Storing magic and generation changes nothing else of the file.          *)
LEMMA HeaderSet ==
    ASSUME Shape, ConstantsOK, files # 0, NEW m \in BOOLEAN, NEW g \in Nat,
           OnlyFile([mem[files] EXCEPT !.magic = m, !.gen = g])
    PROVE  SetsHeader(m, g)
<1> DEFINE s == [mem[files] EXCEPT !.magic = m, !.gen = g]
<1>1. files \in 1 .. Files  BY DEF Shape, ConstantsOK
<1>2. s \in FileStates  BY Zenon, <1>1, FileFields DEF FileStates
<1>3. /\ s.magic = m /\ s.gen = g /\ s.used = mem[files].used /\ s.bucket = mem[files].bucket
      /\ s.arena = mem[files].arena
  BY <1>1, FileFields DEF FileStates
<1> HIDE DEF s
<1>4. Frame /\ mem'[files] = s  BY Zenon, <1>2, Stored DEF s
<1> QED  BY <1>3, <1>4 DEF SetsHeader

(* The used part of the arena.                                             *)
SetsUsed(u) ==
    /\ Frame /\ mem'[files].used = u
    /\ mem'[files].magic = mem[files].magic /\ mem'[files].gen = mem[files].gen
    /\ mem'[files].bucket = mem[files].bucket /\ mem'[files].arena = mem[files].arena

(* Storing the used size changes nothing else of the file.                 *)
LEMMA UsedSet ==
    ASSUME Shape, ConstantsOK, files # 0, NEW u \in 0 .. ArenaSize,
           OnlyFile([mem[files] EXCEPT !.used = u])
    PROVE  SetsUsed(u)
<1> DEFINE s == [mem[files] EXCEPT !.used = u]
<1>1. files \in 1 .. Files  BY DEF Shape, ConstantsOK
<1>2. s \in FileStates  BY Zenon, <1>1, FileFields DEF FileStates
<1>3. /\ s.used = u /\ s.gen = mem[files].gen /\ s.magic = mem[files].magic /\ s.bucket = mem[files].bucket
      /\ s.arena = mem[files].arena
  BY <1>1, FileFields DEF FileStates
<1> HIDE DEF s
<1>4. Frame /\ mem'[files] = s  BY Zenon, <1>2, Stored DEF s
<1> QED  BY <1>3, <1>4 DEF SetsUsed

(* One cell of the arena.                                                  *)
SetsCell(c, v) ==
    /\ Frame /\ mem'[files].arena[c] = v
    /\ \A d \in Cells : d # c => mem'[files].arena[d] = mem[files].arena[d]
    /\ mem'[files].magic = mem[files].magic /\ mem'[files].gen = mem[files].gen
    /\ mem'[files].used = mem[files].used /\ mem'[files].bucket = mem[files].bucket

(* Storing a cell changes no other cell and nothing else of the file.      *)
LEMMA CellSet ==
    ASSUME Shape, ConstantsOK, files # 0, NEW c \in Cells, NEW v \in CellValues,
           OnlyFile([mem[files] EXCEPT !.arena = [mem[files].arena EXCEPT ![c] = v]])
    PROVE  SetsCell(c, v)
<1> DEFINE a == [mem[files].arena EXCEPT ![c] = v]
           s == [mem[files] EXCEPT !.arena = a]
<1>1. files \in 1 .. Files  BY DEF Shape, ConstantsOK
<1>2. a \in [Cells -> CellValues] /\ a[c] = v /\ \A d \in Cells : d # c => a[d] = mem[files].arena[d]
  BY <1>1, FileFields
<1> HIDE DEF a
<1>3. s \in FileStates  BY Zenon, <1>1, <1>2, FileFields DEF FileStates
<1>4. /\ s.arena = a /\ s.gen = mem[files].gen /\ s.magic = mem[files].magic /\ s.bucket = mem[files].bucket
      /\ s.used = mem[files].used
  BY <1>1, FileFields DEF FileStates
<1> HIDE DEF s
<1>5. Frame /\ mem'[files] = s  BY <1>3, Stored DEF s, a
<1> QED  BY <1>2, <1>4, <1>5 DEF SetsCell

(* One bucket.                                                             *)
SetsBucket(b, e) ==
    /\ Frame /\ mem'[files].bucket[b] = e
    /\ \A d \in Buckets : d # b => mem'[files].bucket[d] = mem[files].bucket[d]
    /\ mem'[files].magic = mem[files].magic /\ mem'[files].gen = mem[files].gen
    /\ mem'[files].used = mem[files].used /\ mem'[files].arena = mem[files].arena

(* Storing a bucket changes no other bucket and nothing else of the file.  *)
LEMMA BucketSet ==
    ASSUME Shape, ConstantsOK, files # 0, NEW b \in Buckets, NEW e \in BucketStates,
           OnlyFile([mem[files] EXCEPT !.bucket = [mem[files].bucket EXCEPT ![b] = e]])
    PROVE  SetsBucket(b, e)
<1> DEFINE a == [mem[files].bucket EXCEPT ![b] = e]
           s == [mem[files] EXCEPT !.bucket = a]
<1>1. files \in 1 .. Files  BY DEF Shape, ConstantsOK
<1>2. a \in [Buckets -> BucketStates] /\ a[b] = e /\ \A d \in Buckets : d # b => a[d] = mem[files].bucket[d]
  BY <1>1, FileFields
<1> HIDE DEF a
<1>3. s \in FileStates  BY Zenon, <1>1, <1>2, FileFields DEF FileStates
<1>4. /\ s.bucket = a /\ s.gen = mem[files].gen /\ s.magic = mem[files].magic /\ s.arena = mem[files].arena
      /\ s.used = mem[files].used
  BY <1>1, FileFields DEF FileStates
<1> HIDE DEF s
<1>5. Frame /\ mem'[files] = s  BY <1>3, Stored DEF s, a
<1> QED  BY <1>2, <1>4, <1>5 DEF SetsBucket

(* Storing the header's generation changes nothing else of the file.       *)
LEMMA GenerationSet ==
    ASSUME Shape, ConstantsOK, files # 0, NEW g \in Nat,
           OnlyFile([mem[files] EXCEPT !.gen = g])
    PROVE  SetsHeader(mem[files].magic, g)
<1> DEFINE s == [mem[files] EXCEPT !.gen = g]
<1>1. files \in 1 .. Files  BY DEF Shape, ConstantsOK
<1>2. s \in FileStates  BY Zenon, <1>1, FileFields DEF FileStates
<1>3. /\ s.magic = mem[files].magic /\ s.gen = g /\ s.used = mem[files].used /\ s.bucket = mem[files].bucket
      /\ s.arena = mem[files].arena
  BY <1>1, FileFields DEF FileStates
<1> HIDE DEF s
<1>4. Frame /\ mem'[files] = s  BY Zenon, <1>2, Stored DEF s
<1> QED  BY <1>3, <1>4 DEF SetsHeader

(* What each access of the publisher writes.                               *)
LEMMA WriteHeaderSets ==
    ASSUME Shape, ConstantsOK, WriteHeader
    PROVE  SetsHeader(TRUE, 2)
<1>1. files # 0  BY DEF WriteHeader, Shape
<1>2. OnlyFile([mem[files] EXCEPT !.magic = TRUE, !.gen = 2])
  BY Zenon, <1>1 DEF WriteHeader, OnlyFile
<1> QED  BY Zenon, <1>1, <1>2, HeaderSet

(* The next odd generation is newer and odd.                               *)
LEMMA OddFacts == \A g \in Nat : OddAfter(g) \in Nat /\ OddAfter(g) > g /\ OddAfter(g) % 2 = 1
BY DEF OddAfter

(* Publish stores the odd generation.                                      *)
LEMMA PublishSets ==
    ASSUME Shape, ConstantsOK, NEW k, NEW n, Publish(k, n)
    PROVE  SetsHeader(mem[files].magic, OddAfter(mem[files].gen))
<1>1. files # 0 /\ files \in 1 .. Files  BY DEF Publish, Shape, ConstantsOK
<1>2. OddAfter(mem[files].gen) \in Nat  BY <1>1, FileFields, OddFacts
<1>3. OnlyFile([mem[files] EXCEPT !.gen = OddAfter(mem[files].gen)])
  BY Zenon, <1>1 DEF Publish, OnlyFile
<1> QED  BY <1>1, <1>2, <1>3, GenerationSet

(* CommitHeader stores the even generation after it.                       *)
LEMMA CommitHeaderSets ==
    ASSUME Shape, ConstantsOK, CommitHeader
    PROVE  SetsHeader(mem[files].magic, writer.odd + 1)
<1>1. files # 0  BY DEF CommitHeader, Shape
<1>2. writer.odd + 1 \in Nat  BY WriterKinds DEF CommitHeader, Busy
<1>3. OnlyFile([mem[files] EXCEPT !.gen = writer.odd + 1])
  BY Zenon, <1>1 DEF CommitHeader, OnlyFile
<1> QED  BY <1>1, <1>2, <1>3, GenerationSet

(* Reserve stores the used size; it starts again from cell 0 only when     *)
(* every bucket is invalid.                                                *)
LEMMA ReserveSets ==
    ASSUME Shape, ConstantsOK, Reserve
    PROVE  /\ SetsUsed(writer'.off + 1 + writer.n)
           /\ \/ writer'.off = mem[files].used /\ writer'.off + 1 + writer.n <= ArenaSize
              \/ writer'.off = 0 /\ writer.left = {}
           /\ writer' = [writer EXCEPT !.at = "payload", !.off = writer'.off]
           /\ writer'.off \in Nat
<1>1. files # 0 /\ files \in 1 .. Files /\ writer.at \in Busy /\ writer \notin [at : Resting]
  BY DEF Reserve, Shape, ConstantsOK, Busy, Resting
<1>2. writer.n \in 0 .. ArenaSize - 1 /\ mem[files].used \in 0 .. ArenaSize
  BY <1>1, WriterKinds, FileFields
<1>3. PICK off : /\ \/ off = mem[files].used /\ mem[files].used + 1 + writer.n <= ArenaSize
                    \/ off = 0 /\ writer.left = {}
                 /\ mem' = [mem EXCEPT ![files].used = off + 1 + writer.n]
                 /\ writer' = [writer EXCEPT !.at = "payload", !.off = off]
  <2> DEFINE off == IF mem[files].used + 1 + writer.n > ArenaSize THEN 0 ELSE mem[files].used
  <2>1. /\ mem' = [mem EXCEPT ![files].used = off + 1 + writer.n]
        /\ writer' = [writer EXCEPT !.at = "payload", !.off = off]
        /\ mem[files].used + 1 + writer.n > ArenaSize => writer.left = {}
    BY Zenon DEF Reserve
  <2>2. \/ off = mem[files].used /\ mem[files].used + 1 + writer.n <= ArenaSize
        \/ off = 0 /\ writer.left = {}
    BY <1>2, <2>1 DEF ConstantsOK
  <2> QED  BY Zenon, <2>1, <2>2
<1>4. writer'.off = off
  BY <1>1, <1>3 DEF Shape, WriterStates
<1>5. off \in Nat /\ off + 1 + writer.n \in 0 .. ArenaSize
  BY <1>2, <1>3 DEF ConstantsOK
<1>6. OnlyFile([mem[files] EXCEPT !.used = off + 1 + writer.n])
  BY Zenon, <1>1, <1>3 DEF OnlyFile
<1>7. SetsUsed(off + 1 + writer.n)
  BY <1>1, <1>5, <1>6, UsedSet
<1> QED  BY Zenon, <1>3, <1>4, <1>5, <1>7

(* WriteCell stores one cell.                                              *)
LEMMA WriteCellSets ==
    ASSUME Shape, ConstantsOK, WriteCell, writer.off + 1 + writer.n <= ArenaSize
    PROVE  SetsCell(writer.off + writer.cell,
                    IF writer.cell = 0 THEN Owner(writer.key) ELSE Address(published, writer.cell))
<1> DEFINE v == IF writer.cell = 0 THEN Owner(writer.key) ELSE Address(published, writer.cell)
<1>1. files # 0 /\ writer.at \in Busy /\ writer.cell <= writer.n  BY DEF WriteCell, Shape, Busy
<1>2. writer.off + writer.cell \in Cells
  BY <1>1, WriterKinds DEF Cells, ConstantsOK
<1>3. v \in CellValues
  BY <1>1, WriterKinds DEF CellValues, Shape
<1>4. OnlyFile([mem[files] EXCEPT !.arena = [mem[files].arena EXCEPT ![writer.off + writer.cell] = v]])
  BY Zenon, <1>1 DEF WriteCell, OnlyFile
<1> HIDE DEF v
<1>5. SetsCell(writer.off + writer.cell, v)  BY <1>1, <1>2, <1>3, <1>4, CellSet
<1> QED  BY <1>5 DEF v

(* InvalidateOne stores generation 0 of one bucket.                        *)
LEMMA InvalidateOneSets ==
    ASSUME Shape, ConstantsOK, NEW b \in Buckets, InvalidateOne(b)
    PROVE  SetsBucket(b, [mem[files].bucket[b] EXCEPT !.gen = 0])
<1>1. files # 0 /\ files \in 1 .. Files  BY DEF InvalidateOne, Shape, ConstantsOK
<1>2. [mem[files].bucket[b] EXCEPT !.gen = 0] \in BucketStates
  BY <1>1, FileFields DEF BucketStates
<1>3. OnlyFile([mem[files] EXCEPT !.bucket = [mem[files].bucket EXCEPT ![b] = [mem[files].bucket[b] EXCEPT !.gen = 0]]])
  BY Zenon, <1>1 DEF InvalidateOne, OnlyFile
<1> QED  BY <1>1, <1>2, <1>3, BucketSet

(* InvalidateBucket stores generation 0 of the key's bucket.               *)
LEMMA InvalidateBucketSets ==
    ASSUME Shape, ConstantsOK, InvalidateBucket
    PROVE  SetsBucket(BucketOf[writer.key], [mem[files].bucket[BucketOf[writer.key]] EXCEPT !.gen = 0])
<1> DEFINE b == BucketOf[writer.key]
<1>1. files # 0 /\ files \in 1 .. Files /\ b \in Buckets
  BY WriterKinds DEF InvalidateBucket, Shape, ConstantsOK, Busy
<1>2. [mem[files].bucket[b] EXCEPT !.gen = 0] \in BucketStates
  BY <1>1, FileFields DEF BucketStates
<1>3. OnlyFile([mem[files] EXCEPT !.bucket = [mem[files].bucket EXCEPT ![b] = [mem[files].bucket[b] EXCEPT !.gen = 0]]])
  BY Zenon, <1>1 DEF InvalidateBucket, OnlyFile
<1> HIDE DEF b
<1>4. SetsBucket(b, [mem[files].bucket[b] EXCEPT !.gen = 0])  BY <1>1, <1>2, <1>3, BucketSet
<1> QED  BY <1>4 DEF b

(* CommitBucket stores the new generation of the key's bucket.             *)
LEMMA CommitBucketSets ==
    ASSUME Shape, ConstantsOK, CommitBucket
    PROVE  SetsBucket(BucketOf[writer.key], [mem[files].bucket[BucketOf[writer.key]] EXCEPT !.gen = writer.odd + 1])
<1> DEFINE b == BucketOf[writer.key]
<1>1. files # 0 /\ files \in 1 .. Files /\ b \in Buckets /\ writer.odd + 1 \in Nat
  BY WriterKinds DEF CommitBucket, Shape, ConstantsOK, Busy
<1>2. [mem[files].bucket[b] EXCEPT !.gen = writer.odd + 1] \in BucketStates
  BY <1>1, FileFields DEF BucketStates
<1>3. OnlyFile([mem[files] EXCEPT !.bucket =
                   [mem[files].bucket EXCEPT ![b] = [mem[files].bucket[b] EXCEPT !.gen = writer.odd + 1]]])
  BY Zenon, <1>1 DEF CommitBucket, OnlyFile
<1> HIDE DEF b
<1>4. SetsBucket(b, [mem[files].bucket[b] EXCEPT !.gen = writer.odd + 1])  BY Zenon, <1>1, <1>2,
                                                                              <1>3, BucketSet
<1> QED  BY <1>4 DEF b

(* WriteMetadata stores metadata of the key's bucket, and leaves its       *)
(* generation.                                                             *)
LEMMA WriteMetadataSets ==
    ASSUME Shape, ConstantsOK, WriteMetadata
    PROVE  LET b == BucketOf[writer.key] IN
           \/ /\ writer.at = "metadata" /\ writer' = [writer EXCEPT !.at = "metadata2"]
              /\ SetsBucket(b, [mem[files].bucket[b] EXCEPT !.key = writer.key, !.off = writer.off])
           \/ /\ writer.at = "metadata2" /\ writer' = [writer EXCEPT !.at = "commit"]
              /\ SetsBucket(b, [mem[files].bucket[b] EXCEPT !.n = writer.n])
<1> DEFINE b == BucketOf[writer.key]
           e == [mem[files].bucket[b] EXCEPT !.key = writer.key, !.off = writer.off]
           d == [mem[files].bucket[b] EXCEPT !.n = writer.n]
<1>1. files # 0 /\ files \in 1 .. Files /\ b \in Buckets /\ writer.key \in Keys /\ writer.off \in Nat /\ writer.n \in Nat
  <2>1. writer.at \in Busy /\ writer.at \notin {"down", "create"}  BY DEF WriteMetadata, Busy
  <2>2. files # 0 /\ files \in 1 .. Files  BY <2>1 DEF Shape, ConstantsOK
  <2> QED  BY SMTT(20), <2>1, <2>2, WriterKinds DEF ConstantsOK
<1>2. CASE writer.at = "metadata"
  <2>1. e \in BucketStates
    <3>1. mem[files].bucket[b] \in BucketStates  BY Zenon, <1>1, FileFields
    <3>2. \A r \in BucketStates, k \in Keys, o \in Nat : [r EXCEPT !.key = k, !.off = o] \in BucketStates
      BY Zenon DEF BucketStates
    <3> QED  BY Zenon, <1>1, <3>1, <3>2
  <2>2. OnlyFile([mem[files] EXCEPT !.bucket = [mem[files].bucket EXCEPT ![b] = e]])
    BY Zenon, <1>1, <1>2 DEF WriteMetadata, OnlyFile
  <2>3. writer' = [writer EXCEPT !.at = "metadata2"]  BY Zenon, <1>2 DEF WriteMetadata
  <2> HIDE DEF e, b
  <2>4. SetsBucket(b, e)  BY <1>1, <2>1, <2>2, BucketSet
  <2> QED  BY <1>2, <2>3, <2>4 DEF e, b
<1>3. CASE writer.at = "metadata2"
  <2>1. d \in BucketStates
    BY <1>1, FileFields DEF BucketStates
  <2>2. OnlyFile([mem[files] EXCEPT !.bucket = [mem[files].bucket EXCEPT ![b] = d]])
    BY Zenon, <1>1, <1>3 DEF WriteMetadata, OnlyFile
  <2>3. writer' = [writer EXCEPT !.at = "commit"]  BY <1>3 DEF WriteMetadata
  <2> HIDE DEF d, b
  <2>4. SetsBucket(b, d)  BY <1>1, <2>1, <2>2, BucketSet
  <2> QED  BY <1>3, <2>3, <2>4 DEF d, b
<1> QED  BY Zenon, <1>2, <1>3 DEF WriteMetadata

(* A publisher in the middle of a publication.                             *)
BusyWriters ==
    [at : Busy, key : Keys, n : 0 .. ArenaSize - 1, odd : Nat, off : Nat, left : SUBSET Buckets, cell : Nat]

(* The publisher in a publication.                                         *)
LEMMA BusyWriter ==
    ASSUME Shape, writer.at \in Busy
    PROVE  writer \in BusyWriters
BY DEF Shape, WriterStates, BusyWriters, Resting, Busy

(* Updates of the publisher's locals keep their types.                     *)
LEMMA BusyUpdates ==
    ASSUME NEW w \in BusyWriters
    PROVE  /\ \A a \in Busy : /\ [w EXCEPT !.at = a] \in BusyWriters
                              /\ [w EXCEPT !.at = a].at = a
                              /\ \A o \in Nat : [w EXCEPT !.at = a, !.off = o] \in BusyWriters
           /\ \A c \in Nat : [w EXCEPT !.cell = c] \in BusyWriters
           /\ \A s \in SUBSET Buckets : [w EXCEPT !.left = s] \in BusyWriters
<1>1. \A a \in Busy : [w EXCEPT !.at = a] \in BusyWriters  BY DEF BusyWriters
<1>2. \A a \in Busy : [w EXCEPT !.at = a].at = a  BY DEF BusyWriters
<1>3. \A a \in Busy, o \in Nat : [w EXCEPT !.at = a, !.off = o] \in BusyWriters  BY Zenon DEF BusyWriters
<1>4. \A c \in Nat : [w EXCEPT !.cell = c] \in BusyWriters  BY DEF BusyWriters
<1>5. \A s \in SUBSET Buckets : [w EXCEPT !.left = s] \in BusyWriters  BY DEF BusyWriters
<1> QED  BY Zenon, <1>1, <1>2, <1>3, <1>4, <1>5

(* A step of the publisher in the middle of a publication.                 *)
BusyStep ==
    \/ \E b \in Buckets : InvalidateOne(b)
    \/ Reserve \/ WriteCell \/ InvalidateBucket \/ WriteMetadata \/ CommitBucket

(* A step in a publication stays in it, and leaves the rest of the system  *)
(* alone.                                                                  *)
LEMMA BusyStepWriter ==
    ASSUME Shape, ConstantsOK, BusyStep
    PROVE  writer \in BusyWriters /\ writer' \in BusyWriters /\ UNCHANGED <<path, files, published, reader>>
<1>0. writer.at \in Busy  BY Zenon DEF BusyStep, InvalidateOne, Reserve, WriteCell,
                             InvalidateBucket, WriteMetadata, CommitBucket, Busy
<1>1. writer \in BusyWriters  BY <1>0, BusyWriter
<1>2. {"payload", "metadata", "metadata2", "commit", "finish"} \subseteq Busy  BY DEF Busy
<1>3. ASSUME NEW b \in Buckets, InvalidateOne(b) PROVE writer' \in BusyWriters
  <2>1. writer.left \ {b} \in SUBSET Buckets  BY <1>1 DEF BusyWriters
  <2> QED  BY Zenon, <1>1, <1>3, <2>1, BusyUpdates DEF InvalidateOne
<1>4. ASSUME Reserve PROVE writer' \in BusyWriters
  <2>1. writer' = [writer EXCEPT !.at = "payload", !.off = writer'.off] /\ writer'.off \in Nat
    BY Zenon, <1>4, ReserveSets
  <2>2. PICK o \in Nat : writer' = [writer EXCEPT !.at = "payload", !.off = o]
    BY Zenon, <2>1
  <2>3. [writer EXCEPT !.at = "payload", !.off = o] \in BusyWriters
    BY Zenon, <1>1, <1>2, BusyUpdates
  <2> QED  BY Zenon, <2>2, <2>3
<1>5. ASSUME WriteCell PROVE writer' \in BusyWriters
  <2>1. writer.cell + 1 \in Nat  BY <1>1 DEF BusyWriters
  <2> QED  BY Zenon, <1>1, <1>5, <2>1, BusyUpdates DEF WriteCell
<1>6. ASSUME InvalidateBucket \/ WriteMetadata \/ CommitBucket PROVE writer' \in BusyWriters
  <2>1. PICK a \in {"metadata", "metadata2", "commit", "finish"} : writer' = [writer EXCEPT !.at = a]
    BY Zenon, <1>6 DEF InvalidateBucket, WriteMetadata, CommitBucket
  <2>2. a \in Busy  BY DEF Busy
  <2>3. [writer EXCEPT !.at = a] \in BusyWriters  BY Zenon, <1>1, <2>2, BusyUpdates
  <2> QED  BY Zenon, <2>1, <2>3
<1>7. UNCHANGED <<path, files, published, reader>>
  BY Zenon DEF BusyStep, InvalidateOne, Reserve, WriteCell, InvalidateBucket, WriteMetadata,
     CommitBucket
<1> QED  BY Zenon, <1>1, <1>3, <1>4, <1>5, <1>6, <1>7 DEF BusyStep

(* current keeps its type.                                                 *)
LEMMA CurrentSet ==
    ASSUME Shape, ConstantsOK, files # 0, NEW b \in Buckets, NEW v \in EntryValues \cup {Nothing},
           current' = [current EXCEPT ![files][b] = v]
    PROVE  /\ current' \in [1 .. Files -> [Buckets -> EntryValues \cup {Nothing}]]
           /\ current'[files][b] = v
           /\ \A f \in 1 .. Files, d \in Buckets : f # files \/ d # b => current'[f][d] = current[f][d]
<1>1. files \in 1 .. Files  BY DEF Shape, ConstantsOK
<1>2. current \in [1 .. Files -> [Buckets -> EntryValues \cup {Nothing}]]  BY DEF Shape
<1> DEFINE T == EntryValues \cup {Nothing}
<1>3. current \in [1 .. Files -> [Buckets -> T]] /\ v \in T  BY <1>2
<1> HIDE DEF T
<1>4. /\ current' \in [1 .. Files -> [Buckets -> T]]
      /\ current'[files][b] = v
      /\ \A f \in 1 .. Files, d \in Buckets : f # files \/ d # b => current'[f][d] = current[f][d]
  BY <1>1, <1>3
<1> QED  BY Zenon, <1>4 DEF T

(* The entry a commit records is an entry.                                 *)
LEMMA NewEntry ==
    ASSUME Shape, writer.at \in Busy
    PROVE  [is |-> "entry", key |-> writer.key, addresses |-> [i \in 1 .. writer.n |-> Address(published, i)]]
              \in EntryValues
<1>1. writer.key \in Keys /\ writer.n \in Nat  BY WriterKinds
<1>2. \A i \in 1 .. writer.n : Address(published, i) \in CellValues  BY DEF CellValues, Shape
<1>3. [i \in 1 .. writer.n |-> Address(published, i)] \in [1 .. writer.n -> CellValues]  BY Zenon,
                                                                                            <1>2
<1>4. [i \in 1 .. writer.n |-> Address(published, i)] \in UNION {[1 .. n -> CellValues] : n \in Nat}
  BY Zenon, <1>1, <1>3
<1> QED  BY Zenon, <1>1, <1>4 DEF EntryValues

(* How a step of the publisher changes the entries that buckets hold.      *)
LEMMA BusyStepCurrent ==
    ASSUME Shape, ConstantsOK, BusyStep
    PROVE  /\ current' \in [1 .. Files -> [Buckets -> EntryValues \cup {Nothing}]]
           /\ files \in 1 .. Files
           /\ \A f \in 1 .. Files : f # files => \A b \in Buckets : current'[f][b] = current[f][b]
<1>0. writer.at \in Busy /\ writer.at \notin {"down", "create"}
  BY Zenon DEF BusyStep, InvalidateOne, Reserve, WriteCell, InvalidateBucket, WriteMetadata,
     CommitBucket, Busy
<1>1. files # 0 /\ files \in 1 .. Files  BY <1>0 DEF Shape, ConstantsOK
<1>2. ASSUME NEW b \in Buckets, InvalidateOne(b)
      PROVE  /\ current' \in [1 .. Files -> [Buckets -> EntryValues \cup {Nothing}]]
             /\ \A f \in 1 .. Files : f # files => \A c \in Buckets : current'[f][c] = current[f][c]
  BY Zenon, <1>1, <1>2, CurrentSet DEF InvalidateOne
<1>3. CASE InvalidateBucket
  BY Zenon, <1>0, <1>1, <1>3, CurrentSet, WriterKinds DEF InvalidateBucket
<1>4. CASE CommitBucket
  BY Zenon, <1>0, <1>1, <1>4, CurrentSet, WriterKinds, NewEntry DEF CommitBucket
<1>5. CASE Reserve \/ WriteCell \/ WriteMetadata
  <2>1. current' = current  BY Zenon, <1>5 DEF Reserve, WriteCell, WriteMetadata
  <2> QED  BY Zenon, <1>1, <2>1 DEF Shape
<1> QED  BY Zenon, <1>1, <1>2, <1>3, <1>4, <1>5 DEF BusyStep

(* The locals of the publisher after each access.                          *)
LEMMA BusyFields ==
    ASSUME Shape, ConstantsOK, writer \in BusyWriters
    PROVE  /\ \A b \in Buckets : InvalidateOne(b) =>
                 /\ writer.at = "reserve" /\ writer'.at = "reserve" /\ writer'.key = writer.key /\ writer'.n = writer.n
                 /\ writer'.odd = writer.odd /\ writer'.off = writer.off /\ writer'.cell = writer.cell
                 /\ writer'.left = writer.left \ {b}
           /\ Reserve =>
                 /\ writer.at = "reserve" /\ writer'.at = "payload" /\ writer'.key = writer.key /\ writer'.n = writer.n
                 /\ writer'.odd = writer.odd /\ writer'.cell = writer.cell
           /\ WriteCell =>
                 /\ writer.at = "payload" /\ writer'.at = "payload" /\ writer'.key = writer.key /\ writer'.n = writer.n
                 /\ writer'.odd = writer.odd /\ writer'.off = writer.off /\ writer'.cell = writer.cell + 1
           /\ InvalidateBucket =>
                 /\ writer.at = "payload" /\ writer'.at = "metadata" /\ writer'.key = writer.key /\ writer'.n = writer.n
                 /\ writer'.odd = writer.odd /\ writer'.off = writer.off
           /\ WriteMetadata =>
                 /\ \/ writer.at = "metadata" /\ writer'.at = "metadata2"
                    \/ writer.at = "metadata2" /\ writer'.at = "commit"
                 /\ writer'.key = writer.key /\ writer'.n = writer.n
                 /\ writer'.odd = writer.odd /\ writer'.off = writer.off
           /\ CommitBucket =>
                 /\ writer.at = "commit" /\ writer'.at = "finish" /\ writer'.key = writer.key /\ writer'.n = writer.n
                 /\ writer'.odd = writer.odd /\ writer'.off = writer.off
<1> USE DEF BusyWriters
<1>1. ASSUME NEW b \in Buckets, InvalidateOne(b)
      PROVE  /\ writer.at = "reserve" /\ writer'.at = "reserve" /\ writer'.key = writer.key /\ writer'.n = writer.n
             /\ writer'.odd = writer.odd /\ writer'.off = writer.off /\ writer'.cell = writer.cell
             /\ writer'.left = writer.left \ {b}
  BY <1>1 DEF InvalidateOne
<1>2. ASSUME Reserve
      PROVE  /\ writer.at = "reserve" /\ writer'.at = "payload" /\ writer'.key = writer.key /\ writer'.n = writer.n
             /\ writer'.odd = writer.odd /\ writer'.cell = writer.cell
  BY <1>2 DEF Reserve
<1>3. ASSUME WriteCell
      PROVE  /\ writer.at = "payload" /\ writer'.at = "payload" /\ writer'.key = writer.key /\ writer'.n = writer.n
             /\ writer'.odd = writer.odd /\ writer'.off = writer.off /\ writer'.cell = writer.cell + 1
  BY <1>3 DEF WriteCell
<1>4. ASSUME InvalidateBucket
      PROVE  /\ writer.at = "payload" /\ writer'.at = "metadata" /\ writer'.key = writer.key /\ writer'.n = writer.n
             /\ writer'.odd = writer.odd /\ writer'.off = writer.off
  BY <1>4 DEF InvalidateBucket
<1>5. ASSUME WriteMetadata
      PROVE  /\ \/ writer.at = "metadata" /\ writer'.at = "metadata2"
                \/ writer.at = "metadata2" /\ writer'.at = "commit"
             /\ writer'.key = writer.key /\ writer'.n = writer.n
             /\ writer'.odd = writer.odd /\ writer'.off = writer.off
  BY <1>5 DEF WriteMetadata
<1>6. ASSUME CommitBucket
      PROVE  /\ writer.at = "commit" /\ writer'.at = "finish" /\ writer'.key = writer.key /\ writer'.n = writer.n
             /\ writer'.odd = writer.odd /\ writer'.off = writer.off
  BY <1>6 DEF CommitBucket
<1> QED  BY Zenon, <1>1, <1>2, <1>3, <1>4, <1>5, <1>6

-----------------------------------------------------------------------------

(* The file the publisher has open, and the newest generation that a       *)
(* bucket of it can have.                                                  *)
Writing(f) == f = files /\ writer.at \notin {"down", "create"}
Newest(f) == IF writer.at = "finish" THEN writer.odd + 1 ELSE mem[f].gen

(* Where a payload has been given space; the cells below the limit are the *)
(* ones entries may hold.                                                  *)
Placing == {"payload", "metadata", "metadata2", "commit"}
Limit(f) == IF f = files /\ writer.at \in Placing THEN writer.off ELSE mem[f].used

(* The cell after an entry, and the entry a bucket describes.              *)
End(e) == e.off + 1 + e.n
Held(f, b) ==
    [is |-> "entry", key |-> mem[f].bucket[b].key,
     addresses |-> [i \in 1 .. mem[f].bucket[b].n |-> mem[f].arena[mem[f].bucket[b].off + i]]]

(* A bucket in order: while it is valid, it lies below the limit and       *)
(* describes the complete entry that history records.                      *)
BucketOK(f, b) ==
    LET e == mem[f].bucket[b] IN
    /\ Writing(f) => e.gen <= Newest(f)
    /\ e.gen = 0 => current[f][b] = Nothing
    /\ e.gen # 0 => /\ End(e) <= Limit(f)
                    /\ mem[f].arena[e.off] = Owner(e.key)
                    /\ current[f][b] = Held(f, b)

(* The cell c of the payload has been written.                             *)
Written(c) == mem[files].arena[writer.off + c] = IF c = 0 THEN Owner(writer.key) ELSE Address(published, c)
Target == mem[files].bucket[BucketOf[writer.key]]

(* What is known of the publisher at each place.                           *)
WriterOK ==
    /\ \A f \in 1 .. Files : f > files => mem[f] = EmptyFile
    /\ writer.at = "header" => mem[files] = EmptyFile
    /\ writer.at \in Busy => mem[files].gen = writer.odd
    /\ writer.at = "reserve" => /\ writer.cell = 0
                                /\ \A b \in Buckets \ writer.left : mem[files].bucket[b].gen = 0
    /\ writer.at \in Placing \cup {"finish"} => End(writer) = mem[files].used
    /\ writer.at = "payload" => writer.cell <= writer.n + 1 /\ \A c \in 0 .. writer.cell - 1 : Written(c)
    /\ writer.at \in {"metadata", "metadata2", "commit"} =>
         (\A c \in 0 .. writer.n : Written(c)) /\ Target.gen = 0
    /\ writer.at \in {"metadata2", "commit"} => Target.key = writer.key /\ Target.off = writer.off
    /\ writer.at = "commit" => Target.n = writer.n

(* A bucket that keeps its metadata, below a limit that does not fall,     *)
(* over cells that are not written, stays in order.                        *)
LEMMA BucketKept ==
    ASSUME Shape, Shape', ConstantsOK, NEW f \in 1 .. Files, NEW b \in Buckets, BucketOK(f, b),
           mem'[f].bucket[b] = mem[f].bucket[b], current'[f][b] = current[f][b],
           Limit(f) \in 0 .. ArenaSize, Limit(f)' \in Nat, Limit(f) <= Limit(f)',
           \A c \in Cells : c < Limit(f) => mem'[f].arena[c] = mem[f].arena[c],
           Writing(f)' => Writing(f) /\ Newest(f) \in Nat /\ Newest(f)' \in Nat /\ Newest(f) <= Newest(f)'
    PROVE  BucketOK(f, b)'
<1> DEFINE e == mem[f].bucket[b]
<1>1. e.gen \in Nat /\ e.off \in Nat /\ e.n \in Nat  BY FileFields
<1>2. CASE e.gen = 0
  <2>1. mem'[f].bucket[b].gen = 0 /\ current'[f][b] = Nothing  BY <1>2 DEF BucketOK
  <2>2. Writing(f)' => 0 <= Newest(f)'  OBVIOUS
  <2> QED  BY Zenon, <2>1, <2>2 DEF BucketOK
<1>3. CASE e.gen # 0
  <2>1. End(e) <= Limit(f) /\ mem[f].arena[e.off] = Owner(e.key) /\ current[f][b] = Held(f, b)
    BY Zenon, <1>3 DEF BucketOK
  <2>2. \A i \in 0 .. e.n : e.off + i \in Cells /\ e.off + i < Limit(f)
    BY SMTT(20), <1>1, <2>1 DEF End, Cells, ConstantsOK
  <2>3. \A i \in 0 .. e.n : mem'[f].arena[e.off + i] = mem[f].arena[e.off + i]  BY Zenon, <2>2
  <2>4. mem'[f].arena[e.off] = mem[f].arena[e.off]
    <3>1. e.off + 0 = e.off /\ 0 \in 0 .. e.n  BY SMTT(60), <1>1
    <3>2. mem'[f].arena[e.off + 0] = mem[f].arena[e.off + 0]  BY Zenon, <2>3, <3>1
    <3> QED  BY Zenon, <3>1, <3>2
  <2>5. [i \in 1 .. e.n |-> mem'[f].arena[e.off + i]] = [i \in 1 .. e.n |-> mem[f].arena[e.off + i]]
    <3>1. 1 .. e.n \subseteq 0 .. e.n  BY <1>1
    <3>2. \A i \in 1 .. e.n : mem'[f].arena[e.off + i] = mem[f].arena[e.off + i]  BY Zenon, <2>3,
                                                                                     <3>1
    <3> QED  BY Zenon, <3>2
  <2>6. Held(f, b)' = Held(f, b)  BY Zenon, <2>5 DEF Held
  <2>7. End(e) <= Limit(f)'  BY <1>1, <2>1 DEF End
  <2>8. Writing(f)' => e.gen <= Newest(f)'  BY <1>1 DEF BucketOK
  <2> QED  BY Zenon, <1>3, <2>1, <2>4, <2>6, <2>7, <2>8 DEF BucketOK
<1> QED  BY <1>2, <1>3

(* An invalid bucket is in order when the history says it holds nothing.   *)
LEMMA BucketCleared ==
    ASSUME NEW f, NEW b, mem'[f].bucket[b].gen = 0, current'[f][b] = Nothing,
           Writing(f)' => Newest(f)' \in Nat
    PROVE  BucketOK(f, b)'
<1>1. Writing(f)' => 0 <= Newest(f)'  OBVIOUS
<1> QED  BY Zenon, <1>1 DEF BucketOK

(* Each access in the middle of a publication writes one thing.            *)
LEMMA BusyWrites ==
    ASSUME Shape, ConstantsOK, WriterOK, BusyStep
    PROVE  Frame
<1>1. ASSUME WriteCell PROVE writer.off + 1 + writer.n <= ArenaSize
  <2>1. writer.at = "payload" /\ files # 0  BY <1>1 DEF WriteCell, Shape
  <2>2. End(writer) = mem[files].used  BY <2>1 DEF WriterOK, Placing
  <2>3. mem[files].used <= ArenaSize  BY <2>1, FileFields DEF Shape, ConstantsOK
  <2> QED  BY Zenon, <2>2, <2>3 DEF End
<1>2. ASSUME NEW b \in Buckets, InvalidateOne(b) PROVE Frame  BY Zenon, <1>2,
                                                                 InvalidateOneSets DEF SetsBucket
<1>3. CASE Reserve  BY Zenon, <1>3, ReserveSets DEF SetsUsed
<1>4. CASE WriteCell  BY Zenon, <1>1, <1>4, WriteCellSets DEF SetsCell
<1>5. CASE InvalidateBucket  BY Zenon, <1>5, InvalidateBucketSets DEF SetsBucket
<1>6. CASE WriteMetadata  BY Zenon, <1>6, WriteMetadataSets DEF SetsBucket
<1>7. CASE CommitBucket  BY Zenon, <1>7, CommitBucketSets DEF SetsBucket
<1> QED  BY Zenon, <1>2, <1>3, <1>4, <1>5, <1>6, <1>7 DEF BusyStep

(* A step in a publication keeps the types.                                *)
LEMMA BusyShape ==
    ASSUME Shape, ConstantsOK, WriterOK, BusyStep
    PROVE  Shape'
<1>1. /\ writer' \in BusyWriters /\ path' = path /\ files' = files /\ published' = published
      /\ reader' = reader
  BY Zenon, BusyStepWriter
<1>2. writer' \in WriterStates /\ writer'.at \in Busy  BY <1>1 DEF BusyWriters, WriterStates
<1>3. writer'.at # "create" /\ files # 0  BY <1>2, BusyStepCurrent DEF Busy
<1>4. mem' \in [1 .. Files -> FileStates]  BY Zenon, BusyWrites DEF Frame
<1>5. current' \in [1 .. Files -> [Buckets -> EntryValues \cup {Nothing}]]  BY Zenon,
                                                                               BusyStepCurrent
<1> QED  BY Zenon, <1>1, <1>2, <1>3, <1>4, <1>5 DEF Shape

(* Marking a lookup as disturbed changes nothing else of it.               *)
LEMMA Disturbed ==
    ASSUME Shape, reader' = Disturb(reader)
    PROVE  /\ reader' \in ReaderStates
           /\ reader'.at = reader.at
           /\ reader.at # "idle" =>
                /\ reader'.file = reader.file /\ reader'.key = reader.key /\ reader'.snap = reader.snap
                /\ reader'.cells = reader.cells /\ reader'.used = reader.used /\ ~reader'.quiet
<1>1. CASE reader.at = "idle"  BY <1>1 DEF Disturb, Shape
<1>2. CASE reader.at # "idle"
  <2>1. reader \in Lookups  BY <1>2, ReaderKinds
  <2>2. reader' = [reader EXCEPT !.quiet = FALSE]  BY <1>2 DEF Disturb
  <2>3. reader' \in Lookups  BY Zenon, <2>1, <2>2 DEF Lookups
  <2>4. /\ reader'.at = reader.at /\ reader'.file = reader.file /\ reader'.key = reader.key
        /\ reader'.snap = reader.snap /\ reader'.cells = reader.cells /\ reader'.used = reader.used
        /\ ~reader'.quiet
    BY <2>1, <2>2 DEF Lookups
  <2> QED  BY Zenon, <2>3, <2>4 DEF ReaderStates
<1> QED  BY <1>1, <1>2

(* A step of the publisher outside a publication, or at its ends.          *)
EdgeStep ==
    Unlink \/ Create \/ WriteHeader \/ Crash \/ CommitHeader \/ \E k \in Keys, n \in Sizes : Publish(k, n)

(* A step outside a publication, or at its ends, keeps the publisher's     *)
(* type.                                                                   *)
LEMMA EdgeWriter ==
    ASSUME Shape, ConstantsOK, EdgeStep
    PROVE  /\ writer' \in WriterStates
           /\ writer'.at \notin {"down", "create"} => files' # 0
           /\ writer'.at = "create" => files' # Files
           /\ current' = current
<1>1. CASE Unlink  BY <1>1 DEF Unlink, WriterStates, Resting, Shape, ConstantsOK
<1>2. CASE Create \/ WriteHeader \/ Crash \/ CommitHeader
  BY <1>2 DEF Create, WriteHeader, Crash, CommitHeader, WriterStates, Resting, Shape, ConstantsOK
<1>3. ASSUME NEW k \in Keys, NEW n \in Sizes, Publish(k, n)
      PROVE  writer' \in WriterStates /\ writer'.at = "reserve" /\ files' = files /\ files # 0 /\ current' = current
  <2>1. files # 0 /\ files \in 1 .. Files  BY <1>3 DEF Publish, Shape, ConstantsOK
  <2>2. OddAfter(mem[files].gen) \in Nat  BY <2>1, FileFields, OddFacts
  <2>3. n \in 0 .. ArenaSize - 1  BY <1>3 DEF Publish, ConstantsOK
  <2>4. writer' = [at |-> "reserve", key |-> k, n |-> n, odd |-> OddAfter(mem[files].gen), off |-> 0,
                   left |-> Buckets, cell |-> 0]
    BY Zenon, <1>3 DEF Publish
  <2>5. writer' \in WriterStates  BY <2>2, <2>3, <2>4 DEF WriterStates, Busy
  <2>6. writer'.at = "reserve"  BY <2>4
  <2> QED  BY Zenon, <1>3, <2>1, <2>5, <2>6 DEF Publish
<1> QED  BY Zenon, <1>1, <1>2, <1>3 DEF EdgeStep

(* Such a step keeps all the types.                                        *)
LEMMA EdgeShape ==
    ASSUME Shape, ConstantsOK, EdgeStep
    PROVE  Shape'
<1>1. mem' \in [1 .. Files -> FileStates]
  <2>1. CASE Unlink \/ Create \/ Crash  BY <2>1 DEF Unlink, Create, Crash, Shape
  <2>2. CASE WriteHeader  BY Zenon, <2>2, WriteHeaderSets DEF SetsHeader, Frame
  <2>3. CASE CommitHeader  BY Zenon, <2>3, CommitHeaderSets DEF SetsHeader, Frame
  <2>4. ASSUME NEW k, NEW n, Publish(k, n) PROVE mem' \in [1 .. Files -> FileStates]
    BY Zenon, <2>4, PublishSets DEF SetsHeader, Frame
  <2> QED  BY Zenon, <2>1, <2>2, <2>3, <2>4 DEF EdgeStep
<1>2. /\ files' \in 0 .. Files /\ files <= files' /\ path' \in 0 .. files'
      /\ published' \in Nat
  BY DEF EdgeStep, Unlink, Create, WriteHeader, Crash, CommitHeader, Publish, Shape, ConstantsOK
<1>3. /\ reader' \in ReaderStates
      /\ reader'.at # "idle" => reader.at # "idle" /\ reader'.file = reader.file
  <2>1. reader' = reader \/ reader' = Disturb(reader)
    BY Zenon DEF EdgeStep, Unlink, Create, WriteHeader, Crash, CommitHeader, Publish
  <2> QED  BY Zenon, <2>1, Disturbed DEF Shape
<1>4. reader'.at # "idle" => reader'.file \in 1 .. files'
  BY <1>2, <1>3 DEF Shape
<1> QED  BY Zenon, <1>1, <1>2, <1>3, <1>4, EdgeWriter DEF Shape

(* In the middle of a publication, the file and the space it is written    *)
(* to.                                                                     *)
LEMMA BusyNumbers ==
    ASSUME Shape, ConstantsOK, writer.at \in Busy
    PROVE  /\ files \in 1 .. Files /\ files # 0 /\ writer \in BusyWriters /\ BucketOf[writer.key] \in Buckets
           /\ writer.n \in Nat /\ writer.odd \in Nat /\ writer.off \in Nat /\ writer.cell \in Nat
           /\ writer.left \subseteq Buckets /\ End(writer) \in Nat
<1>1. files \in 1 .. Files /\ files # 0  BY DEF Shape, ConstantsOK, Busy
<1>2. /\ writer.n \in Nat /\ writer.odd \in Nat /\ writer.off \in Nat /\ writer.cell \in Nat
      /\ writer.left \subseteq Buckets /\ BucketOf[writer.key] \in Buckets
  BY WriterKinds DEF ConstantsOK
<1>3. End(writer) \in Nat  BY <1>2 DEF End
<1> QED  BY <1>1, <1>2, <1>3, BusyWriter

(* The invariant of the publisher, one access at a time.                   *)
LEMMA InvalidateOneWriter ==
    ASSUME Shape, ConstantsOK, WriterOK, NEW b \in Buckets, InvalidateOne(b)
    PROVE  WriterOK'
<1>0. writer.at = "reserve" /\ files' = files  BY DEF InvalidateOne
<1>1. writer.at \in Busy  BY <1>0 DEF Busy
<1>2. SetsBucket(b, [mem[files].bucket[b] EXCEPT !.gen = 0])  BY InvalidateOneSets
<1>3. /\ writer'.at = "reserve" /\ writer'.odd = writer.odd /\ writer'.cell = writer.cell
      /\ writer'.left = writer.left \ {b}
  BY Zenon, <1>1, BusyNumbers, BusyFields
<1>4. \A f \in 1 .. Files : f > files' => mem'[f] = EmptyFile
  BY <1>0, <1>2 DEF SetsBucket, Frame, WriterOK
<1>5. mem'[files'].gen = writer'.odd  BY <1>0, <1>1, <1>2, <1>3 DEF SetsBucket, WriterOK
<1>6. \A d \in Buckets \ writer'.left : mem'[files'].bucket[d].gen = 0
  <2> TAKE d \in Buckets \ writer'.left
  <2>1. CASE d = b
    <3>1. mem[files].bucket[b] \in BucketStates  BY <1>1, BusyNumbers, FileFields
    <3>2. [mem[files].bucket[b] EXCEPT !.gen = 0].gen = 0  BY <3>1 DEF BucketStates
    <3> QED  BY Zenon, <1>0, <1>2, <2>1, <3>2 DEF SetsBucket
  <2>2. CASE d # b
    BY <1>0, <1>2, <1>3, <2>2 DEF SetsBucket, WriterOK
  <2> QED  BY <2>1, <2>2
<1>7. writer'.cell = 0  BY <1>0, <1>3 DEF WriterOK
<1> QED  BY <1>3, <1>4, <1>5, <1>6, <1>7 DEF WriterOK, Placing

(* Reserve keeps what is known of the publisher.                           *)
LEMMA ReserveWriter ==
    ASSUME Shape, ConstantsOK, WriterOK, Reserve
    PROVE  WriterOK'
<1>0. writer.at = "reserve" /\ files' = files /\ published' = published  BY DEF Reserve
<1>1. writer.at \in Busy  BY <1>0 DEF Busy
<1>2. SetsUsed(writer'.off + 1 + writer.n)  BY ReserveSets
<1>3. /\ writer'.at = "payload" /\ writer'.odd = writer.odd /\ writer'.cell = writer.cell /\ writer'.n = writer.n
  BY Zenon, <1>1, BusyNumbers, BusyFields
<1>4. \A f \in 1 .. Files : f > files' => mem'[f] = EmptyFile
  BY <1>0, <1>2 DEF SetsUsed, Frame, WriterOK
<1>5. mem'[files'].gen = writer'.odd  BY <1>0, <1>1, <1>2, <1>3 DEF SetsUsed, WriterOK
<1>6. End(writer)' = mem'[files'].used  BY Zenon, <1>0, <1>2, <1>3 DEF SetsUsed, End
<1>7. writer'.cell = 0 /\ writer'.n \in Nat  BY <1>0, <1>1, <1>3, BusyNumbers DEF WriterOK
<1>8. writer'.cell <= writer'.n + 1 /\ \A c \in 0 .. writer'.cell - 1 : Written(c)'
  BY <1>7
<1> QED  BY <1>3, <1>4, <1>5, <1>6, <1>8 DEF WriterOK

(* WriteCell keeps it: one more cell of the payload is written.            *)
LEMMA WriteCellWriter ==
    ASSUME Shape, ConstantsOK, WriterOK, WriteCell
    PROVE  WriterOK'
<1>0. writer.at = "payload" /\ files' = files /\ published' = published /\ writer.cell <= writer.n
  BY DEF WriteCell
<1>1. writer.at \in Busy  BY <1>0 DEF Busy
<1>n. /\ writer.n \in Nat /\ writer.off \in Nat /\ writer.cell \in Nat /\ files \in 1 .. Files
      /\ mem[files].used \in 0 .. ArenaSize
  BY <1>1, BusyNumbers, FileFields
<1>e. End(writer) = mem[files].used  BY <1>0 DEF WriterOK, Placing
<1>2. SetsCell(writer.off + writer.cell,
               IF writer.cell = 0 THEN Owner(writer.key) ELSE Address(published, writer.cell))
  <2>1. writer.off + 1 + writer.n <= ArenaSize  BY <1>n, <1>e DEF End, ConstantsOK
  <2> QED  BY <2>1, WriteCellSets
<1>3. /\ writer'.at = "payload" /\ writer'.odd = writer.odd /\ writer'.cell = writer.cell + 1 /\ writer'.n = writer.n
      /\ writer'.off = writer.off /\ writer'.key = writer.key
  BY Zenon, <1>1, BusyNumbers, BusyFields
<1>4. \A f \in 1 .. Files : f > files' => mem'[f] = EmptyFile
  BY <1>0, <1>2 DEF SetsCell, Frame, WriterOK
<1>5. mem'[files'].gen = writer'.odd  BY <1>0, <1>1, <1>2, <1>3 DEF SetsCell, WriterOK
<1>6. End(writer)' = mem'[files'].used  BY Zenon, <1>0, <1>2, <1>3, <1>e DEF SetsCell, End
<1>7. writer'.cell <= writer'.n + 1  BY <1>0, <1>3, <1>n
<1>8. \A c \in 0 .. writer'.cell - 1 : Written(c)'
  <2> TAKE c \in 0 .. writer'.cell - 1
  <2>1. c \in 0 .. writer.cell /\ writer.off + c \in Cells
    BY <1>0, <1>3, <1>n, <1>e DEF Cells, End, ConstantsOK
  <2>2. CASE c = writer.cell
    BY Zenon, <1>0, <1>2, <1>3, <2>2 DEF Written, SetsCell
  <2>3. CASE c # writer.cell
    <3>1. c \in 0 .. writer.cell - 1 /\ writer.off + c # writer.off + writer.cell  BY <1>n, <2>1,
                                                                                      <2>3
    <3>2. Written(c)  BY <1>0, <3>1 DEF WriterOK
    <3>3. mem'[files].arena[writer.off + c] = mem[files].arena[writer.off + c]
      BY Zenon, <1>2, <2>1, <3>1 DEF SetsCell
    <3> QED  BY Zenon, <1>0, <1>3, <3>2, <3>3 DEF Written
  <2> QED  BY <2>2, <2>3
<1> QED  BY <1>3, <1>4, <1>5, <1>6, <1>7, <1>8 DEF WriterOK

(* InvalidateBucket keeps it: the payload is complete and the bucket       *)
(* invalid.                                                                *)
LEMMA InvalidateBucketWriter ==
    ASSUME Shape, ConstantsOK, WriterOK, InvalidateBucket
    PROVE  WriterOK'
<1> DEFINE b == BucketOf[writer.key]
<1>0. writer.at = "payload" /\ files' = files /\ published' = published /\ writer.cell > writer.n
  BY DEF InvalidateBucket
<1>1. writer.at \in Busy  BY <1>0 DEF Busy
<1>n. writer.n \in Nat /\ writer.cell \in Nat /\ files \in 1 .. Files /\ b \in Buckets  BY <1>1,
                                                                                           BusyNumbers
<1>2. SetsBucket(b, [mem[files].bucket[b] EXCEPT !.gen = 0])  BY Zenon, InvalidateBucketSets
<1>3. /\ writer'.at = "metadata" /\ writer'.odd = writer.odd /\ writer'.n = writer.n
      /\ writer'.off = writer.off /\ writer'.key = writer.key
  BY Zenon, <1>1, BusyNumbers, BusyFields
<1>4. \A f \in 1 .. Files : f > files' => mem'[f] = EmptyFile
  BY <1>0, <1>2 DEF SetsBucket, Frame, WriterOK
<1>5. mem'[files'].gen = writer'.odd  BY <1>0, <1>1, <1>2, <1>3 DEF SetsBucket, WriterOK
<1>6. End(writer)' = mem'[files'].used
  <2>1. End(writer) = mem[files].used  BY <1>0 DEF WriterOK, Placing
  <2> QED  BY Zenon, <1>0, <1>2, <1>3, <2>1 DEF SetsBucket, End
<1>7. \A c \in 0 .. writer'.n : Written(c)'
  <2>1. \A c \in 0 .. writer.n : c \in 0 .. writer.cell - 1  BY <1>0, <1>n
  <2>2. \A c \in 0 .. writer.n : Written(c)  BY <1>0, <2>1 DEF WriterOK
  <2>3. mem'[files].arena = mem[files].arena  BY <1>2 DEF SetsBucket
  <2> QED  BY Zenon, <1>0, <1>3, <2>2, <2>3 DEF Written
<1>8. Target.gen' = 0
  <2>1. mem[files].bucket[b] \in BucketStates  BY <1>n, FileFields
  <2>2. [mem[files].bucket[b] EXCEPT !.gen = 0].gen = 0  BY <2>1 DEF BucketStates
  <2> QED  BY Zenon, <1>0, <1>2, <1>3, <2>2 DEF SetsBucket, Target
<1> QED  BY <1>3, <1>4, <1>5, <1>6, <1>7, <1>8 DEF WriterOK

(* WriteMetadata keeps it: the bucket is still invalid.                    *)
LEMMA WriteMetadataWriter ==
    ASSUME Shape, ConstantsOK, WriterOK, WriteMetadata
    PROVE  WriterOK'
<1> DEFINE b == BucketOf[writer.key]
           e == mem[files].bucket[b]
<1>0. writer.at \in {"metadata", "metadata2"} /\ files' = files /\ published' = published
  BY DEF WriteMetadata
<1>1. writer.at \in Busy  BY <1>0 DEF Busy
<1>n. /\ writer.n \in Nat /\ writer.off \in Nat /\ writer.key \in Keys /\ files \in 1 .. Files /\ b \in Buckets
      /\ e \in BucketStates
  BY ZenonT(30), <1>1, BusyNumbers, WriterKinds, FileFields
<1>2. PICK r \in BucketStates :
        /\ SetsBucket(b, r) /\ r.gen = e.gen
        /\ \/ writer.at = "metadata" /\ writer'.at = "metadata2" /\ r.key = writer.key /\ r.off = writer.off
           \/ writer.at = "metadata2" /\ writer'.at = "commit" /\ r.key = e.key /\ r.off = e.off /\ r.n = writer.n
  <2>1. CASE writer.at = "metadata"
    <3> DEFINE r == [e EXCEPT !.key = writer.key, !.off = writer.off]
    <3>1. SetsBucket(b, r)  BY Zenon, <2>1, WriteMetadataSets
    <3>2. \A x \in BucketStates, k \in Keys, o \in Nat :
             LET y == [x EXCEPT !.key = k, !.off = o]
             IN  y \in BucketStates /\ y.gen = x.gen /\ y.key = k /\ y.off = o
      BY Zenon DEF BucketStates
    <3>e. e \in BucketStates /\ writer.key \in Keys /\ writer.off \in Nat  BY Zenon, <1>n
    <3> HIDE DEF e
    <3>3. r \in BucketStates  BY Zenon, <3>e, <3>2
    <3>5. r.gen = e.gen /\ r.key = writer.key /\ r.off = writer.off  BY <3>e DEF BucketStates
    <3>4. writer'.at = "metadata2"  BY Zenon, <1>1, <2>1, BusyNumbers, BusyFields
    <3> HIDE DEF r
    <3> QED  BY Zenon, <2>1, <3>1, <3>3, <3>4, <3>5
  <2>2. CASE writer.at = "metadata2"
    <3> DEFINE r == [e EXCEPT !.n = writer.n]
    <3>1. SetsBucket(b, r)  BY Zenon, <2>2, WriteMetadataSets
    <3>2. \A x \in BucketStates, m \in Nat :
             LET y == [x EXCEPT !.n = m]
             IN  y \in BucketStates /\ y.gen = x.gen /\ y.key = x.key /\ y.off = x.off /\ y.n = m
      BY Zenon DEF BucketStates
    <3>3. r \in BucketStates /\ r.gen = e.gen /\ r.key = e.key /\ r.off = e.off /\ r.n = writer.n
      BY Zenon, <1>n, <3>2
    <3>4. writer'.at = "commit"  BY Zenon, <1>1, <2>2, BusyNumbers, BusyFields
    <3> HIDE DEF r
    <3> QED  BY Zenon, <2>2, <3>1, <3>3, <3>4
  <2> QED  BY <1>0, <2>1, <2>2
<1>3. /\ writer'.odd = writer.odd /\ writer'.n = writer.n
      /\ writer'.off = writer.off /\ writer'.key = writer.key
  BY Zenon, <1>1, BusyNumbers, BusyFields
<1>4. \A f \in 1 .. Files : f > files' => mem'[f] = EmptyFile
  BY SMTT(60), <1>0, <1>2 DEF SetsBucket, Frame, WriterOK
<1>5. mem'[files'].gen = writer'.odd  BY <1>0, <1>1, <1>2, <1>3 DEF SetsBucket, WriterOK
<1>6. End(writer)' = mem'[files'].used
  <2>1. End(writer) = mem[files].used  BY <1>0 DEF WriterOK, Placing
  <2> QED  BY Zenon, <1>0, <1>2, <1>3, <2>1 DEF SetsBucket, End
<1>7. \A c \in 0 .. writer'.n : Written(c)'
  <2>1. \A c \in 0 .. writer.n : Written(c)  BY <1>0 DEF WriterOK
  <2>2. mem'[files].arena = mem[files].arena  BY <1>2 DEF SetsBucket
  <2> QED  BY Zenon, <1>0, <1>3, <2>1, <2>2 DEF Written
<1>8. Target' = r  BY Zenon, <1>0, <1>2, <1>3 DEF SetsBucket, Target
<1>9. e.gen = 0 /\ (writer.at = "metadata2" => e.key = writer.key /\ e.off = writer.off)
  BY <1>0 DEF WriterOK, Target
<1> HIDE DEF e, b
<1> QED  BY SMTT(20), <1>2, <1>3, <1>4, <1>5, <1>6, <1>7, <1>8, <1>9 DEF WriterOK, Placing, Busy

(* CommitBucket keeps it.                                                  *)
LEMMA CommitBucketWriter ==
    ASSUME Shape, ConstantsOK, WriterOK, CommitBucket
    PROVE  WriterOK'
<1> DEFINE b == BucketOf[writer.key]
<1>0. writer.at = "commit" /\ files' = files  BY DEF CommitBucket
<1>1. writer.at \in Busy  BY <1>0 DEF Busy
<1>2. SetsBucket(b, [mem[files].bucket[b] EXCEPT !.gen = writer.odd + 1])  BY Zenon,
                                                                              CommitBucketSets
<1>3. /\ writer'.at = "finish" /\ writer'.odd = writer.odd /\ writer'.n = writer.n /\ writer'.off = writer.off
  BY Zenon, <1>1, BusyNumbers, BusyFields
<1>4. \A f \in 1 .. Files : f > files' => mem'[f] = EmptyFile
  BY <1>0, <1>2 DEF SetsBucket, Frame, WriterOK
<1>5. mem'[files'].gen = writer'.odd  BY <1>0, <1>1, <1>2, <1>3 DEF SetsBucket, WriterOK
<1>6. End(writer)' = mem'[files'].used
  <2>1. End(writer) = mem[files].used  BY <1>0 DEF WriterOK, Placing
  <2> QED  BY Zenon, <1>0, <1>2, <1>3, <2>1 DEF SetsBucket, End
<1> QED  BY <1>3, <1>4, <1>5, <1>6 DEF WriterOK

(* So do the steps outside a publication and at its ends.                  *)
LEMMA EdgeWriterOK ==
    ASSUME Shape, ConstantsOK, WriterOK, EdgeStep
    PROVE  WriterOK'
<1>1. CASE Unlink \/ Crash
  BY <1>1 DEF Unlink, Crash, WriterOK, Busy, Placing
<1>2. CASE Create
  <2>1. files' = files + 1 /\ files' \in 1 .. Files /\ mem' = mem /\ writer'.at = "header"
    BY <1>2 DEF Create, Shape, ConstantsOK
  <2>2. \A f \in 1 .. Files : f >= files' => mem[f] = EmptyFile
    BY <2>1 DEF WriterOK, Shape, ConstantsOK
  <2> QED  BY <2>1, <2>2 DEF WriterOK, Busy, Placing
<1>3. CASE WriteHeader
  <2>1. writer'.at = "idle" /\ files' = files  BY <1>3 DEF WriteHeader
  <2>2. \A f \in 1 .. Files : f > files' => mem'[f] = EmptyFile
    BY <1>3, <2>1, WriteHeaderSets DEF SetsHeader, Frame, WriterOK
  <2> QED  BY <2>1, <2>2 DEF WriterOK, Busy, Placing
<1>4. CASE CommitHeader
  <2>1. writer'.at = "idle" /\ files' = files  BY <1>4 DEF CommitHeader
  <2>2. \A f \in 1 .. Files : f > files' => mem'[f] = EmptyFile
    BY <1>4, <2>1, CommitHeaderSets DEF SetsHeader, Frame, WriterOK
  <2> QED  BY <2>1, <2>2 DEF WriterOK, Busy, Placing
<1>5. ASSUME NEW k \in Keys, NEW n \in Sizes, Publish(k, n) PROVE WriterOK'
  <2>1. files' = files /\ writer' = [at |-> "reserve", key |-> k, n |-> n, odd |-> OddAfter(mem[files].gen), off |-> 0,
                   left |-> Buckets, cell |-> 0]
    BY Zenon, <1>5 DEF Publish
  <2>2. writer'.at = "reserve" /\ writer'.odd = OddAfter(mem[files].gen) /\ writer'.left = Buckets /\ writer'.cell = 0
    BY <2>1
  <2>3. /\ \A f \in 1 .. Files : f > files' => mem'[f] = EmptyFile
        /\ mem'[files'].gen = OddAfter(mem[files].gen)
    BY <1>5, <2>1, PublishSets DEF SetsHeader, Frame, WriterOK
  <2> QED  BY <2>2, <2>3 DEF WriterOK, Placing
<1> QED  BY Zenon, <1>1, <1>2, <1>3, <1>4, <1>5 DEF EdgeStep

(* Every step of the publisher keeps the types and what is known of it.    *)
LEMMA WriterStepOK ==
    ASSUME Shape, ConstantsOK, WriterOK, WriterStep
    PROVE  Shape' /\ WriterOK'
<1>1. EdgeStep \/ BusyStep  BY Zenon DEF WriterStep, EdgeStep, BusyStep
<1>2. Shape'  BY Zenon, <1>1, EdgeShape, BusyShape
<1>3. CASE BusyStep
  BY Zenon, <1>2, <1>3, InvalidateOneWriter, ReserveWriter, WriteCellWriter,
     InvalidateBucketWriter, WriteMetadataWriter,
     CommitBucketWriter DEF BusyStep
<1> QED  BY Zenon, <1>1, <1>2, <1>3, EdgeWriterOK

(* The limit is a place in the used arena.                                 *)
LEMMA LimitFacts ==
    ASSUME Shape, ConstantsOK, WriterOK, NEW f \in 1 .. Files
    PROVE  /\ Limit(f) \in 0 .. ArenaSize /\ Limit(f) <= mem[f].used /\ mem[f].used \in 0 .. ArenaSize
           /\ Newest(f) \in Nat
<1>1. mem[f].used \in 0 .. ArenaSize /\ mem[f].gen \in Nat  BY FileFields
<1>2. Newest(f) \in Nat
  <2>1. CASE writer.at = "finish"
    <3>1. writer.odd \in Nat  BY <2>1, BusyNumbers DEF Busy
    <3> QED  BY <2>1, <3>1 DEF Newest
  <2> QED  BY <1>1, <2>1 DEF Newest
<1>3. CASE f = files /\ writer.at \in Placing
  <2>1. writer.off \in Nat /\ writer.n \in Nat  BY <1>3, BusyNumbers DEF Placing, Busy
  <2>2. End(writer) = mem[f].used  BY <1>3 DEF WriterOK
  <2>3. Limit(f) = writer.off  BY Zenon, <1>3 DEF Limit
  <2> QED  BY <1>1, <1>2, <2>1, <2>2, <2>3 DEF End, ConstantsOK
<1>4. CASE ~(f = files /\ writer.at \in Placing)
  <2>1. Limit(f) = mem[f].used  BY Zenon, <1>4 DEF Limit
  <2> QED  BY <1>1, <1>2, <2>1 DEF ConstantsOK
<1> QED  BY <1>3, <1>4

(* All buckets are in order.                                               *)
BucketsOK == \A f \in 1 .. Files, b \in Buckets : BucketOK(f, b)

(* A file other than the one written keeps its entries.                    *)
LEMMA OldBuckets ==
    ASSUME Shape, Shape', ConstantsOK, WriterOK, NEW f \in 1 .. Files, NEW b \in Buckets, BucketOK(f, b),
           ~Writing(f)', mem'[f] = mem[f], current'[f][b] = current[f][b],
           Limit(f)' = mem'[f].used
    PROVE  BucketOK(f, b)'
<1>1. Limit(f) \in 0 .. ArenaSize /\ Limit(f) <= mem[f].used /\ mem[f].used \in 0 .. ArenaSize
  BY LimitFacts
<1>2. Limit(f)' \in Nat /\ Limit(f) <= Limit(f)'  BY <1>1 DEF ConstantsOK
<1> QED  BY <1>1, <1>2, BucketKept

(* A publication does not touch the buckets of another file.               *)
LEMMA BusyOldBuckets ==
    ASSUME Shape, ConstantsOK, WriterOK, BusyStep, NEW f \in 1 .. Files, NEW b \in Buckets, BucketOK(f, b), f # files
    PROVE  BucketOK(f, b)'
<1>1. Shape'  BY BusyShape
<1>2. files' = files /\ mem'[f] = mem[f] /\ current'[f][b] = current[f][b]
  BY Zenon, BusyStepWriter, BusyStepCurrent, BusyWrites DEF Frame
<1>3. ~Writing(f)' /\ Limit(f)' = mem'[f].used  BY Zenon, <1>2 DEF Writing, Limit
<1> QED  BY <1>1, <1>2, <1>3, OldBuckets

(* The buckets of the file that is written.                                *)
LEMMA InvalidatedBucket ==
    ASSUME Shape, Shape', ConstantsOK, WriterOK, WriterOK', NEW b \in Buckets, NEW d \in Buckets,
           BucketOK(files, d), writer.at \in Busy, writer'.at \in Busy, files' = files,
           SetsBucket(b, [mem[files].bucket[b] EXCEPT !.gen = 0]),
           current' = [current EXCEPT ![files][b] = Nothing],
           writer'.off = writer.off, writer'.odd = writer.odd,
           writer.at \in Placing <=> writer'.at \in Placing, writer.at # "finish",
           writer'.at # "finish"
    PROVE  BucketOK(files, d)'
<1>0. files \in 1 .. Files /\ files # 0 /\ mem[files].bucket[b] \in BucketStates
  BY BusyNumbers, FileFields
<1>1. Limit(files) \in 0 .. ArenaSize /\ Newest(files) \in Nat  BY <1>0, LimitFacts
<1>2. Limit(files)' = Limit(files) /\ Newest(files)' = Newest(files)
  BY Zenon DEF Limit, Newest, SetsBucket
<1>3. /\ current'[files][b] = Nothing
      /\ d # b => current'[files][d] = current[files][d]
  BY ZenonT(30), <1>0, CurrentSet
<1>4. CASE d = b
  <2>1. [mem[files].bucket[b] EXCEPT !.gen = 0].gen = 0  BY <1>0 DEF BucketStates
  <2>2. mem'[files].bucket[d].gen = 0  BY Zenon, <1>4, <2>1 DEF SetsBucket
  <2>3. Newest(files)' \in Nat  BY <1>1, <1>2
  <2>4. current'[files][d] = Nothing  BY <1>3, <1>4
  <2>5. mem'[files'].bucket[d].gen = 0 /\ current'[files'][d] = Nothing /\ Newest(files)' \in Nat
    BY <2>2, <2>3, <2>4
  <2> QED  BY Zenon, <2>5, BucketCleared
<1>5. CASE d # b
  <2>1. mem'[files].bucket[d] = mem[files].bucket[d] /\ mem'[files].arena = mem[files].arena
    BY Zenon, <1>5 DEF SetsBucket
  <2>2. Limit(files)' \in Nat /\ Limit(files) <= Limit(files)' /\ Newest(files) <= Newest(files)'
    BY <1>1, <1>2 DEF ConstantsOK
  <2>3. Writing(files)  BY DEF Writing, Busy
  <2> QED  BY <1>0, <1>1, <1>2, <1>3, <1>5, <2>1, <2>2, <2>3, BucketKept
<1> QED  BY <1>4, <1>5

(* Reserve keeps the buckets in order: entries stay below the space it     *)
(* takes, and if that begins at cell 0 there are none.                     *)
LEMMA ReserveBuckets ==
    ASSUME Shape, Shape', ConstantsOK, WriterOK, Reserve, NEW d \in Buckets, BucketOK(files, d)
    PROVE  BucketOK(files, d)'
<1>0. writer.at = "reserve" /\ writer.at \in Busy /\ files' = files /\ current' = current
  BY DEF Reserve, Busy
<1>n. files \in 1 .. Files /\ writer \in BusyWriters  BY <1>0, BusyNumbers
<1>1. Limit(files) = mem[files].used /\ Limit(files) \in 0 .. ArenaSize /\ Newest(files) \in Nat
  BY <1>0, <1>n, LimitFacts DEF Limit, Placing
<1>2. /\ SetsUsed(writer'.off + 1 + writer.n)
      /\ (writer'.off = mem[files].used \/ (writer'.off = 0 /\ writer.left = {}))
      /\ writer'.off \in Nat
  BY Zenon, ReserveSets
<1>3. writer'.at = "payload" /\ Limit(files)' = writer'.off /\ Newest(files)' = Newest(files)
  <2>1. writer'.at = "payload"  BY Zenon, <1>n, BusyFields
  <2>2. Limit(files)' = writer'.off  BY <1>0, <2>1 DEF Limit, Placing
  <2>3. Newest(files)' = Newest(files)  BY <1>0, <1>2, <2>1 DEF Newest, SetsUsed
  <2> QED  BY Zenon, <2>1, <2>2, <2>3
<1>4. mem'[files].bucket = mem[files].bucket /\ mem'[files].arena = mem[files].arena
  BY Zenon, <1>2 DEF SetsUsed
<1>5. CASE writer'.off = mem[files].used
  <2>1. Limit(files)' \in Nat /\ Limit(files) <= Limit(files)' /\ Newest(files)' \in Nat /\ Newest(files) <= Newest(files)'
    BY <1>1, <1>2, <1>3, <1>5 DEF ConstantsOK
  <2>2. Writing(files)  BY <1>0 DEF Writing
  <2> QED  BY SMTT(20), <1>0, <1>n, <1>1, <1>4, <2>1, <2>2, BucketKept
<1>6. CASE writer.left = {}
  <2>1. mem[files].bucket[d].gen = 0  BY <1>0, <1>6 DEF WriterOK
  <2>2. mem'[files'].bucket[d].gen = 0 /\ current'[files'][d] = Nothing
    BY Zenon, <1>0, <1>4, <2>1 DEF BucketOK
  <2>3. Newest(files)' \in Nat  BY <1>1, <1>3
  <2> QED  BY Zenon, <2>2, <2>3, BucketCleared
<1> QED  BY <1>2, <1>5, <1>6

(* WriteCell keeps them in order: it writes above the limit.               *)
LEMMA WriteCellBuckets ==
    ASSUME Shape, Shape', ConstantsOK, WriterOK, WriteCell, NEW d \in Buckets, BucketOK(files, d)
    PROVE  BucketOK(files, d)'
<1>0. writer.at = "payload" /\ writer.at \in Busy /\ files' = files /\ current' = current /\ writer.cell <= writer.n
  BY DEF WriteCell, Busy
<1>n. /\ files \in 1 .. Files /\ writer \in BusyWriters /\ writer.off \in Nat /\ writer.cell \in Nat /\ writer.n \in Nat
      /\ mem[files].used \in 0 .. ArenaSize
  BY <1>0, BusyNumbers, FileFields
<1>1. Limit(files) = writer.off /\ Limit(files) \in 0 .. ArenaSize /\ Newest(files) \in Nat
  BY <1>0, <1>n, LimitFacts DEF Limit, Placing
<1>2. SetsCell(writer.off + writer.cell,
               IF writer.cell = 0 THEN Owner(writer.key) ELSE Address(published, writer.cell))
  <2>1. End(writer) = mem[files].used  BY <1>0 DEF WriterOK, Placing
  <2>2. writer.off + 1 + writer.n <= ArenaSize  BY <1>n, <2>1 DEF End, ConstantsOK
  <2> QED  BY <2>2, WriteCellSets
<1>3. Limit(files)' = Limit(files) /\ Newest(files)' = Newest(files)
  <2>1. writer'.at = "payload" /\ writer'.off = writer.off  BY Zenon, <1>n, BusyFields
  <2>2. Limit(files)' = writer'.off  BY <1>0, <2>1 DEF Limit, Placing
  <2>3. Newest(files)' = Newest(files)  BY <1>0, <1>2, <2>1 DEF Newest, SetsCell
  <2> QED  BY Zenon, <1>1, <2>1, <2>2, <2>3
<1>4. mem'[files].bucket = mem[files].bucket  BY Zenon, <1>2 DEF SetsCell
<1>5. \A c \in Cells : c < Limit(files) => mem'[files].arena[c] = mem[files].arena[c]
  <2> SUFFICES ASSUME NEW c \in Cells, c < Limit(files)
               PROVE  mem'[files].arena[c] = mem[files].arena[c]
    OBVIOUS
  <2>1. c # writer.off + writer.cell  BY <1>n, <1>1 DEF Cells, ConstantsOK
  <2> QED  BY Zenon, <1>2, <2>1 DEF SetsCell
<1>6. Limit(files)' \in Nat /\ Limit(files) <= Limit(files)' /\ Newest(files)' \in Nat /\ Newest(files) <= Newest(files)'
  BY <1>1, <1>3 DEF ConstantsOK
<1>7. Writing(files)  BY <1>0 DEF Writing
<1> QED  BY <1>0, <1>n, <1>1, <1>4, <1>5, <1>6, <1>7, BucketKept

(* WriteMetadata keeps them in order: it writes an invalid bucket.         *)
LEMMA WriteMetadataBuckets ==
    ASSUME Shape, Shape', ConstantsOK, WriterOK, WriterOK', WriteMetadata, NEW d \in Buckets, BucketOK(files, d)
    PROVE  BucketOK(files, d)'
<1> DEFINE b == BucketOf[writer.key]
<1>0. writer.at \in {"metadata", "metadata2"} /\ writer.at \in Busy /\ files' = files /\ current' = current
  BY DEF WriteMetadata, Busy
<1>n. files \in 1 .. Files /\ writer \in BusyWriters /\ b \in Buckets
  BY <1>0, BusyNumbers
<1>1. Limit(files) = writer.off /\ Limit(files) \in 0 .. ArenaSize /\ Newest(files) \in Nat
  BY <1>0, <1>n, LimitFacts DEF Limit, Placing
<1>2. \E r : SetsBucket(b, r)  BY Zenon, WriteMetadataSets
<1>3. /\ writer'.at \in {"metadata2", "commit"} /\ writer'.off = writer.off /\ writer'.key = writer.key
  BY Zenon, <1>n, BusyFields
<1>4. Limit(files)' = Limit(files) /\ Newest(files)' = Newest(files)
  <2>1. Limit(files)' = writer'.off  BY <1>0, <1>3 DEF Limit, Placing
  <2>2. Newest(files)' = Newest(files)  BY <1>0, <1>2, <1>3 DEF Newest, SetsBucket
  <2> QED  BY Zenon, <1>1, <1>3, <2>1, <2>2
<1>5. Limit(files)' \in Nat /\ Limit(files) <= Limit(files)' /\ Newest(files)' \in Nat /\ Newest(files) <= Newest(files)'
  BY <1>1, <1>4 DEF ConstantsOK
<1>6. CASE d = b
  <2>1. Target.gen = 0 /\ Target.gen' = 0  BY <1>0, <1>3 DEF WriterOK
  <2>2. mem[files].bucket[d].gen = 0 /\ mem'[files'].bucket[d].gen = 0
    BY Zenon, <1>3, <1>6, <2>1 DEF Target
  <2>3. current'[files'][d] = Nothing  BY Zenon, <1>0, <2>2 DEF BucketOK
  <2> QED  BY Zenon, <1>5, <2>2, <2>3, BucketCleared
<1>7. CASE d # b
  <2>1. mem'[files].bucket[d] = mem[files].bucket[d] /\ mem'[files].arena = mem[files].arena
    BY Zenon, <1>2, <1>7 DEF SetsBucket
  <2>2. Writing(files)  BY <1>0 DEF Writing
  <2> QED  BY <1>0, <1>n, <1>1, <1>5, <2>1, <2>2, BucketKept
<1> QED  BY Zenon, <1>6, <1>7

(* CommitBucket keeps them in order: the bucket describes the payload just *)
(* written.                                                                *)
LEMMA CommitBuckets ==
    ASSUME Shape, Shape', ConstantsOK, WriterOK, WriterOK', CommitBucket, NEW d \in Buckets, BucketOK(files, d)
    PROVE  BucketOK(files, d)'
<1> DEFINE b == BucketOf[writer.key]
           v == [is |-> "entry", key |-> writer.key, addresses |-> [i \in 1 .. writer.n |-> Address(published, i)]]
<1>0. writer.at = "commit" /\ writer.at \in Busy /\ files' = files
  BY DEF CommitBucket, Busy
<1>n. /\ files \in 1 .. Files /\ files # 0 /\ writer \in BusyWriters /\ b \in Buckets /\ writer.off \in Nat /\ writer.n \in Nat
      /\ writer.odd \in Nat /\ mem[files].bucket[b] \in BucketStates /\ mem[files].used \in 0 .. ArenaSize
  BY SMTT(60), <1>0, BusyNumbers, FileFields
<1>1. Limit(files) = writer.off /\ Limit(files) \in 0 .. ArenaSize /\ Newest(files) = writer.odd
  BY <1>0, <1>n, LimitFacts DEF Limit, Placing, Newest, WriterOK
<1>2. SetsBucket(b, [mem[files].bucket[b] EXCEPT !.gen = writer.odd + 1])  BY Zenon,
                                                                              CommitBucketSets
<1>3. writer'.at = "finish" /\ writer'.off = writer.off /\ writer'.odd = writer.odd
  BY Zenon, <1>n, BusyFields
<1>4. /\ current'[files][b] = v
      /\ d # b => current'[files][d] = current[files][d]
  <2>1. current' = [current EXCEPT ![files][b] = v]  BY Zenon DEF CommitBucket
  <2>2. v \in EntryValues \cup {Nothing}  BY Zenon, <1>0, NewEntry
  <2> HIDE DEF v, b
  <2> QED  BY ZenonT(30), <1>n, <2>1, <2>2, CurrentSet
<1>5. End(writer) = mem[files].used  BY <1>0 DEF WriterOK, Placing
<1>6. Limit(files)' = mem[files].used /\ Newest(files)' = writer.odd + 1
  BY <1>0, <1>2, <1>3 DEF Limit, Newest, Placing, SetsBucket
<1>7. Limit(files)' \in Nat /\ Limit(files) <= Limit(files)' /\ Newest(files)' \in Nat /\ Newest(files) <= Newest(files)'
  BY SMTT(60), <1>n, <1>1, <1>5, <1>6 DEF ConstantsOK, End
<1>8. mem'[files].arena = mem[files].arena  BY Zenon, <1>2 DEF SetsBucket
<1>9. CASE d # b
  <2>1. mem'[files].bucket[d] = mem[files].bucket[d]  BY Zenon, <1>2, <1>9 DEF SetsBucket
  <2>2. Writing(files) /\ Newest(files) \in Nat  BY <1>0, <1>n, <1>1 DEF Writing
  <2>3. current'[files][d] = current[files][d]  BY <1>4, <1>9
  <2> HIDE DEF b, v
  <2> QED  BY <1>0, <1>n, <1>1, <1>7, <1>8, <2>1, <2>2, <2>3, BucketKept
<1>10. CASE d = b
  <2> DEFINE e == mem[files].bucket[b]
             g == mem'[files].bucket[b]
  <2>1. e.key = writer.key /\ e.off = writer.off /\ e.n = writer.n
    BY Zenon, <1>0 DEF WriterOK, Target
  <2>2. g.gen = writer.odd + 1 /\ g.key = writer.key /\ g.off = writer.off /\ g.n = writer.n
    <3>1. g = [e EXCEPT !.gen = writer.odd + 1]  BY Zenon, <1>2 DEF SetsBucket
    <3>2. e \in BucketStates  BY <1>n
    <3> HIDE DEF e, g
    <3> QED  BY <2>1, <3>1, <3>2 DEF BucketStates
  <2>3. g.gen # 0 /\ g.gen <= Newest(files)' /\ End(g) <= Limit(files)'
    <3> HIDE DEF g
    <3> QED  BY <1>n, <1>5, <1>6, <2>2 DEF End, ConstantsOK
  <2>4. \A c \in 0 .. writer.n : mem'[files].arena[writer.off + c] = IF c = 0 THEN Owner(writer.key) ELSE Address(published, c)
    BY Zenon, <1>0, <1>8 DEF WriterOK, Written
  <2>5. mem'[files].arena[g.off] = Owner(g.key)
    <3>1. 0 \in 0 .. writer.n /\ writer.off + 0 = writer.off  BY <1>n
    <3>2. mem'[files].arena[writer.off] = Owner(writer.key)  BY Zenon, <2>4, <3>1
    <3> QED  BY Zenon, <2>2, <3>2
  <2>6. [i \in 1 .. writer.n |-> mem'[files].arena[writer.off + i]] = [i \in 1 .. writer.n |-> Address(published, i)]
    <3>1. \A i \in 1 .. writer.n : i \in 0 .. writer.n /\ i # 0  BY <1>n
    <3>2. \A i \in 1 .. writer.n : mem'[files].arena[writer.off + i] = Address(published, i)  BY Zenon, <2>4, <3>1
    <3> QED  BY Zenon, <3>2
  <2>7. Held(files, d)' = v
    BY Zenon, <1>0, <1>10, <2>2, <2>6 DEF Held
  <2>8. current'[files'][d] = Held(files, d)'  BY Zenon, <1>0, <1>4, <1>10, <2>7
  <2> QED  BY Zenon, <1>0, <1>10, <2>3, <2>5, <2>8 DEF BucketOK
<1> QED  BY <1>9, <1>10

(* Every step in a publication keeps the buckets in order.                 *)
LEMMA BusyBuckets ==
    ASSUME Shape, ConstantsOK, WriterOK, BusyStep, BucketsOK
    PROVE  BucketsOK'
<1>1. Shape' /\ WriterOK'  BY Zenon, WriterStepOK DEF WriterStep, BusyStep
<1>2. files \in 1 .. Files /\ files' = files /\ writer \in BusyWriters /\ writer.at \in Busy
  BY Zenon, BusyStepWriter, BusyStepCurrent DEF BusyWriters
<1>3. ASSUME NEW d \in Buckets PROVE BucketOK(files, d)'
  <2>0. BucketOK(files, d)  BY Zenon, <1>2, <1>3 DEF BucketsOK
  <2>1. ASSUME NEW b \in Buckets, InvalidateOne(b) PROVE BucketOK(files, d)'
    <3>1. SetsBucket(b, [mem[files].bucket[b] EXCEPT !.gen = 0])  BY Zenon, <2>1, InvalidateOneSets
    <3>2. current' = [current EXCEPT ![files][b] = Nothing]  BY Zenon, <2>1 DEF InvalidateOne
    <3>3. /\ writer.at = "reserve" /\ writer'.at = "reserve" /\ writer'.odd = writer.odd /\ writer'.off = writer.off
      BY Zenon, <1>2, <2>1, BusyFields
    <3> QED  BY Zenon, <1>1, <1>2, <2>0, <3>1, <3>2, <3>3, InvalidatedBucket DEF Busy, Placing
  <2>2. CASE InvalidateBucket
    <3> DEFINE b == BucketOf[writer.key]
    <3>0. b \in Buckets  BY Zenon, <1>2, BusyNumbers
    <3>1. SetsBucket(b, [mem[files].bucket[b] EXCEPT !.gen = 0])  BY Zenon, <2>2,
                                                                     InvalidateBucketSets
    <3>2. current' = [current EXCEPT ![files][b] = Nothing]  BY Zenon, <2>2 DEF InvalidateBucket
    <3>3. /\ writer.at = "payload" /\ writer'.at = "metadata" /\ writer'.odd = writer.odd /\ writer'.off = writer.off
      BY Zenon, <1>2, <2>2, BusyFields
    <3> HIDE DEF b
    <3> QED  BY Zenon, <1>1, <1>2, <2>0, <3>0, <3>1, <3>2, <3>3, InvalidatedBucket DEF Busy, Placing
  <2> QED  BY Zenon, <1>1, <2>0, <2>1, <2>2, ReserveBuckets, WriteCellBuckets,
              WriteMetadataBuckets, CommitBuckets
              DEF BusyStep
<1> QED
  <2> SUFFICES ASSUME NEW f \in 1 .. Files, NEW b \in Buckets PROVE BucketOK(f, b)'
    BY Zenon DEF BucketsOK
  <2>1. CASE f = files  BY Zenon, <1>2, <1>3, <2>1 DEF BucketOK, Writing, Newest, Limit, Held
  <2>2. CASE f # files  BY Zenon, <2>2, BusyOldBuckets DEF BucketsOK
  <2> QED  BY <2>1, <2>2

(* So do the steps outside a publication and at its ends, a crash          *)
(* included.                                                               *)
LEMMA EdgeBuckets ==
    ASSUME Shape, ConstantsOK, WriterOK, EdgeStep, BucketsOK
    PROVE  BucketsOK'
<1>1. Shape' /\ WriterOK' /\ current' = current  BY Zenon, WriterStepOK,
                                                    EdgeWriter DEF WriterStep, EdgeStep
<1> SUFFICES ASSUME NEW f \in 1 .. Files, NEW b \in Buckets PROVE BucketOK(f, b)'
  BY Zenon DEF BucketsOK
<1>2. BucketOK(f, b)  BY Zenon DEF BucketsOK
<1>3. mem'[f].gen \in Nat  BY Zenon, <1>1, FileFields DEF Shape, FileStates
<1>4. /\ Limit(f) \in 0 .. ArenaSize /\ mem[f].used \in 0 .. ArenaSize /\ Newest(f) \in Nat /\ mem[f].gen \in Nat
      /\ Limit(f) <= mem[f].used
  BY LimitFacts, FileFields
<1>5. CASE Unlink \/ Crash
  <2>1. mem' = mem /\ writer'.at \in {"down", "create"}  BY <1>5 DEF Unlink, Crash
  <2>2. ~Writing(f)' /\ Limit(f)' = mem'[f].used  BY <2>1 DEF Writing, Limit, Placing
  <2> QED  BY <1>1, <1>2, <2>1, <2>2, OldBuckets
<1>6. ASSUME mem[f] = EmptyFile, mem'[f].bucket = mem[f].bucket, writer'.at # "finish" PROVE BucketOK(f, b)'
  <2>1. mem[f].bucket[b].gen = 0  BY <1>6 DEF EmptyFile, NoBucket
  <2>2. mem'[f].bucket[b].gen = 0 /\ current'[f][b] = Nothing  BY Zenon, <1>1, <1>2, <1>6,
                                                                  <2>1 DEF BucketOK
  <2>3. Newest(f)' \in Nat  BY <1>3, <1>6 DEF Newest
  <2> QED  BY Zenon, <2>2, <2>3, BucketCleared
<1>7. CASE Create
  <2>1. mem' = mem /\ writer'.at = "header" /\ files' = files + 1  BY <1>7 DEF Create
  <2>2. CASE f = files'
    <3>1. mem[f] = EmptyFile  BY SMTT(60), <2>1, <2>2 DEF WriterOK, Shape, ConstantsOK
    <3> QED  BY <1>6, <2>1, <3>1
  <2>3. CASE f # files'
    <3>1. ~Writing(f)' /\ Limit(f)' = mem'[f].used  BY <2>1, <2>3 DEF Writing, Limit, Placing
    <3> QED  BY <1>1, <1>2, <2>1, <3>1, OldBuckets
  <2> QED  BY <2>2, <2>3
<1>8. ASSUME f # files, files' = files, mem'[f] = mem[f] PROVE BucketOK(f, b)'
  <2>1. ~Writing(f)' /\ Limit(f)' = mem'[f].used  BY Zenon, <1>8 DEF Writing, Limit
  <2> QED  BY <1>1, <1>2, <1>8, <2>1, OldBuckets
<1>9. CASE WriteHeader
  <2>1. writer.at = "header" /\ writer'.at = "idle" /\ files' = files /\ SetsHeader(TRUE, 2)
    BY Zenon, <1>9, WriteHeaderSets DEF WriteHeader
  <2>2. CASE f = files
    <3>1. mem[f] = EmptyFile  BY <2>1, <2>2 DEF WriterOK
    <3> QED  BY <1>6, <2>1, <2>2, <3>1 DEF SetsHeader
  <2>3. CASE f # files  BY Zenon, <1>8, <2>1, <2>3 DEF SetsHeader, Frame
  <2> QED  BY <2>2, <2>3
<1>10. ASSUME NEW m, NEW g, SetsHeader(m, g), files' = files, writer.at \notin Placing \cup {"down", "create"},
              writer'.at \in {"idle", "reserve"}, g \in Nat, Newest(files) <= g
       PROVE  BucketOK(f, b)'
  <2>1. CASE f = files
    <3>1. /\ mem'[f].gen = g /\ mem'[f].used = mem[f].used /\ mem'[f].bucket = mem[f].bucket
          /\ mem'[f].arena = mem[f].arena
      BY Zenon, <1>10, <2>1 DEF SetsHeader
    <3>2. Limit(f) = mem[f].used /\ Limit(f)' = mem[f].used  BY <1>10, <2>1, <3>1 DEF Limit, Placing
    <3>3. Limit(f)' \in Nat /\ Limit(f) <= Limit(f)'  BY <1>4, <3>2 DEF ConstantsOK
    <3>4. Newest(f)' = g  BY <1>10, <2>1, <3>1 DEF Newest
    <3>5. Writing(f) /\ Newest(f)' \in Nat /\ Newest(f) <= Newest(f)'  BY <1>10, <2>1,
                                                                          <3>4 DEF Writing
    <3> QED  BY <1>1, <1>2, <1>4, <3>1, <3>3, <3>5, BucketKept
  <2>2. CASE f # files  BY Zenon, <1>8, <1>10, <2>2 DEF SetsHeader, Frame
  <2> QED  BY <2>1, <2>2
<1>11. CASE CommitHeader
  <2>1. writer.at = "finish" /\ writer'.at = "idle" /\ files' = files /\ SetsHeader(mem[files].magic, writer.odd + 1)
    BY <1>11, CommitHeaderSets DEF CommitHeader
  <2>2. writer.odd \in Nat  BY <2>1, BusyNumbers DEF Busy
  <2>3. Newest(files) = writer.odd + 1  BY <2>1 DEF Newest
  <2> QED  BY <1>10, <2>1, <2>2, <2>3 DEF Placing
<1>12. ASSUME NEW k \in Keys, NEW n \in Sizes, Publish(k, n) PROVE BucketOK(f, b)'
  <2> DEFINE g == OddAfter(mem[files].gen)
  <2>1. writer.at = "idle" /\ files' = files /\ SetsHeader(mem[files].magic, g)
    BY Zenon, <1>12, PublishSets DEF Publish
  <2>2. writer'.at = "reserve"
    <3>1. writer' = [at |-> "reserve", key |-> k, n |-> n, odd |-> g, off |-> 0, left |-> Buckets, cell |-> 0]
      BY Zenon, <1>12 DEF Publish
    <3> QED  BY <3>1
  <2>3. mem[files].gen \in Nat  BY <2>1, FileFields DEF SetsHeader, Frame
  <2>4. g \in Nat /\ mem[files].gen <= g  BY <2>3, OddFacts
  <2>5. Newest(files) = mem[files].gen  BY <2>1 DEF Newest
  <2> HIDE DEF g
  <2> QED  BY <1>10, <2>1, <2>2, <2>4, <2>5 DEF Placing
<1> QED  BY Zenon, <1>5, <1>7, <1>9, <1>11, <1>12 DEF EdgeStep

(* Every step of the publisher keeps the buckets in order.                 *)
LEMMA WriterStepBuckets ==
    ASSUME Shape, ConstantsOK, WriterOK, WriterStep, BucketsOK
    PROVE  BucketsOK'
<1>1. EdgeStep \/ BusyStep  BY Zenon DEF WriterStep, EdgeStep, BusyStep
<1> QED  BY Zenon, <1>1, EdgeBuckets, BusyBuckets

(* ---------------------------------------------------------------------- *)
(* What a step of the publisher may do to what a reader has seen.          *)

(* The newest generation of a file being written does not fall.            *)
LEMMA NewestGrows ==
    ASSUME Shape, ConstantsOK, WriterOK, WriterStep, NEW f \in 1 .. files, Writing(f)'
    PROVE  f \in 1 .. Files /\ Writing(f) /\ Newest(f) \in Nat /\ Newest(f)' \in Nat /\ Newest(f) <= Newest(f)'
<1>0. f \in 1 .. Files  BY DEF Shape, ConstantsOK
<1>1. Shape' /\ WriterOK'  BY Zenon, WriterStepOK
<1>2. Newest(f) \in Nat  BY <1>0, LimitFacts
<1>3. EdgeStep \/ BusyStep  BY Zenon DEF WriterStep, EdgeStep, BusyStep
<1>4. CASE BusyStep
  <2>1. /\ files' = files /\ writer \in BusyWriters /\ writer' \in BusyWriters
    BY Zenon, <1>4, BusyStepWriter
  <2>2. writer.at \in Busy /\ writer'.at \in Busy  BY Zenon, <2>1 DEF BusyWriters
  <2>3. f = files  BY Zenon, <2>1 DEF Writing
  <2>4. Writing(f)  BY <2>2, <2>3 DEF Writing, Busy
  <2>5. writer'.odd = writer.odd /\ writer.at # "finish" /\ writer.odd \in Nat
    <3>1. writer.odd \in Nat  BY <2>2, BusyNumbers
    <3>2. writer'.odd = writer.odd  BY Zenon, <1>4, <2>1, BusyFields DEF BusyStep
    <3>3. writer.at # "finish"
      BY Zenon, <1>4 DEF BusyStep, InvalidateOne, Reserve, WriteCell, InvalidateBucket,
         WriteMetadata, CommitBucket
    <3> QED  BY Zenon, <3>1, <3>2, <3>3
  <2>6. mem[f].gen = writer.odd /\ mem'[f].gen = writer.odd
    BY Zenon, <1>1, <2>1, <2>2, <2>3, <2>5 DEF WriterOK
  <2>7. Newest(f) = writer.odd /\ Newest(f)' \in {writer.odd, writer.odd + 1}
    BY Zenon, <2>5, <2>6 DEF Newest
  <2> QED  BY <1>0, <2>4, <2>5, <2>7
<1>5. CASE Unlink \/ Crash
  BY <1>5 DEF Unlink, Crash, Writing
<1>6. CASE Create
  BY <1>6 DEF Create, Writing, Shape
<1>7. CASE WriteHeader
  <2>1. f = files /\ writer.at = "header" /\ SetsHeader(TRUE, 2) /\ writer'.at = "idle"
    BY ZenonT(30), <1>7, WriteHeaderSets DEF WriteHeader, Writing
  <2>2. mem[f].gen = 0  BY SMTT(60), <2>1 DEF WriterOK, EmptyFile
  <2>3. Writing(f) /\ Newest(f) = 0 /\ Newest(f)' = 2  BY <2>1, <2>2 DEF Writing, Newest, SetsHeader
  <2> QED  BY <1>0, <2>3
<1>8. CASE CommitHeader
  <2>1. f = files /\ writer.at = "finish" /\ SetsHeader(mem[files].magic, writer.odd + 1) /\ writer'.at = "idle"
    BY <1>8, CommitHeaderSets DEF CommitHeader, Writing
  <2>2. writer.odd \in Nat  BY <2>1, BusyNumbers DEF Busy
  <2>3. Writing(f) /\ Newest(f) = writer.odd + 1 /\ Newest(f)' = writer.odd + 1
    BY <2>1 DEF Writing, Newest, SetsHeader
  <2> QED  BY <1>0, <2>2, <2>3
<1>9. ASSUME NEW k \in Keys, NEW n \in Sizes, Publish(k, n)
      PROVE  Writing(f) /\ Newest(f)' \in Nat /\ Newest(f) <= Newest(f)'
  <2> DEFINE g == OddAfter(mem[files].gen)
  <2>1. writer.at = "idle" /\ files' = files /\ SetsHeader(mem[files].magic, g)
    BY Zenon, <1>9, PublishSets DEF Publish
  <2>2. writer'.at = "reserve"
    <3>1. writer' = [at |-> "reserve", key |-> k, n |-> n, odd |-> g, off |-> 0, left |-> Buckets, cell |-> 0]
      BY Zenon, <1>9 DEF Publish
    <3> QED  BY <3>1
  <2>3. f = files /\ mem[f].gen \in Nat  BY <1>0, <2>1, FileFields DEF Writing
  <2>4. g \in Nat /\ mem[f].gen <= g  BY SMTT(20), <2>3, OddFacts
  <2>5. Newest(f) = mem[f].gen /\ Newest(f)' = g /\ Writing(f)
    <3> HIDE DEF g
    <3> QED  BY <2>1, <2>2, <2>3 DEF Newest, SetsHeader, Writing
  <2> QED  BY <2>4, <2>5
<1> QED  BY Zenon, <1>0, <1>2, <1>3, <1>4, <1>5, <1>6, <1>7, <1>8, <1>9 DEF EdgeStep

(* The cells that entries may hold are not written.                        *)
LEMMA ArenaKept ==
    ASSUME Shape, ConstantsOK, WriterOK, WriterStep, NEW f \in 1 .. Files, NEW c \in Cells, c < Limit(f)
    PROVE  mem'[f].arena[c] = mem[f].arena[c]
<1>1. EdgeStep \/ BusyStep  BY Zenon DEF WriterStep, EdgeStep, BusyStep
<1>2. CASE EdgeStep
  <2>1. CASE Unlink \/ Create \/ Crash  BY <2>1 DEF Unlink, Create, Crash
  <2>2. ASSUME NEW m, NEW g, SetsHeader(m, g) PROVE mem'[f].arena = mem[f].arena
    BY Zenon, <2>2 DEF SetsHeader, Frame
  <2> QED  BY Zenon, <1>2, <2>1, <2>2, WriteHeaderSets, CommitHeaderSets, PublishSets DEF EdgeStep
<1>3. CASE BusyStep
  <2>0. Frame  BY <1>3, BusyWrites
  <2>1. CASE f # files  BY Zenon, <2>0, <2>1 DEF Frame
  <2>2. CASE f = files
    <3>1. ASSUME NEW b \in Buckets, NEW e, SetsBucket(b, e) PROVE mem'[f].arena = mem[f].arena
      BY Zenon, <2>2, <3>1 DEF SetsBucket
    <3>2. CASE Reserve  BY Zenon, <2>2, <3>2, ReserveSets DEF SetsUsed
    <3>3. CASE WriteCell
      <4>0. writer.at = "payload" /\ writer.at \in Busy /\ writer.cell <= writer.n  BY Zenon,
                                                                                       <3>3 DEF WriteCell, Busy
      <4>1. /\ writer.off \in Nat /\ writer.cell \in Nat /\ writer.n \in Nat /\ mem[files].used \in 0 .. ArenaSize
        BY <2>2, <4>0, BusyNumbers, FileFields
      <4>2. End(writer) = mem[files].used  BY <4>0 DEF WriterOK, Placing
      <4>3. writer.off + 1 + writer.n <= ArenaSize  BY <4>1, <4>2 DEF End, ConstantsOK
      <4>4. Limit(f) = writer.off  BY <2>2, <4>0 DEF Limit, Placing
      <4>5. c # writer.off + writer.cell  BY <4>1, <4>4 DEF Cells, ConstantsOK
      <4> QED  BY Zenon, <2>2, <3>3, <4>3, <4>5, WriteCellSets DEF SetsCell
    <3>4. CASE \E b \in Buckets : InvalidateOne(b)  BY Zenon, <3>1, <3>4, InvalidateOneSets
    <3>5. CASE InvalidateBucket \/ WriteMetadata \/ CommitBucket
      <4>1. BucketOf[writer.key] \in Buckets
        <5>1. writer.at \in Busy  BY Zenon, <3>5 DEF InvalidateBucket, WriteMetadata,
                                     CommitBucket, Busy
        <5> QED  BY Zenon, <5>1, BusyNumbers
      <4> QED  BY Zenon, <3>1, <3>5, <4>1, InvalidateBucketSets, WriteMetadataSets, CommitBucketSets
    <3> QED  BY Zenon, <1>3, <3>2, <3>3, <3>4, <3>5 DEF BusyStep
  <2> QED  BY <2>1, <2>2
<1> QED  BY <1>1, <1>2, <1>3

(* A bucket whose generation is still the one a reader has seen has not    *)
(* changed: its metadata is only written while the generation is zero, and *)
(* it comes back with a generation that no reader can have seen.           *)
LEMMA BucketPinned ==
    ASSUME Shape, ConstantsOK, WriterOK, WriterStep, NEW f \in 1 .. files, NEW b \in Buckets,
           NEW g \in Nat, g # 0, Writing(f) => g <= Newest(f), mem'[f].bucket[b].gen = g
    PROVE  mem'[f].bucket[b] = mem[f].bucket[b]
<1>0. f \in 1 .. Files  BY DEF Shape, ConstantsOK
<1>1. EdgeStep \/ BusyStep  BY Zenon DEF WriterStep, EdgeStep, BusyStep
<1>w. WriterOK'  BY Zenon, WriterStepOK
<1>2. CASE EdgeStep
  <2>1. CASE Unlink \/ Create \/ Crash  BY <2>1 DEF Unlink, Create, Crash
  <2>2. ASSUME NEW m, NEW h, SetsHeader(m, h) PROVE mem'[f].bucket = mem[f].bucket
    BY Zenon, <1>0, <2>2 DEF SetsHeader, Frame
  <2> QED  BY Zenon, <1>2, <2>1, <2>2, WriteHeaderSets, CommitHeaderSets, PublishSets DEF EdgeStep
<1>3. CASE BusyStep
  <2>0. Frame /\ files' = files /\ writer \in BusyWriters /\ writer.at \in Busy
    BY Zenon, <1>3, BusyWrites, BusyStepWriter DEF BusyWriters
  <2>1. CASE f # files  BY Zenon, <1>0, <2>0, <2>1 DEF Frame
  <2>2. CASE f = files
    <3>1. ASSUME NEW d \in Buckets, NEW e, SetsBucket(d, e), d = b => e.gen # g
          PROVE  mem'[f].bucket[b] = mem[f].bucket[b]
      BY Zenon, <2>2, <3>1 DEF SetsBucket
    <3>2. ASSUME NEW d \in Buckets PROVE [mem[files].bucket[d] EXCEPT !.gen = 0].gen # g
      <4>1. mem[files].bucket[d] \in BucketStates  BY <1>0, <2>2, FileFields
      <4> QED  BY <4>1 DEF BucketStates
    <3>3. CASE Reserve  BY Zenon, <2>2, <3>3, ReserveSets DEF SetsUsed
    <3>4. CASE WriteCell
      <4>0. writer.at = "payload" /\ writer.cell <= writer.n  BY Zenon, <3>4 DEF WriteCell
      <4>1. /\ writer.off \in Nat /\ writer.cell \in Nat /\ writer.n \in Nat /\ mem[files].used \in 0 .. ArenaSize
        BY <1>0, <2>0, <2>2, BusyNumbers, FileFields
      <4>2. End(writer) = mem[files].used  BY <4>0 DEF WriterOK, Placing
      <4>3. writer.off + 1 + writer.n <= ArenaSize  BY <4>1, <4>2 DEF End, ConstantsOK
      <4> QED  BY Zenon, <2>2, <3>4, <4>3, WriteCellSets DEF SetsCell
    <3>5. CASE \E d \in Buckets : InvalidateOne(d)  BY Zenon, <3>1, <3>2, <3>5, InvalidateOneSets
    <3>b. BucketOf[writer.key] \in Buckets  BY Zenon, <2>0, BusyNumbers
    <3>6. CASE InvalidateBucket  BY Zenon, <3>1, <3>2, <3>6, <3>b, InvalidateBucketSets
    <3>7. CASE WriteMetadata
      <4>1. writer'.key = writer.key /\ writer'.at \in {"metadata2", "commit"}  BY ZenonT(30),
                                                                                   <2>0, <3>7,
                                                                                   BusyFields
      <4>2. Target.gen' = 0  BY <1>w, <4>1 DEF WriterOK
      <4>3. mem'[files].bucket[BucketOf[writer.key]].gen = 0  BY Zenon, <2>0, <4>1, <4>2 DEF Target
      <4>4. b # BucketOf[writer.key]  BY <2>2, <4>3
      <4> QED  BY Zenon, <2>2, <3>7, <4>4, WriteMetadataSets DEF SetsBucket
    <3>8. CASE CommitBucket
      <4>1. writer.at = "commit" /\ writer.odd \in Nat  BY SMTT(20), <2>0, <3>8,
                                                           BusyNumbers DEF CommitBucket
      <4>2. Newest(f) = writer.odd /\ Writing(f)  BY <2>0, <2>2, <4>1 DEF Newest, Writing, WriterOK
      <4>3. mem[files].bucket[BucketOf[writer.key]] \in BucketStates  BY <1>0, <2>2, <3>b,
                                                                         FileFields
      <4>4. [mem[files].bucket[BucketOf[writer.key]] EXCEPT !.gen = writer.odd + 1].gen = writer.odd + 1
        BY <4>3 DEF BucketStates
      <4>5. g # writer.odd + 1  BY <4>1, <4>2
      <4> QED  BY Zenon, <3>1, <3>8, <3>b, <4>4, <4>5, CommitBucketSets
    <3> QED  BY Zenon, <1>3, <3>3, <3>4, <3>5, <3>6, <3>7, <3>8 DEF BusyStep
  <2> QED  BY <2>1, <2>2
<1> QED  BY <1>1, <1>2, <1>3

=============================================================================
