------------------------- MODULE SharedTable_proofs -------------------------
(***************************************************************************)
(* The readers of the shared table, and the theorems: a lookup answers     *)
(* with the entry that is there (LookupsAnswerCurrently), and one that the *)
(* publisher does not disturb finds it (QuietLookupsFindEntries).          *)
(***************************************************************************)
EXTENDS SharedTable_steps

(* What a lookup holds of the bucket it looks at, while the bucket has the *)
(* generation of the snapshot.                                             *)
Faithful(r, e, arena) ==
    /\ r.at # "meta" => r.snap.key = e.key /\ r.snap.off = e.off
    /\ r.at \notin {"meta", "meta2"} => r.snap.n = e.n
    /\ r.at \in {"payload", "verify"} =>
         \A i \in 1 .. Len(r.cells) : r.cells[i] = arena[r.snap.off + i - 1]

(* What a lookup has checked before it reads the payload.                  *)
Checked(r) ==
    /\ r.at \in {"payload", "verify"} => r.snap.gen # 0 /\ r.snap.key = r.key
    /\ r.at = "payload" => Len(r.cells) <= r.snap.n /\ End(r.snap) <= r.used
    /\ r.at = "verify" => Len(r.cells) = r.snap.n + 1

(* What is known of a lookup: it has seen no generation that is still to   *)
(* come, and while its bucket has the generation it has seen, what it has  *)
(* read is what is there.                                                  *)
ReaderOK ==
    reader.at \in Snapped =>
        /\ Writing(reader.file) => reader.snap.gen <= Newest(reader.file)
        /\ reader.snap.gen # 0 /\ bucket.gen = reader.snap.gen => Faithful(reader, bucket, file.arena)
        /\ Checked(reader)

(* The types of a lookup's locals and of what it looks at.                 *)
LEMMA LookupFields ==
    ASSUME Shape, reader.at # "idle"
    PROVE  /\ reader \in Lookups /\ reader.at \in Reading /\ reader.key \in Keys /\ reader.file \in 1 .. Files
           /\ reader.file \in 1 .. files
           /\ BucketOf[reader.key] \in Buckets
           /\ reader.round \in Nat /\ reader.gen \in Nat /\ reader.used \in 0 .. ArenaSize
           /\ reader.snap \in BucketStates /\ reader.cells \in Seq(CellValues) /\ reader.quiet \in BOOLEAN
           /\ reader.snap.gen \in Nat /\ reader.snap.off \in Nat /\ reader.snap.n \in Nat
           /\ file \in FileStates /\ bucket \in BucketStates
           /\ file.arena \in [Cells -> CellValues] /\ file.gen \in Nat /\ file.used \in 0 .. ArenaSize
           /\ bucket.gen \in Nat /\ bucket.off \in Nat /\ bucket.n \in Nat /\ bucket.key \in Keys \cup {"none"}
<1>1. reader \in Lookups /\ reader.at \in Reading  BY ReaderKinds
<1>2. /\ reader.key \in Keys /\ reader.file \in 1 .. Files
      /\ reader.round \in Nat /\ reader.gen \in Nat /\ reader.used \in 0 .. ArenaSize
      /\ reader.snap \in BucketStates /\ reader.cells \in Seq(CellValues) /\ reader.quiet \in BOOLEAN
  BY <1>1 DEF Lookups
<1>3. reader.file \in 1 .. files  BY DEF Shape
<1>4. BucketOf[reader.key] \in Buckets  BY Zenon, <1>2 DEF Buckets
<1>5. \A e \in BucketStates : e.gen \in Nat /\ e.off \in Nat /\ e.n \in Nat /\ e.key \in Keys \cup {"none"}
  BY DEF BucketStates
<1>6. /\ file \in FileStates /\ file.arena \in [Cells -> CellValues] /\ file.gen \in Nat
      /\ file.used \in 0 .. ArenaSize /\ bucket \in BucketStates
  BY Zenon, <1>2, <1>4, FileFields DEF file, bucket
<1> QED  BY Zenon, <1>1, <1>2, <1>3, <1>4, <1>5, <1>6

(* The publisher changes nothing of a lookup but its history mark.         *)
LEMMA ReaderLeft ==
    ASSUME Shape, WriterStep
    PROVE  /\ reader'.at = reader.at
           /\ reader.at # "idle" =>
                /\ reader'.file = reader.file /\ reader'.key = reader.key /\ reader'.snap = reader.snap
                /\ reader'.cells = reader.cells /\ reader'.used = reader.used
<1>1. reader' = reader \/ reader' = Disturb(reader)
  BY Zenon DEF WriterStep, Unlink, Create, WriteHeader, Crash, Publish, InvalidateOne, Reserve,
     WriteCell,
               InvalidateBucket, WriteMetadata, CommitBucket, CommitHeader
<1> QED  BY Zenon, <1>1, Disturbed

(* A step of the publisher keeps what is known of the lookup, whatever it  *)
(* writes: the bucket's generation changes, or nothing the lookup has read *)
(* does.                                                                   *)
LEMMA WriterStepReader ==
    ASSUME Shape, ConstantsOK, WriterOK, BucketsOK, ReaderOK, WriterStep
    PROVE  ReaderOK'
<1> SUFFICES ASSUME reader'.at \in Snapped
             PROVE  /\ Writing(reader.file)' => reader'.snap.gen <= Newest(reader.file)'
                    /\ reader'.snap.gen # 0 /\ bucket'.gen = reader'.snap.gen
                          => Faithful(reader, bucket, file.arena)'
                    /\ Checked(reader)'
  BY Zenon DEF ReaderOK
<1>1. reader.at \in Snapped /\ reader.at # "idle" /\ reader'.at = reader.at
  BY ReaderLeft DEF Snapped
<1>2. /\ reader'.file = reader.file /\ reader'.key = reader.key /\ reader'.snap = reader.snap
      /\ reader'.cells = reader.cells /\ reader'.used = reader.used
  BY Zenon, <1>1, ReaderLeft
<1> PICK f, b : f = reader.file /\ b = BucketOf[reader.key]  OBVIOUS
<1>3. /\ f \in 1 .. files /\ f \in 1 .. Files /\ b \in Buckets /\ reader.snap.gen \in Nat /\ reader.snap.off \in Nat
      /\ reader.snap.n \in Nat /\ Len(reader.cells) \in Nat
  BY <1>1, LookupFields
<1>4. /\ Writing(f) => reader.snap.gen <= Newest(f)
      /\ reader.snap.gen # 0 /\ bucket.gen = reader.snap.gen => Faithful(reader, bucket, file.arena)
      /\ Checked(reader)
  BY Zenon, <1>1 DEF ReaderOK
<1>5. Writing(reader.file)' => reader'.snap.gen <= Newest(reader.file)'
  <2> SUFFICES ASSUME Writing(reader.file)' PROVE reader'.snap.gen <= Newest(reader.file)'
    OBVIOUS
  <2>1. Writing(f)' /\ Newest(reader.file)' = Newest(f)'  BY Zenon, <1>2 DEF Writing, Newest
  <2>2. Writing(f) /\ Newest(f) \in Nat /\ Newest(f)' \in Nat /\ Newest(f) <= Newest(f)'
    BY Zenon, <1>3, <2>1, NewestGrows
  <2> QED  BY <1>2, <1>3, <1>4, <2>1, <2>2
<1>6. Checked(reader)'  BY Zenon, <1>1, <1>2, <1>4 DEF Checked, End
<1>7. ASSUME reader'.snap.gen # 0, bucket'.gen = reader'.snap.gen
      PROVE  Faithful(reader, bucket, file.arena)'
  <2>0. bucket = mem[f].bucket[b] /\ file.arena = mem[f].arena /\ bucket' = mem'[f].bucket[b] /\ file'.arena = mem'[f].arena
    BY Zenon, <1>2 DEF bucket, file
  <2>1. mem'[f].bucket[b].gen = reader.snap.gen /\ reader.snap.gen # 0  BY Zenon, <1>2, <1>7, <2>0
  <2>2. bucket' = bucket  BY Zenon, <1>3, <1>4, <2>0, <2>1, BucketPinned
  <2>3. bucket.gen = reader.snap.gen  BY Zenon, <1>2, <1>7, <2>2
  <2>4. Faithful(reader, bucket, file.arena)  BY Zenon, <1>4, <2>1, <2>3
  <2>5. ASSUME reader.at \in {"payload", "verify"}, NEW i \in 1 .. Len(reader.cells)
        PROVE  mem'[f].arena[reader.snap.off + i - 1] = mem[f].arena[reader.snap.off + i - 1]
    <3>1. Len(reader.cells) <= reader.snap.n + 1  BY SMTT(20), <1>3, <1>4, <2>5 DEF Checked
    <3>2. reader.snap.off = mem[f].bucket[b].off /\ reader.snap.n = mem[f].bucket[b].n
      BY <2>0, <2>4, <2>5 DEF Faithful
    <3>3. BucketOK(f, b)  BY Zenon, <1>3 DEF BucketsOK
    <3>4. mem[f].bucket[b].gen # 0  BY <2>0, <2>1, <2>3
    <3>5. End(mem[f].bucket[b]) <= Limit(f)  BY Zenon, <3>3, <3>4 DEF BucketOK
    <3>6. Limit(f) \in 0 .. ArenaSize  BY <1>3, LimitFacts
    <3>7. reader.snap.off + 1 + reader.snap.n <= Limit(f)  BY Zenon, <3>2, <3>5 DEF End
    <3>8. reader.snap.off + i - 1 \in Cells /\ reader.snap.off + i - 1 < Limit(f)
      <4>1. ASSUME NEW o \in Nat, NEW n \in Nat, NEW l \in Nat, NEW m \in 0 .. ArenaSize,
                   o + 1 + n <= m, l <= n + 1, i \in 1 .. l
            PROVE  o + i - 1 \in 0 .. ArenaSize - 1 /\ o + i - 1 < m
        BY <4>1 DEF ConstantsOK
      <4> QED  BY Zenon, <1>3, <2>5, <3>1, <3>6, <3>7, <4>1 DEF Cells
    <3> QED  BY <1>3, <3>8, ArenaKept
  <2>6. reader.at \in {"payload", "verify"} =>
          \A i \in 1 .. Len(reader.cells) : reader.cells[i] = mem'[f].arena[reader.snap.off + i - 1]
    BY Zenon, <2>0, <2>4, <2>5 DEF Faithful
  <2>7. /\ reader.at # "meta" => reader.snap.key = bucket.key /\ reader.snap.off = bucket.off
        /\ reader.at \notin {"meta", "meta2"} => reader.snap.n = bucket.n
    BY Zenon, <2>4 DEF Faithful
  <2> QED  BY Zenon, <1>1, <1>2, <2>0, <2>2, <2>6, <2>7 DEF Faithful
<1> QED  BY <1>5, <1>6, <1>7

(* ---------------------------------------------------------------------- *)
(* The steps of a reader.                                                  *)

(* A lookup moves on to a, and its locals are those of the step.           *)
Moves(a, n, g, u, e, c, q) ==
    /\ reader' \in Lookups /\ reader'.at = a /\ reader'.round = n /\ reader'.gen = g /\ reader'.used = u
    /\ reader'.snap = e /\ reader'.cells = c /\ reader'.quiet = q
    /\ reader'.key = reader.key /\ reader'.file = reader.file /\ reader'.kind = reader.kind

(* Updates of a lookup's locals.                                           *)
LEMMA Moved ==
    ASSUME reader \in Lookups, NEW a \in Reading
    PROVE  /\ reader' = [reader EXCEPT !.at = a] =>
                Moves(a, reader.round, reader.gen, reader.used, reader.snap, reader.cells, reader.quiet)
           /\ \A n \in Nat : reader' = [reader EXCEPT !.at = a, !.round = n] =>
                Moves(a, n, reader.gen, reader.used, reader.snap, reader.cells, reader.quiet)
           /\ \A g \in Nat : reader' = [reader EXCEPT !.at = a, !.gen = g] =>
                Moves(a, reader.round, g, reader.used, reader.snap, reader.cells, reader.quiet)
           /\ \A u \in 0 .. ArenaSize : reader' = [reader EXCEPT !.at = a, !.used = u] =>
                Moves(a, reader.round, reader.gen, u, reader.snap, reader.cells, reader.quiet)
           /\ \A e \in BucketStates : reader' = [reader EXCEPT !.at = a, !.snap = e] =>
                Moves(a, reader.round, reader.gen, reader.used, e, reader.cells, reader.quiet)
           /\ \A c \in Seq(CellValues) : reader' = [reader EXCEPT !.at = a, !.cells = c] =>
                Moves(a, reader.round, reader.gen, reader.used, reader.snap, c, reader.quiet)
           /\ reader' = [reader EXCEPT !.at = a, !.quiet = FALSE] =>
                Moves(a, reader.round, reader.gen, reader.used, reader.snap, reader.cells, FALSE)
<1>1. ASSUME reader' = [reader EXCEPT !.at = a]
      PROVE  Moves(a, reader.round, reader.gen, reader.used, reader.snap, reader.cells, reader.quiet)
  <2>1. reader' \in Lookups  BY Zenon, <1>1 DEF Lookups
  <2> QED  BY <1>1, <2>1 DEF Moves, Lookups
<1>2. ASSUME NEW n \in Nat, reader' = [reader EXCEPT !.at = a, !.round = n]
      PROVE  Moves(a, n, reader.gen, reader.used, reader.snap, reader.cells, reader.quiet)
  <2>1. reader' \in Lookups  BY Zenon, <1>2 DEF Lookups
  <2> QED  BY <1>2, <2>1 DEF Moves, Lookups
<1>3. ASSUME NEW g \in Nat, reader' = [reader EXCEPT !.at = a, !.gen = g]
      PROVE  Moves(a, reader.round, g, reader.used, reader.snap, reader.cells, reader.quiet)
  <2>1. reader' \in Lookups  BY Zenon, <1>3 DEF Lookups
  <2> QED  BY <1>3, <2>1 DEF Moves, Lookups
<1>4. ASSUME NEW u \in 0 .. ArenaSize, reader' = [reader EXCEPT !.at = a, !.used = u]
      PROVE  Moves(a, reader.round, reader.gen, u, reader.snap, reader.cells, reader.quiet)
  <2>1. reader' \in Lookups  BY Zenon, <1>4 DEF Lookups
  <2> QED  BY <1>4, <2>1 DEF Moves, Lookups
<1>5. ASSUME NEW e \in BucketStates, reader' = [reader EXCEPT !.at = a, !.snap = e]
      PROVE  Moves(a, reader.round, reader.gen, reader.used, e, reader.cells, reader.quiet)
  <2>1. reader' \in Lookups  BY Zenon, <1>5 DEF Lookups
  <2> QED  BY <1>5, <2>1 DEF Moves, Lookups
<1>6. ASSUME NEW c \in Seq(CellValues), reader' = [reader EXCEPT !.at = a, !.cells = c]
      PROVE  Moves(a, reader.round, reader.gen, reader.used, reader.snap, c, reader.quiet)
  <2>1. reader' \in Lookups  BY Zenon, <1>6 DEF Lookups
  <2> QED  BY <1>6, <2>1 DEF Moves, Lookups
<1>7. ASSUME reader' = [reader EXCEPT !.at = a, !.quiet = FALSE]
      PROVE  Moves(a, reader.round, reader.gen, reader.used, reader.snap, reader.cells, FALSE)
  <2>1. reader' \in Lookups  BY Zenon, <1>7 DEF Lookups
  <2> QED  BY <1>7, <2>1 DEF Moves, Lookups
<1> QED  BY Zenon, <1>1, <1>2, <1>3, <1>4, <1>5, <1>6, <1>7

(* The lookup goes to a, tries again from a, has a new snapshot at a.      *)
Goes(a) == Moves(a, reader.round, reader.gen, reader.used, reader.snap, reader.cells, reader.quiet)
Retries(a) ==
    Moves(IF reader.round < Attempts THEN a ELSE "none",
          reader.round + 1, reader.gen, reader.used, reader.snap, reader.cells, reader.quiet)
Snaps(a, e) == Moves(a, reader.round, reader.gen, reader.used, e, reader.cells, reader.quiet)

(* Another round, or the end of the lookup.                                *)
LEMMA RetryMoves ==
    ASSUME reader \in Lookups, NEW a \in Reading, Retry(a)
    PROVE  Retries(a)
<1> DEFINE w == IF reader.round < Attempts THEN a ELSE "none"
<1>1. reader.round \in Nat /\ reader.round + 1 \in Nat  BY DEF Lookups
<1>2. w \in Reading  BY DEF Reading
<1>3. reader' = [reader EXCEPT !.at = w, !.round = reader.round + 1]  BY Zenon DEF Retry
<1> HIDE DEF w
<1>4. Moves(w, reader.round + 1, reader.gen, reader.used, reader.snap, reader.cells, reader.quiet)
  BY Zenon, <1>1, <1>2, <1>3, Moved
<1> QED  BY Zenon, <1>4 DEF w, Retries

(* The end of the lookup.                                                  *)
LEMMA FinishMoves ==
    ASSUME reader \in Lookups, Finish
    PROVE  Goes("none")
<1>1. "none" \in Reading  BY DEF Reading
<1> QED  BY Zenon, <1>1, Moved DEF Finish, Goes

(* The header.                                                             *)
LEMMA ReadGenerationMoves ==
    ASSUME Shape, ReadGeneration
    PROVE  \/ ~(file.gen # 0 /\ file.gen % 2 = 0) /\ Retries("generation")
           \/ Moves("fields", reader.round, file.gen, reader.used, reader.snap, reader.cells, reader.quiet)
<1>1. reader.at # "idle" /\ reader.at = "generation"  BY DEF ReadGeneration
<1>2. reader \in Lookups /\ file.gen \in Nat  BY Zenon, <1>1, LookupFields
<1>3. "generation" \in Reading /\ "fields" \in Reading  BY DEF Reading
<1>4. CASE reader.kind = "rust" /\ (file.gen = 0 \/ file.gen % 2 = 1)
  <2>1. Retries("generation")  BY Zenon, <1>2, <1>3, <1>4, RetryMoves DEF ReadGeneration
  <2>2. ~(file.gen # 0 /\ file.gen % 2 = 0)  BY <1>2, <1>4
  <2> QED  BY Zenon, <2>1, <2>2
<1>5. CASE ~(reader.kind = "rust" /\ (file.gen = 0 \/ file.gen % 2 = 1))
  <2>1. reader' = [reader EXCEPT !.at = "fields", !.gen = file.gen]  BY Zenon,
                                                                        <1>5 DEF ReadGeneration
  <2> QED  BY Zenon, <1>2, <1>3, <2>1, Moved
<1> QED  BY Zenon, <1>4, <1>5

(* The fields of the header; a file without magic is not mapped.           *)
LEMMA ReadFieldsMoves ==
    ASSUME Shape, ReadFields
    PROVE  Moves(IF file.magic THEN "regeneration" ELSE "unmapped",
                 reader.round, reader.gen, file.used, reader.snap, reader.cells, reader.quiet)
<1> DEFINE w == IF file.magic THEN "regeneration" ELSE "unmapped"
<1>1. reader.at # "idle"  BY DEF ReadFields
<1>2. reader \in Lookups /\ file.used \in 0 .. ArenaSize  BY Zenon, <1>1, LookupFields
<1>3. w \in Reading  BY DEF Reading
<1>4. reader' = [reader EXCEPT !.at = w, !.used = file.used]  BY Zenon DEF ReadFields
<1> HIDE DEF w
<1>5. Moves(w, reader.round, reader.gen, file.used, reader.snap, reader.cells, reader.quiet)
  BY Zenon, <1>2, <1>3, <1>4, Moved
<1> QED  BY Zenon, <1>5 DEF w

(* The header's generation again.                                          *)
LEMMA CheckGenerationMoves ==
    ASSUME Shape, CheckGeneration
    PROVE  \/ file.gen # reader.gen /\ Retries("generation")
           \/ reader.at = "unmapped" /\ (Retries("generation") \/ Goes("none"))
           \/ Moves("bucket", 1, reader.gen, reader.used, reader.snap, reader.cells, reader.quiet)
<1>1. reader.at # "idle"  BY DEF CheckGeneration
<1>2. reader \in Lookups  BY Zenon, <1>1, LookupFields
<1>3. "generation" \in Reading /\ "bucket" \in Reading /\ 1 \in Nat  BY DEF Reading
<1>4. CASE file.gen # reader.gen  BY Zenon, <1>2, <1>3, <1>4, RetryMoves DEF CheckGeneration
<1>5. CASE file.gen = reader.gen /\ reader.at = "unmapped"
  BY Zenon, <1>2, <1>3, <1>5, RetryMoves, FinishMoves DEF CheckGeneration
<1>6. CASE file.gen = reader.gen /\ reader.at # "unmapped"
  <2>1. reader' = [reader EXCEPT !.at = "bucket", !.round = 1]  BY Zenon, <1>6 DEF CheckGeneration
  <2> QED  BY Zenon, <1>2, <1>3, <2>1, Moved
<1> QED  BY Zenon, <1>4, <1>5, <1>6

(* The bucket.                                                             *)
LEMMA ReadBucketGenerationMoves ==
    ASSUME Shape, ReadBucketGeneration
    PROVE  \/ bucket.gen = 0 /\ Goes("none")
           \/ Snaps("meta", [reader.snap EXCEPT !.gen = bucket.gen])
<1>1. reader.at # "idle"  BY DEF ReadBucketGeneration
<1>2. reader \in Lookups /\ reader.snap \in BucketStates /\ bucket.gen \in Nat  BY Zenon, <1>1,
                                                                                   LookupFields
<1>3. "meta" \in Reading  BY DEF Reading, Snapped
<1>4. CASE reader.kind = "rust" /\ bucket.gen = 0
  BY Zenon, <1>2, <1>4, FinishMoves DEF ReadBucketGeneration
<1>5. CASE ~(reader.kind = "rust" /\ bucket.gen = 0)
  <2> DEFINE e == [reader.snap EXCEPT !.gen = bucket.gen]
  <2>1. reader' = [reader EXCEPT !.at = "meta", !.snap = e]  BY Zenon, <1>5 DEF ReadBucketGeneration
  <2>2. e \in BucketStates  BY Zenon, <1>2 DEF BucketStates
  <2> HIDE DEF e
  <2>3. Snaps("meta", e)  BY Zenon, <1>2, <1>3, <2>1, <2>2, Moved DEF Snaps
  <2> QED  BY Zenon, <2>3 DEF e
<1> QED  BY Zenon, <1>4, <1>5

(* The metadata, in two steps.                                             *)
LEMMA ReadMetadataMoves ==
    ASSUME Shape, ReadMetadata
    PROVE  \/ reader.at = "meta" /\ Snaps("meta2", [reader.snap EXCEPT !.key = bucket.key, !.off = bucket.off])
           \/ reader.at = "meta2" /\ Snaps("rebucket", [reader.snap EXCEPT !.n = bucket.n])
<1>1. reader.at # "idle"  BY DEF ReadMetadata
<1>2. /\ reader \in Lookups /\ reader.snap \in BucketStates
      /\ bucket.key \in Keys \cup {"none"} /\ bucket.off \in Nat /\ bucket.n \in Nat
  BY Zenon, <1>1, LookupFields
<1>3. "meta2" \in Reading /\ "rebucket" \in Reading  BY DEF Reading, Snapped
<1>4. CASE reader.at = "meta"
  <2> DEFINE e == [reader.snap EXCEPT !.key = bucket.key, !.off = bucket.off]
  <2>0. "meta" # "meta2"  OBVIOUS
  <2>1. reader' = [reader EXCEPT !.at = "meta2", !.snap = e]  BY Zenon, <1>4, <2>0 DEF ReadMetadata
  <2>2. e \in BucketStates  BY Zenon, <1>2 DEF BucketStates
  <2> HIDE DEF e
  <2>3. Snaps("meta2", e)  BY Zenon, <1>2, <1>3, <2>1, <2>2, Moved DEF Snaps
  <2> QED  BY Zenon, <1>4, <2>3 DEF e
<1>5. CASE reader.at = "meta2"
  <2> DEFINE e == [reader.snap EXCEPT !.n = bucket.n]
  <2>0. "meta" # "meta2"  OBVIOUS
  <2>1. reader' = [reader EXCEPT !.at = "rebucket", !.snap = e]  BY Zenon, <1>5,
                                                                    <2>0 DEF ReadMetadata
  <2>2. e \in BucketStates  BY Zenon, <1>2 DEF BucketStates
  <2> HIDE DEF e
  <2>3. Snaps("rebucket", e)  BY Zenon, <1>2, <1>3, <2>1, <2>2, Moved DEF Snaps
  <2> QED  BY Zenon, <1>5, <2>3 DEF e
<1> QED  BY Zenon, <1>4, <1>5 DEF ReadMetadata

(* The bucket's generation again.                                          *)
LEMMA CheckBucketMoves ==
    ASSUME Shape, CheckBucket
    PROVE  \/ bucket.gen = reader.snap.gen /\ Goes("match")
           \/ bucket.gen # reader.snap.gen /\ Retries("bucket")
<1>1. reader.at # "idle"  BY DEF CheckBucket
<1>2. reader \in Lookups  BY Zenon, <1>1, LookupFields
<1>3. "match" \in Reading /\ "bucket" \in Reading  BY DEF Reading, Snapped
<1> QED  BY Zenon, <1>2, <1>3, RetryMoves, Moved DEF CheckBucket, GoTo, Goes

(* The payload.                                                            *)
LEMMA MatchMoves ==
    ASSUME Shape, Match
    PROVE  \/ Matches(reader) /\ Moves("payload", reader.round, reader.gen, reader.used, reader.snap, <<>>, reader.quiet)
           \/ ~Matches(reader) /\ Goes("none")
<1>1. reader.at # "idle"  BY DEF Match
<1>2. reader \in Lookups  BY Zenon, <1>1, LookupFields
<1>3. "payload" \in Reading /\ <<>> \in Seq(CellValues)  BY DEF Reading, Snapped
<1> QED  BY Zenon, <1>2, <1>3, FinishMoves, Moved DEF Match

(* An expired entry is no answer.                                          *)
LEMMA ExpiredMoves ==
    ASSUME Shape, Expired
    PROVE  Moves("none", reader.round, reader.gen, reader.used, reader.snap, reader.cells, FALSE)
<1>1. reader.at # "idle"  BY DEF Expired
<1>2. reader \in Lookups /\ "none" \in Reading  BY Zenon, <1>1, LookupFields DEF Reading
<1> QED  BY Zenon, <1>2, Moved DEF Expired

(* The owner and the addresses; the cells read are cells of the arena.     *)
LEMMA ReadCellMoves ==
    ASSUME Shape, ConstantsOK, ReaderOK, ReadCell
    PROVE  LET i == Len(reader.cells)
               cell == file.arena[reader.snap.off + i]
           IN  \/ i = 0 /\ cell # Owner(reader.key) /\ Goes("none")
               \/ Moves(IF i = reader.snap.n THEN "verify" ELSE "payload", reader.round, reader.gen, reader.used,
                        reader.snap, Append(reader.cells, cell), reader.quiet)
<1> DEFINE i == Len(reader.cells)
           cell == file.arena[reader.snap.off + i]
           w == IF i = reader.snap.n THEN "verify" ELSE "payload"
           c == Append(reader.cells, cell)
<1>1. reader.at # "idle" /\ reader.at = "payload" /\ reader.at \in Snapped  BY DEF ReadCell, Snapped
<1>2. /\ reader \in Lookups /\ reader.cells \in Seq(CellValues) /\ file.arena \in [Cells -> CellValues]
      /\ reader.snap.off \in Nat /\ reader.snap.n \in Nat /\ reader.used \in 0 .. ArenaSize
  BY Zenon, <1>1, LookupFields
<1>3. i <= reader.snap.n /\ reader.snap.off + 1 + reader.snap.n <= reader.used
  BY Zenon, <1>1 DEF ReaderOK, Checked, End
<1>4. i \in Nat  BY <1>2
<1>5. reader.snap.off + i \in Cells
  <2>1. ASSUME NEW o \in Nat, NEW n \in Nat, NEW l \in Nat, NEW u \in 0 .. ArenaSize, l <= n, o + 1 + n <= u
        PROVE  o + l \in 0 .. ArenaSize - 1
    BY <2>1 DEF ConstantsOK
  <2> HIDE DEF i
  <2> QED  BY Zenon, <1>2, <1>3, <1>4, <2>1 DEF Cells
<1>6. cell \in CellValues  BY Zenon, <1>2, <1>5
<1>7. c \in Seq(CellValues)
  <2> HIDE DEF cell
  <2> QED  BY <1>2, <1>6
<1>8. w \in Reading  BY DEF Reading, Snapped
<1>9. CASE i = 0 /\ cell # Owner(reader.key)
  BY Zenon, <1>2, <1>9, FinishMoves DEF ReadCell
<1>10. CASE ~(i = 0 /\ cell # Owner(reader.key))
  <2>1. reader' = [reader EXCEPT !.at = w, !.cells = c]  BY Zenon, <1>2, <1>10 DEF ReadCell, Lookups
  <2> HIDE DEF w, c
  <2>2. Moves(w, reader.round, reader.gen, reader.used, reader.snap, c, reader.quiet)
    BY Zenon, <1>2, <1>7, <1>8, <2>1, Moved
  <2> QED  BY Zenon, <2>2 DEF w, c
<1> QED  BY Zenon, <1>9, <1>10

(* The bucket's generation for the last time.                              *)
LEMMA VerifyMoves ==
    ASSUME Shape, Verify
    PROVE  \/ bucket.gen = reader.snap.gen /\ Goes("answer")
           \/ bucket.gen # reader.snap.gen /\ (Retries("bucket") \/ Goes("none"))
<1>1. reader.at # "idle"  BY DEF Verify
<1>2. reader \in Lookups  BY Zenon, <1>1, LookupFields
<1>3. "answer" \in Reading /\ "bucket" \in Reading  BY DEF Reading
<1> QED  BY Zenon, <1>2, <1>3, RetryMoves, FinishMoves, Moved DEF Verify, Verified, GoTo, Goes

(* ---------------------------------------------------------------------- *)
(* What the steps of a reader preserve.                                    *)
LEMMA ReaderStepLeaves ==
    ASSUME ReaderStep
    PROVE  /\ mem' = mem /\ path' = path /\ files' = files /\ writer' = writer /\ published' = published
           /\ current' = current
           /\ WriterOK => WriterOK'
           /\ BucketsOK => BucketsOK'
<1>1. /\ mem' = mem /\ path' = path /\ files' = files /\ writer' = writer /\ published' = published
      /\ current' = current
  BY Zenon DEF ReaderStep
<1>2. ASSUME WriterOK PROVE WriterOK'
  BY Zenon, <1>1, <1>2 DEF WriterOK, End, Written, Target
<1>3. ASSUME BucketsOK PROVE BucketsOK'
  <2> SUFFICES ASSUME NEW f \in 1 .. Files, NEW b \in Buckets PROVE BucketOK(f, b)'
    BY Zenon DEF BucketsOK
  <2>1. Writing(f)' = Writing(f) /\ Newest(f)' = Newest(f)  BY Zenon, <1>1 DEF Writing, Newest
  <2>2. Limit(f)' = Limit(f) /\ Held(f, b)' = Held(f, b)  BY Zenon, <1>1 DEF Limit, Held
  <2>3. BucketOK(f, b)  BY Zenon, <1>3 DEF BucketsOK
  <2> QED  BY Zenon, <1>1, <2>1, <2>2, <2>3 DEF BucketOK, End
<1> QED  BY Zenon, <1>1, <1>2, <1>3

(* The lookup that has not begun, or has just begun.                       *)
LEMMA OpenMoves ==
    ASSUME Shape, ConstantsOK, NEW kind \in {"rust", "c"}, NEW k \in Keys, Open(kind, k)
    PROVE  /\ reader' \in Lookups /\ reader'.at = "generation" /\ reader'.file = path /\ path \in 1 .. files
           /\ reader'.quiet = (writer.at = "idle")
<1>1. path \in 1 .. files /\ path \in 1 .. Files  BY DEF Open, Shape, ConstantsOK
<1>2. NoBucket \in BucketStates  BY DEF NoBucket, BucketStates
<1>3. "generation" \in Reading /\ <<>> \in Seq(CellValues) /\ 0 \in 0 .. ArenaSize /\ 0 \in Nat /\ 1 \in Nat
  BY DEF Reading, ConstantsOK
<1>4. (writer.at = "idle") \in BOOLEAN  OBVIOUS
<1>5. reader' = [at |-> "generation", kind |-> kind, key |-> k, file |-> path, round |-> 1,
                 gen |-> 0, used |-> 0, snap |-> NoBucket, cells |-> <<>>,
                 quiet |-> writer.at = "idle"]
  BY Zenon DEF Open
<1>6. reader' \in Lookups  BY Zenon, <1>1, <1>2, <1>3, <1>4, <1>5 DEF Lookups
<1>7. reader'.at = "generation" /\ reader'.file = path  BY <1>5
<1>8. reader'.quiet = (writer.at = "idle")  BY Zenon, <1>5
<1> QED  BY Zenon, <1>1, <1>6, <1>7, <1>8

(* Where each step of a lookup leads.                                      *)
Continues == \E a, n, g, u, e, c, q : Moves(a, n, g, u, e, c, q)

(* A step of a lookup keeps it at its file and key.                        *)
LEMMA LookupContinues ==
    ASSUME Shape, ConstantsOK, ReaderOK,
           ReadGeneration \/ ReadFields \/ CheckGeneration \/ ReadBucketGeneration \/ ReadMetadata \/ CheckBucket
             \/ Match \/ Expired \/ ReadCell \/ Verify
    PROVE  Continues /\ reader.at # "idle"
<1>1. reader.at # "idle"
  BY DEF ReadGeneration, ReadFields, CheckGeneration, ReadBucketGeneration, ReadMetadata,
     CheckBucket,
         Match, Expired, ReadCell, Verify
<1>2. \A a : Goes(a) \/ Retries(a) => Continues  BY Zenon DEF Goes, Retries, Continues
<1>3. \A a, e : Snaps(a, e) => Continues  BY Zenon DEF Snaps, Continues
<1>4. \A a, n, g, u, e, c, q : Moves(a, n, g, u, e, c, q) => Continues  BY Zenon DEF Continues
<1>5. CASE ReadGeneration \/ ReadFields \/ CheckGeneration
  BY Zenon, <1>1, <1>2, <1>4, <1>5, ReadGenerationMoves, ReadFieldsMoves, CheckGenerationMoves
<1>6. CASE ReadBucketGeneration \/ ReadMetadata \/ CheckBucket
  BY Zenon, <1>1, <1>2, <1>3, <1>6, ReadBucketGenerationMoves, ReadMetadataMoves, CheckBucketMoves
<1>7. CASE Match \/ Expired \/ ReadCell \/ Verify
  BY Zenon, <1>1, <1>2, <1>4, <1>7, MatchMoves, ExpiredMoves, ReadCellMoves, VerifyMoves
<1> QED  BY Zenon, <1>5, <1>6, <1>7

(* A step of the reader keeps the types.                                   *)
LEMMA ReaderStepShape ==
    ASSUME Shape, ConstantsOK, ReaderOK, ReaderStep
    PROVE  Shape'
<1>0. /\ mem' = mem /\ path' = path /\ files' = files /\ writer' = writer /\ published' = published
      /\ current' = current
  BY Zenon, ReaderStepLeaves
<1>1. reader' \in ReaderStates /\ (reader'.at # "idle" => reader'.file \in 1 .. files)
  <2>1. ASSUME NEW kind \in {"rust", "c"}, NEW k \in Keys, Open(kind, k)
        PROVE  reader' \in ReaderStates /\ reader'.file \in 1 .. files
    BY Zenon, <2>1, OpenMoves DEF ReaderStates
  <2>2. CASE Close  BY <2>2 DEF Close, ReaderStates
  <2>3. ASSUME Continues, reader.at # "idle" PROVE reader' \in ReaderStates /\ reader'.file \in 1 .. files
    BY Zenon, <2>3, LookupFields DEF Continues, Moves, ReaderStates
  <2> QED  BY Zenon, <2>1, <2>2, <2>3, LookupContinues DEF ReaderStep
<1> QED  BY Zenon, <1>0, <1>1 DEF Shape

(* A step of a lookup sees the same file and bucket after it.              *)
LEMMA ContinuesSees ==
    ASSUME ReaderStep, reader'.file = reader.file, reader'.key = reader.key
    PROVE  /\ file' = file /\ bucket' = bucket
           /\ Writing(reader.file)' = Writing(reader.file) /\ Newest(reader.file)' = Newest(reader.file)
BY Zenon, ReaderStepLeaves DEF file, bucket, Writing, Newest

(* A step of the reader keeps what is known of the lookup.                 *)
LEMMA ReaderStepReader ==
    ASSUME Shape, ConstantsOK, WriterOK, BucketsOK, ReaderOK, ReaderStep
    PROVE  ReaderOK'
<1> SUFFICES ASSUME reader'.at \in Snapped PROVE ReaderOK'
  BY Zenon DEF ReaderOK
<1>a. "generation" \notin Snapped /\ "fields" \notin Snapped /\ "regeneration" \notin Snapped /\ "unmapped" \notin Snapped
      /\ "bucket" \notin Snapped /\ "none" \notin Snapped /\ "answer" \notin Snapped /\ "idle" \notin Snapped
  BY DEF Snapped
<1>b. ~Goes("none") /\ ~Retries("generation") /\ ~Retries("bucket") /\ ~Goes("answer")
  BY Zenon, <1>a DEF Goes, Retries, Moves
<1>c. /\ ~Close /\ \A kind \in {"rust", "c"}, k \in Keys : ~Open(kind, k)
  <2>1. ASSUME Close PROVE FALSE
    <3>1. reader'.at = "idle"  BY <2>1 DEF Close
    <3> QED  BY <1>a, <3>1
  <2> QED  BY Zenon, <1>a, <2>1, OpenMoves
<1>d. ~ReadGeneration /\ ~ReadFields /\ ~CheckGeneration
  BY Zenon, <1>a, <1>b, ReadGenerationMoves, ReadFieldsMoves, CheckGenerationMoves DEF Moves
<1>e. ~Expired /\ ~Verify
  BY Zenon, <1>a, <1>b, ExpiredMoves, VerifyMoves DEF Moves
<1>1. ReadBucketGeneration \/ ReadMetadata \/ CheckBucket \/ Match \/ ReadCell
  BY Zenon, <1>c, <1>d, <1>e DEF ReaderStep
<1>2. reader.at # "idle" /\ Continues  BY Zenon, <1>1, LookupContinues
<1>3. reader'.file = reader.file /\ reader'.key = reader.key  BY Zenon, <1>2 DEF Continues, Moves
<1>4. /\ file' = file /\ bucket' = bucket
      /\ Writing(reader.file)' = Writing(reader.file) /\ Newest(reader.file)' = Newest(reader.file)
  BY Zenon, <1>3, ContinuesSees
<1> SUFFICES /\ Writing(reader.file) => reader'.snap.gen <= Newest(reader.file)
             /\ reader'.snap.gen # 0 /\ bucket.gen = reader'.snap.gen => Faithful(reader', bucket, file.arena)
             /\ Checked(reader')
  <2>1. Faithful(reader', bucket, file.arena) => Faithful(reader, bucket, file.arena)'
    BY Zenon, <1>4 DEF Faithful
  <2>2. Checked(reader') => Checked(reader)'  BY Zenon DEF Checked, End
  <2> QED  BY Zenon, <1>4, <2>1, <2>2 DEF ReaderOK
<1>5. /\ reader.snap \in BucketStates /\ reader.snap.gen \in Nat /\ bucket.gen \in Nat /\ reader.cells \in Seq(CellValues)
      /\ bucket.off \in Nat /\ bucket.n \in Nat /\ bucket.key \in Keys \cup {"none"}
      /\ reader.snap.off \in Nat /\ reader.snap.n \in Nat
      /\ reader.file \in 1 .. Files /\ BucketOf[reader.key] \in Buckets
  BY Zenon, <1>2, LookupFields
<1>6. CASE ReadBucketGeneration
  <2>1. Snaps("meta", [reader.snap EXCEPT !.gen = bucket.gen])
    BY Zenon, <1>b, <1>6, ReadBucketGenerationMoves
  <2>2. reader'.at = "meta" /\ reader'.snap = [reader.snap EXCEPT !.gen = bucket.gen]  BY Zenon,
                                                                                          <2>1 DEF Snaps, Moves
  <2>3. reader'.snap.gen = bucket.gen  BY <1>5, <2>2 DEF BucketStates
  <2>4. Writing(reader.file) => bucket.gen <= Newest(reader.file)
    BY Zenon, <1>5 DEF BucketsOK, BucketOK, bucket, file
  <2> QED  BY <2>2, <2>3, <2>4 DEF Faithful, Checked
<1>7. ASSUME reader.at \in Snapped
      PROVE  /\ Writing(reader.file) => reader.snap.gen <= Newest(reader.file)
             /\ reader.snap.gen # 0 /\ bucket.gen = reader.snap.gen => Faithful(reader, bucket, file.arena)
             /\ Checked(reader)
  BY Zenon, <1>7 DEF ReaderOK
<1>8. CASE ReadMetadata
  <2>0. reader.at \in Snapped  BY <1>8 DEF ReadMetadata, Snapped
  <2>1. CASE reader.at = "meta" /\ Snaps("meta2", [reader.snap EXCEPT !.key = bucket.key, !.off = bucket.off])
    <3>1. reader'.at = "meta2" /\ reader'.snap = [reader.snap EXCEPT !.key = bucket.key, !.off = bucket.off]
      BY Zenon, <2>1 DEF Snaps, Moves
    <3>2. reader'.snap.gen = reader.snap.gen /\ reader'.snap.key = bucket.key /\ reader'.snap.off = bucket.off
      BY <1>5, <3>1 DEF BucketStates
    <3> QED  BY <1>7, <2>0, <3>1, <3>2 DEF Faithful, Checked
  <2>2. CASE reader.at = "meta2" /\ Snaps("rebucket", [reader.snap EXCEPT !.n = bucket.n])
    <3>1. reader'.at = "rebucket" /\ reader'.snap = [reader.snap EXCEPT !.n = bucket.n]
      BY Zenon, <2>2 DEF Snaps, Moves
    <3>2. /\ reader'.snap.gen = reader.snap.gen /\ reader'.snap.key = reader.snap.key
          /\ reader'.snap.off = reader.snap.off /\ reader'.snap.n = bucket.n
      BY <1>5, <3>1 DEF BucketStates
    <3> QED  BY <1>7, <2>0, <2>2, <3>1, <3>2 DEF Faithful, Checked
  <2> QED  BY Zenon, <1>8, <2>1, <2>2, ReadMetadataMoves
<1>9. CASE CheckBucket
  <2>0. reader.at \in Snapped /\ reader.at = "rebucket"  BY <1>9 DEF CheckBucket, Snapped
  <2>1. reader'.at = "match" /\ reader'.snap = reader.snap  BY Zenon, <1>9, <1>b,
                                                               CheckBucketMoves DEF Goes, Moves
  <2> QED  BY <1>7, <2>0, <2>1 DEF Faithful, Checked
<1>10. CASE Match
  <2>0. reader.at \in Snapped /\ reader.at = "match"  BY <1>10 DEF Match, Snapped
  <2>1. /\ reader'.at = "payload" /\ reader'.snap = reader.snap /\ reader'.cells = <<>> /\ reader'.used = reader.used
        /\ Matches(reader)
    BY Zenon, <1>10, <1>b, MatchMoves DEF Goes, Moves
  <2>2. reader.snap.gen # 0 /\ reader.snap.key = reader.key /\ End(reader.snap) <= reader.used
    BY Zenon, <2>1 DEF Matches, End
  <2>3. Len(reader'.cells) = 0  BY <2>1
  <2>4. Checked(reader')
    BY <1>3, <1>5, <2>1, <2>2, <2>3 DEF Checked
  <2>5. Faithful(reader, bucket, file.arena) => Faithful(reader', bucket, file.arena)
    BY <2>0, <2>1, <2>3 DEF Faithful
  <2> QED  BY Zenon, <1>7, <2>0, <2>1, <2>4, <2>5
<1>11. CASE ReadCell
  <2> DEFINE i == Len(reader.cells)
             cell == file.arena[reader.snap.off + i]
  <2>0. reader.at \in Snapped /\ reader.at = "payload"  BY <1>11 DEF ReadCell, Snapped
  <2>1. /\ reader'.at = (IF i = reader.snap.n THEN "verify" ELSE "payload") /\ reader'.snap = reader.snap
        /\ reader'.cells = Append(reader.cells, cell) /\ reader'.used = reader.used
    BY Zenon, <1>11, <1>b, ReadCellMoves DEF Moves
  <2>2. i \in Nat /\ i <= reader.snap.n  BY <1>5, <1>7, <2>0 DEF Checked
  <2>3. /\ Len(reader'.cells) = i + 1
        /\ \A j \in 1 .. i : reader'.cells[j] = reader.cells[j]
        /\ reader'.cells[i + 1] = cell
    <3> HIDE DEF cell
    <3> QED  BY <1>5, <2>1
  <2>4. Checked(reader')
    <3>1. reader.snap.gen # 0 /\ reader.snap.key = reader.key /\ End(reader.snap) <= reader.used
      BY <1>7, <2>0 DEF Checked
    <3> HIDE DEF i, cell
    <3>2. CASE i = reader.snap.n  BY SMTT(20), <1>3, <1>5, <2>1, <2>2, <2>3, <3>1, <3>2 DEF Checked
    <3>3. CASE i # reader.snap.n  BY SMTT(20), <1>3, <1>5, <2>1, <2>2, <2>3, <3>1, <3>3 DEF Checked
    <3> QED  BY <3>2, <3>3
  <2>5. ASSUME Faithful(reader, bucket, file.arena) PROVE Faithful(reader', bucket, file.arena)
    <3>1. /\ reader.snap.key = bucket.key /\ reader.snap.off = bucket.off /\ reader.snap.n = bucket.n
          /\ \A j \in 1 .. i : reader.cells[j] = file.arena[reader.snap.off + j - 1]
      BY <2>0, <2>5 DEF Faithful
    <3>2. ASSUME NEW j \in 1 .. i + 1 PROVE reader'.cells[j] = file.arena[reader.snap.off + j - 1]
      <4>1. CASE j \in 1 .. i  BY Zenon, <2>3, <3>1, <4>1
      <4>2. CASE j = i + 1
        <5>1. reader.snap.off + j - 1 = reader.snap.off + i
          <6> HIDE DEF i
          <6> QED  BY <1>5, <2>2, <4>2
        <5> QED  BY Zenon, <2>3, <4>2, <5>1
      <4>3. j \in 1 .. i \/ j = i + 1
        <5> HIDE DEF i
        <5> QED  BY <2>2, <3>2
      <4> QED  BY <4>1, <4>2, <4>3
    <3> HIDE DEF i, cell
    <3> QED  BY Zenon, <2>1, <2>3, <3>1, <3>2 DEF Faithful
  <2> QED  BY Zenon, <1>7, <2>0, <2>1, <2>4, <2>5
<1> QED  BY <1>1, <1>6, <1>8, <1>9, <1>10, <1>11

(* ---------------------------------------------------------------------- *)
(* The invariant and the first theorem.                                    *)
TableInv == Shape /\ WriterOK /\ BucketsOK /\ ReaderOK

(* No file, no publisher and no lookup satisfy it.                         *)
LEMMA InitTable ==
    ASSUME ConstantsOK, Init
    PROVE  TableInv
<1>1. NoBucket \in BucketStates /\ NoBucket.gen = 0  BY DEF NoBucket, BucketStates
<1>2. EmptyFile \in FileStates
  <2>1. Nothing \in CellValues /\ 0 \in 0 .. ArenaSize /\ 0 \in Nat /\ FALSE \in BOOLEAN
    BY DEF CellValues, ConstantsOK
  <2>2. [b \in Buckets |-> NoBucket] \in [Buckets -> BucketStates]  BY Zenon, <1>1
  <2>3. [c \in Cells |-> Nothing] \in [Cells -> CellValues]  BY Zenon, <2>1
  <2> QED  BY Zenon, <2>1, <2>2, <2>3 DEF EmptyFile, FileStates
<1>3. mem \in [1 .. Files -> FileStates]  BY Zenon, <1>2 DEF Init
<1>4. current \in [1 .. Files -> [Buckets -> EntryValues \cup {Nothing}]]  BY Zenon DEF Init
<1>5. writer.at = "down" /\ reader.at = "idle" /\ writer \in [at : Resting] /\ reader \in [at : {"idle"}]
  BY DEF Init, Resting
<1>6. files = 0 /\ path = 0 /\ published = 0  BY DEF Init
<1>7. Shape  BY SMTT(20), <1>3, <1>4, <1>5, <1>6 DEF Shape, WriterStates, ReaderStates, ConstantsOK
<1>8. WriterOK
  <2>1. \A f \in 1 .. Files : mem[f] = EmptyFile  BY Zenon DEF Init
  <2> QED  BY <1>5, <2>1 DEF WriterOK, Busy, Placing
<1>9. BucketsOK
  <2> SUFFICES ASSUME NEW f \in 1 .. Files, NEW b \in Buckets PROVE BucketOK(f, b)
    BY Zenon DEF BucketsOK
  <2>1. mem[f].bucket[b].gen = 0
    <3>1. mem[f] = EmptyFile  BY Zenon DEF Init
    <3>2. mem[f].bucket = [d \in Buckets |-> NoBucket]  BY <3>1 DEF EmptyFile
    <3> QED  BY Zenon, <1>1, <3>2
  <2>2. current[f][b] = Nothing  BY Zenon DEF Init
  <2>3. ~Writing(f)  BY <1>5 DEF Writing
  <2> QED  BY Zenon, <2>1, <2>2, <2>3 DEF BucketOK
<1>10. ReaderOK  BY <1>5 DEF ReaderOK, Snapped
<1> QED  BY <1>7, <1>8, <1>9, <1>10 DEF TableInv

(* A step that changes nothing keeps it.                                   *)
LEMMA StutterTable ==
    ASSUME TableInv, UNCHANGED vars
    PROVE  TableInv'
<1>1. /\ mem' = mem /\ path' = path /\ files' = files /\ writer' = writer /\ published' = published
      /\ current' = current /\ reader' = reader
  BY Zenon DEF vars
<1>2. Shape'  BY Zenon, <1>1 DEF TableInv, Shape
<1>3. WriterOK'  BY Zenon, <1>1 DEF TableInv, WriterOK, End, Written, Target
<1>4. BucketsOK'
  <2> SUFFICES ASSUME NEW f \in 1 .. Files, NEW b \in Buckets PROVE BucketOK(f, b)'
    BY Zenon DEF BucketsOK
  <2>1. Writing(f)' = Writing(f) /\ Newest(f)' = Newest(f)  BY Zenon, <1>1 DEF Writing, Newest
  <2>2. Limit(f)' = Limit(f) /\ Held(f, b)' = Held(f, b)  BY Zenon, <1>1 DEF Limit, Held
  <2>3. BucketOK(f, b)  BY Zenon DEF TableInv, BucketsOK
  <2> QED  BY Zenon, <1>1, <2>1, <2>2, <2>3 DEF BucketOK, End
<1>5. ReaderOK'
  <2>1. file' = file /\ bucket' = bucket  BY Zenon, <1>1 DEF file, bucket
  <2>2. Faithful(reader, bucket, file.arena)' = Faithful(reader, bucket, file.arena)
    BY Zenon, <1>1, <2>1 DEF Faithful
  <2>3. Checked(reader)' = Checked(reader)  BY Zenon, <1>1 DEF Checked, End
  <2>4. Writing(reader.file)' = Writing(reader.file) /\ Newest(reader.file)' = Newest(reader.file)
    BY Zenon, <1>1 DEF Writing, Newest
  <2> QED  BY Zenon, <1>1, <2>1, <2>2, <2>3, <2>4 DEF TableInv, ReaderOK
<1> QED  BY Zenon, <1>2, <1>3, <1>4, <1>5 DEF TableInv

(* Every step keeps it.                                                    *)
LEMMA NextTable ==
    ASSUME ConstantsOK, TableInv, Next
    PROVE  TableInv'
<1>1. Shape /\ WriterOK /\ BucketsOK /\ ReaderOK  BY DEF TableInv
<1>2. CASE WriterStep
  BY Zenon, <1>1, <1>2, WriterStepOK, WriterStepBuckets, WriterStepReader DEF TableInv
<1>3. CASE ReaderStep
  BY Zenon, <1>1, <1>3, ReaderStepShape, ReaderStepLeaves, ReaderStepReader DEF TableInv
<1> QED  BY Zenon, <1>2, <1>3 DEF Next

(* At every step of publisher, crash, restart and reader, every valid      *)
(* bucket describes a complete entry in cells that are not written, and a  *)
(* lookup holds what its bucket describes as long as the bucket has the    *)
(* generation it has seen (the order of the stores in                      *)
(* publish_addrs_with_stale).                                              *)
THEOREM TableInvariant ==
    ASSUME ConstantsOK PROVE Spec => []TableInv
<1>1. Init => TableInv  BY InitTable
<1>2. TableInv /\ [Next]_vars => TableInv'  BY NextTable, StutterTable
<1> QED  BY <1>1, <1>2, PTL DEF Spec

(* The bucket that verifies is the one whose cells were read.              *)
LEMMA VerifiedAnswer ==
    ASSUME ConstantsOK, TableInv, Next
    PROVE  AnswersCurrently
<1> SUFFICES ASSUME reader.at = "verify", reader'.at = "answer"
             PROVE  current[reader.file][BucketOf[reader.key]] =
                       [is |-> "entry", key |-> reader.key, addresses |-> Tail(reader.cells)]
  BY Zenon DEF AnswersCurrently
<1>1. Shape /\ WriterOK /\ BucketsOK /\ ReaderOK  BY DEF TableInv
<1>2. Verify
  <2>1. ~WriterStep
    <3>1. "verify" # "answer"  OBVIOUS
    <3> QED  BY Zenon, <1>1, <3>1, ReaderLeft
  <2>2. ReaderStep  BY <2>1 DEF Next
  <2> QED  BY <2>2 DEF ReaderStep, Open, ReadGeneration, ReadFields, CheckGeneration,
              ReadBucketGeneration, ReadMetadata,
                       CheckBucket, Match, Expired, ReadCell, Close
<1>3. bucket.gen = reader.snap.gen
  <2>1. "none" # "answer" /\ "bucket" # "answer"  OBVIOUS
  <2> QED  BY Zenon, <1>1, <1>2, <2>1, VerifyMoves DEF Goes, Retries, Moves
<1>4. reader.at \in Snapped /\ reader.at # "idle"  BY DEF Snapped
<1>5. /\ reader.snap.gen # 0 /\ reader.snap.key = reader.key /\ Len(reader.cells) = reader.snap.n + 1
      /\ reader.snap.key = bucket.key /\ reader.snap.off = bucket.off /\ reader.snap.n = bucket.n
      /\ \A i \in 1 .. Len(reader.cells) : reader.cells[i] = file.arena[reader.snap.off + i - 1]
  BY <1>1, <1>3, <1>4 DEF ReaderOK, Checked, Faithful
<1>6. /\ reader.file \in 1 .. Files /\ BucketOf[reader.key] \in Buckets /\ reader.cells \in Seq(CellValues)
      /\ bucket.off \in Nat /\ bucket.n \in Nat
  BY Zenon, <1>1, <1>4, LookupFields
<1>7. current[reader.file][BucketOf[reader.key]] =
        [is |-> "entry", key |-> bucket.key, addresses |-> [i \in 1 .. bucket.n |-> file.arena[bucket.off + i]]]
  BY Zenon, <1>1, <1>3, <1>5, <1>6 DEF BucketsOK, BucketOK, Held, bucket, file
<1>8. Tail(reader.cells) = [i \in 1 .. bucket.n |-> file.arena[bucket.off + i]]
  <2>1. Tail(reader.cells) = [i \in 1 .. bucket.n |-> reader.cells[i + 1]]
    <3>1. Tail(reader.cells) = [i \in 1 .. Len(reader.cells) - 1 |-> reader.cells[i + 1]]  BY <1>6
    <3>2. Len(reader.cells) - 1 = bucket.n  BY <1>5, <1>6
    <3> QED  BY Zenon, <3>1, <3>2
  <2>2. ASSUME NEW i \in 1 .. bucket.n PROVE reader.cells[i + 1] = file.arena[bucket.off + i]
    <3>1. i + 1 \in 1 .. Len(reader.cells) /\ reader.snap.off + (i + 1) - 1 = bucket.off + i
      BY SMTT(20), <1>5, <1>6, <2>2
    <3> QED  BY Zenon, <1>5, <3>1
  <2> QED  BY Zenon, <2>1, <2>2
<1> QED  BY Zenon, <1>5, <1>7, <1>8

(* A lookup that answers gives the complete entry that its bucket holds    *)
(* for the key at that moment, for any number of keys, buckets, cells,     *)
(* publications and restarts (ShmReader::lookup's last test of the         *)
(* generation, sr_shm_lookup's verification).                              *)
THEOREM LookupsAnswerCurrently ==
    ASSUME ConstantsOK PROVE Spec => AnswersAreCurrent
<1>1. TableInv /\ [Next]_vars => [AnswersCurrently]_vars  BY VerifiedAnswer
<1>2. Spec => []TableInv  BY TableInvariant
<1> QED  BY <1>1, <1>2, PTL DEF Spec, AnswersAreCurrent

(* ---------------------------------------------------------------------- *)
(* A lookup during which the publisher does nothing.                       *)

(* A header between publications.                                          *)
Complete(f) == mem[f].magic /\ mem[f].gen # 0 /\ mem[f].gen % 2 = 0

(* Between publications the header is complete and the path names the      *)
(* file.                                                                   *)
WriterQuiet ==
    /\ writer.at \notin {"down", "create"} => path = files
    /\ writer.at = "idle" => Complete(files)
    /\ writer.at \in Busy => mem[files].magic /\ writer.odd % 2 = 1

(* There is no entry of the key.                                           *)
Missed ==
    LET e == current[reader.file][BucketOf[reader.key]] IN e = Nothing \/ e.key # reader.key

(* What is known of a lookup that the publisher has not disturbed.         *)
LookupQuiet ==
    reader.at # "idle" /\ reader.quiet =>
        /\ writer.at \in {"idle", "down"}
        /\ Complete(reader.file)
        /\ reader.at # "unmapped"
        /\ reader.at \in {"fields", "regeneration"} => reader.gen = file.gen
        /\ reader.at \in {"regeneration", "bucket"} \cup Snapped => reader.used = file.used
        /\ reader.at \in Snapped => reader.snap.gen = bucket.gen
        /\ reader.at = "none" => Missed

(* Every step of the publisher keeps the header complete between           *)
(* publications.                                                           *)
LEMMA WriterStepQuiet ==
    ASSUME ConstantsOK, TableInv, WriterQuiet, WriterStep
    PROVE  WriterQuiet'
<1>0. Shape /\ WriterOK  BY DEF TableInv
<1>1. EdgeStep \/ BusyStep  BY Zenon DEF WriterStep, EdgeStep, BusyStep
<1>2. CASE BusyStep
  <2>1. writer \in BusyWriters /\ writer' \in BusyWriters /\ path' = path /\ files' = files
    BY Zenon, <1>0, <1>2, BusyStepWriter
  <2>2. writer.at \in Busy /\ writer'.at \in Busy  BY Zenon, <2>1 DEF BusyWriters
  <2>3. writer'.odd = writer.odd  BY Zenon, <1>0, <1>2, <2>1, BusyFields DEF BusyStep
  <2>4. mem'[files].magic = mem[files].magic
    <3>1. CASE \E b \in Buckets : InvalidateOne(b)
      BY Zenon, <1>0, <3>1, InvalidateOneSets DEF SetsBucket
    <3>2. CASE Reserve  BY Zenon, <1>0, <3>2, ReserveSets DEF SetsUsed
    <3>3. CASE WriteCell
      <4>0. writer.at = "payload" /\ writer.cell <= writer.n  BY <3>3 DEF WriteCell
      <4>1. /\ writer.off \in Nat /\ writer.cell \in Nat /\ writer.n \in Nat /\ mem[files].used \in 0 .. ArenaSize
        BY <1>0, <2>2, BusyNumbers, FileFields
      <4>2. End(writer) = mem[files].used  BY <1>0, <4>0 DEF WriterOK, Placing
      <4>3. writer.off + 1 + writer.n <= ArenaSize  BY <4>1, <4>2 DEF End, ConstantsOK
      <4> QED  BY Zenon, <1>0, <3>3, <4>3, WriteCellSets DEF SetsCell
    <3>4. CASE InvalidateBucket \/ WriteMetadata \/ CommitBucket
      BY Zenon, <1>0, <3>4, InvalidateBucketSets, WriteMetadataSets, CommitBucketSets DEF SetsBucket
    <3> QED  BY Zenon, <1>2, <3>1, <3>2, <3>3, <3>4 DEF BusyStep
  <2> QED  BY <2>1, <2>2, <2>3, <2>4 DEF WriterQuiet, Busy
<1>3. CASE Unlink \/ Crash  BY <1>3 DEF Unlink, Crash, WriterQuiet, Busy
<1>4. CASE Create  BY <1>4 DEF Create, WriterQuiet, Busy
<1>5. CASE WriteHeader
  <2>1. writer.at = "header" /\ writer'.at = "idle" /\ files' = files /\ path' = path /\ SetsHeader(TRUE, 2)
    BY Zenon, <1>0, <1>5, WriteHeaderSets DEF WriteHeader
  <2>2. Complete(files)'  BY <2>1 DEF Complete, SetsHeader
  <2> QED  BY <2>1, <2>2 DEF WriterQuiet, Busy
<1>6. CASE CommitHeader
  <2>1. /\ writer.at = "finish" /\ writer'.at = "idle" /\ files' = files /\ path' = path
        /\ SetsHeader(mem[files].magic, writer.odd + 1)
    BY <1>0, <1>6, CommitHeaderSets DEF CommitHeader
  <2>2. writer.odd \in Nat /\ writer.odd % 2 = 1 /\ mem[files].magic /\ path = files
    BY <1>0, <2>1, BusyNumbers DEF Busy, WriterQuiet
  <2>3. writer.odd + 1 # 0 /\ (writer.odd + 1) % 2 = 0  BY <2>2
  <2>4. Complete(files)'  BY Zenon, <2>1, <2>2, <2>3 DEF Complete, SetsHeader
  <2> QED  BY <2>1, <2>2, <2>4 DEF WriterQuiet, Busy
<1>7. ASSUME NEW k \in Keys, NEW n \in Sizes, Publish(k, n) PROVE WriterQuiet'
  <2> DEFINE g == OddAfter(mem[files].gen)
  <2>1. writer.at = "idle" /\ files' = files /\ path' = path /\ SetsHeader(mem[files].magic, g)
    BY Zenon, <1>0, <1>7, PublishSets DEF Publish
  <2>2. writer' = [at |-> "reserve", key |-> k, n |-> n, odd |-> g, off |-> 0, left |-> Buckets, cell |-> 0]
    BY Zenon, <1>7 DEF Publish
  <2>3. g % 2 = 1
    <3>1. mem[files].gen \in Nat  BY <1>0, <2>1, FileFields DEF SetsHeader, Frame
    <3> QED  BY <3>1, OddFacts
  <2> HIDE DEF g
  <2>4. writer'.at = "reserve" /\ writer'.odd = g  BY <2>2
  <2>5. mem[files].magic /\ path = files  BY <2>1 DEF WriterQuiet, Complete
  <2> QED  BY <2>1, <2>3, <2>4, <2>5 DEF WriterQuiet, SetsHeader
<1> QED  BY Zenon, <1>1, <1>2, <1>3, <1>4, <1>5, <1>6, <1>7 DEF EdgeStep

(* A lookup stays undisturbed only if the publisher does nothing, or       *)
(* stops.                                                                  *)
LEMMA WriterStepLookup ==
    ASSUME ConstantsOK, TableInv, LookupQuiet, WriterStep
    PROVE  LookupQuiet'
<1>0. Shape  BY DEF TableInv
<1> SUFFICES ASSUME reader'.at # "idle", reader'.quiet PROVE LookupQuiet'
  BY Zenon DEF LookupQuiet
<1>1. ~Unlink /\ \A k \in Keys, n \in Sizes : ~Publish(k, n)
  <2>1. reader' # Disturb(reader)  BY Zenon, <1>0, Disturbed
  <2> QED  BY Zenon, <2>1 DEF Unlink, Publish
<1>2. reader' = reader
  BY Zenon, <1>1 DEF WriterStep, Create, WriteHeader, Crash, InvalidateOne, Reserve, WriteCell,
     InvalidateBucket,
                     WriteMetadata, CommitBucket, CommitHeader
<1>3. writer.at \in {"idle", "down"}  BY Zenon, <1>2 DEF LookupQuiet
<1>4. Crash
  BY Zenon, <1>1, <1>3 DEF WriterStep, Create, WriteHeader, InvalidateOne, Reserve, WriteCell,
     InvalidateBucket,
                     WriteMetadata, CommitBucket, CommitHeader
<1>5. mem' = mem /\ current' = current /\ writer'.at = "down"  BY <1>4 DEF Crash
<1>6. file' = file /\ bucket' = bucket /\ Complete(reader.file)' = Complete(reader.file) /\ Missed' = Missed
  BY Zenon, <1>2, <1>5 DEF file, bucket, Complete, Missed
<1> QED  BY <1>2, <1>5, <1>6 DEF LookupQuiet

(* Nothing but a missing entry makes a quiet lookup end without an answer. *)
LEMMA QuietMatch ==
    ASSUME ConstantsOK, TableInv, reader.at \in Snapped, reader.snap.gen = bucket.gen, reader.used = file.used
    PROVE  /\ reader.at = "match" /\ ~Matches(reader) => Missed
           /\ reader.at = "payload" /\ Len(reader.cells) = 0 => file.arena[reader.snap.off + Len(reader.cells)] = Owner(reader.key)
<1>0. Shape /\ WriterOK /\ BucketsOK /\ ReaderOK  BY DEF TableInv
<1>1. reader.at # "idle"  BY DEF Snapped
<1>2. /\ reader.file \in 1 .. Files /\ BucketOf[reader.key] \in Buckets /\ bucket.off \in Nat /\ bucket.n \in Nat
      /\ reader.snap.off \in Nat /\ file.used \in 0 .. ArenaSize
  BY Zenon, <1>0, <1>1, LookupFields
<1>3. BucketOK(reader.file, BucketOf[reader.key])  BY Zenon, <1>0, <1>2 DEF BucketsOK
<1>4. bucket.gen = 0 => Missed  BY Zenon, <1>3 DEF BucketOK, Missed, bucket, file
<1>5. ASSUME bucket.gen # 0
      PROVE  /\ End(bucket) <= Limit(reader.file) /\ file.arena[bucket.off] = Owner(bucket.key)
             /\ current[reader.file][BucketOf[reader.key]].key = bucket.key
             /\ Faithful(reader, bucket, file.arena)
  <2>1. /\ End(bucket) <= Limit(reader.file) /\ file.arena[bucket.off] = Owner(bucket.key)
        /\ current[reader.file][BucketOf[reader.key]] = Held(reader.file, BucketOf[reader.key])
    BY Zenon, <1>3, <1>5 DEF BucketOK, bucket, file
  <2>2. Held(reader.file, BucketOf[reader.key]).key = bucket.key  BY DEF Held, bucket, file
  <2>3. Faithful(reader, bucket, file.arena)  BY Zenon, <1>0, <1>5 DEF ReaderOK
  <2> QED  BY Zenon, <2>1, <2>2, <2>3
<1>6. ASSUME reader.at = "match", ~Matches(reader) PROVE Missed
  <2>1. CASE bucket.gen # 0
    <3>1. reader.snap.key = bucket.key /\ reader.snap.off = bucket.off /\ reader.snap.n = bucket.n
      BY <1>5, <1>6, <2>1 DEF Faithful
    <3>2. Limit(reader.file) <= file.used /\ Limit(reader.file) \in 0 .. ArenaSize
      BY <1>0, <1>2, LimitFacts DEF file
    <3>3. End(bucket) \in Nat  BY <1>2 DEF End
    <3>4. End(bucket) <= file.used  BY <1>2, <1>5, <2>1, <3>2, <3>3 DEF ConstantsOK
    <3>5. reader.snap.off + 1 + reader.snap.n <= reader.used  BY Zenon, <3>1, <3>4 DEF End
    <3>6. reader.snap.key # reader.key  BY Zenon, <1>6, <2>1, <3>5 DEF Matches
    <3> QED  BY Zenon, <1>5, <2>1, <3>1, <3>6 DEF Missed
  <2> QED  BY <1>4, <2>1
<1>7. ASSUME reader.at = "payload", Len(reader.cells) = 0
      PROVE  file.arena[reader.snap.off + Len(reader.cells)] = Owner(reader.key)
  <2>1. reader.snap.gen # 0 /\ reader.snap.key = reader.key  BY <1>0, <1>7 DEF ReaderOK, Checked
  <2>2. reader.snap.key = bucket.key /\ reader.snap.off = bucket.off  BY <1>5, <1>7,
                                                                         <2>1 DEF Faithful
  <2>3. reader.snap.off + Len(reader.cells) = bucket.off  BY <1>2, <1>7, <2>2
  <2> QED  BY Zenon, <1>5, <2>1, <2>2, <2>3
<1> QED  BY <1>6, <1>7

(* Every step of an undisturbed lookup sees what the last one saw.         *)
LEMMA ReaderStepLookup ==
    ASSUME ConstantsOK, TableInv, WriterQuiet, LookupQuiet, ReaderStep
    PROVE  LookupQuiet'
<1>0. Shape /\ WriterOK /\ BucketsOK /\ ReaderOK  BY DEF TableInv
<1>l. mem' = mem /\ writer' = writer /\ current' = current /\ files' = files  BY Zenon,
                                                                                 ReaderStepLeaves
<1> SUFFICES ASSUME reader'.at # "idle", reader'.quiet PROVE LookupQuiet'
  BY Zenon DEF LookupQuiet
<1>1. ASSUME NEW kind \in {"rust", "c"}, NEW k \in Keys, Open(kind, k) PROVE LookupQuiet'
  <2>1. reader'.at = "generation" /\ reader'.file = path /\ writer.at = "idle"  BY Zenon, <1>0,
                                                                                   <1>1, OpenMoves
  <2>2. path = files /\ Complete(files)  BY <2>1 DEF WriterQuiet
  <2>3. Complete(reader.file)'  BY Zenon, <1>l, <2>1, <2>2 DEF Complete
  <2> QED  BY <1>l, <2>1, <2>3 DEF LookupQuiet, Snapped
<1>2. ~Close  BY DEF Close
<1>3. ASSUME Continues, reader.at # "idle", ReadGeneration \/ ReadFields \/ CheckGeneration \/ ReadBucketGeneration \/ ReadMetadata
               \/ CheckBucket \/ Match \/ Expired \/ ReadCell \/ Verify
      PROVE  LookupQuiet'
  <2>1. reader'.file = reader.file /\ reader'.key = reader.key  BY Zenon, <1>3 DEF Continues, Moves
  <2>2. file' = file /\ bucket' = bucket  BY Zenon, <2>1, ContinuesSees
  <2>3. Complete(reader.file)' = Complete(reader.file) /\ Missed' = Missed  BY Zenon, <1>l,
                                                                               <2>1 DEF Complete,
                                                                               Missed
  <2>4. reader.quiet /\ ~Expired
    <3>1. ~Expired  BY Zenon, <1>0, ExpiredMoves DEF Moves
    <3>2. CASE ReadGeneration \/ ReadFields \/ CheckGeneration
      BY Zenon, <1>0, <3>1, <3>2, ReadGenerationMoves, ReadFieldsMoves,
         CheckGenerationMoves DEF Moves, Goes, Retries
    <3>3. CASE ReadBucketGeneration \/ ReadMetadata \/ CheckBucket
      BY Zenon, <1>0, <3>1, <3>3, ReadBucketGenerationMoves, ReadMetadataMoves,
         CheckBucketMoves DEF Moves, Goes, Retries, Snaps
    <3>4. CASE Match \/ ReadCell \/ Verify
      BY Zenon, <1>0, <3>1, <3>4, MatchMoves, ReadCellMoves, VerifyMoves DEF Moves, Goes, Retries
    <3> QED  BY Zenon, <1>3, <3>1, <3>2, <3>3, <3>4
  <2>5. /\ writer.at \in {"idle", "down"}
        /\ Complete(reader.file)
        /\ reader.at # "unmapped"
        /\ reader.at \in {"fields", "regeneration"} => reader.gen = file.gen
        /\ reader.at \in {"regeneration", "bucket"} \cup Snapped => reader.used = file.used
        /\ reader.at \in Snapped => reader.snap.gen = bucket.gen
    BY Zenon, <1>3, <2>4 DEF LookupQuiet
  <2> SUFFICES /\ reader'.at # "unmapped"
               /\ reader'.at \in {"fields", "regeneration"} => reader'.gen = file.gen
               /\ reader'.at \in {"regeneration", "bucket"} \cup Snapped => reader'.used = file.used
               /\ reader'.at \in Snapped => reader'.snap.gen = bucket.gen
               /\ reader'.at = "none" => Missed
    BY Zenon, <1>l, <2>2, <2>3, <2>5 DEF LookupQuiet
  <2>6. reader.snap \in BucketStates /\ bucket.gen \in Nat /\ BucketOK(reader.file, BucketOf[reader.key])
    BY Zenon, <1>0, <1>3, LookupFields DEF BucketsOK
  <2>7. CASE ReadGeneration
    <3>1. file.gen # 0 /\ file.gen % 2 = 0  BY Zenon, <2>5 DEF Complete, file
    <3>2. reader'.at = "fields" /\ reader'.gen = file.gen  BY Zenon, <1>0, <2>7, <3>1,
                                                              ReadGenerationMoves DEF Moves
    <3> QED  BY <3>2 DEF Snapped
  <2>8. CASE ReadFields
    <3>1. file.magic /\ reader.at = "fields"  BY <2>5, <2>8 DEF Complete, file, ReadFields
    <3>2. reader'.at = "regeneration" /\ reader'.gen = reader.gen /\ reader'.used = file.used
      BY Zenon, <1>0, <2>8, <3>1, ReadFieldsMoves DEF Moves
    <3> QED  BY <2>5, <3>1, <3>2 DEF Snapped
  <2>9. CASE CheckGeneration
    <3>1. reader.at = "regeneration"  BY <2>5, <2>9 DEF CheckGeneration
    <3>2. reader.gen = file.gen /\ reader.used = file.used  BY <2>5, <3>1
    <3>3. reader'.at = "bucket" /\ reader'.used = reader.used
      BY Zenon, <1>0, <2>5, <2>9, <3>2, CheckGenerationMoves DEF Moves
    <3> QED  BY <3>2, <3>3 DEF Snapped
  <2>10. CASE ReadBucketGeneration
    <3>0. reader.at = "bucket" /\ reader.used = file.used  BY <2>5, <2>10 DEF ReadBucketGeneration
    <3>1. CASE bucket.gen = 0 /\ Goes("none")
      <4>1. reader'.at = "none"  BY Zenon, <3>1 DEF Goes, Moves
      <4>2. Missed  BY Zenon, <2>6, <3>1 DEF BucketOK, Missed, bucket, file
      <4> QED  BY <4>1, <4>2 DEF Snapped
    <3>2. CASE Snaps("meta", [reader.snap EXCEPT !.gen = bucket.gen])
      <4>1. /\ reader'.at = "meta" /\ reader'.snap = [reader.snap EXCEPT !.gen = bucket.gen]
            /\ reader'.used = reader.used
        BY Zenon, <3>2 DEF Snaps, Moves
      <4>2. reader'.snap.gen = bucket.gen  BY <2>6, <4>1 DEF BucketStates
      <4> QED  BY <3>0, <4>1, <4>2
    <3> QED  BY Zenon, <1>0, <2>10, <3>1, <3>2, ReadBucketGenerationMoves
  <2>11. CASE ReadMetadata
    <3>0. reader.at \in Snapped  BY <2>11 DEF ReadMetadata, Snapped
    <3>1. CASE Snaps("meta2", [reader.snap EXCEPT !.key = bucket.key, !.off = bucket.off])
      <4>1. /\ reader'.at = "meta2" /\ reader'.snap = [reader.snap EXCEPT !.key = bucket.key, !.off = bucket.off]
            /\ reader'.used = reader.used
        BY Zenon, <3>1 DEF Snaps, Moves
      <4>2. reader'.snap.gen = reader.snap.gen  BY <2>6, <4>1 DEF BucketStates
      <4> QED  BY <2>5, <3>0, <4>1, <4>2
    <3>2. CASE Snaps("rebucket", [reader.snap EXCEPT !.n = bucket.n])
      <4>1. /\ reader'.at = "rebucket" /\ reader'.snap = [reader.snap EXCEPT !.n = bucket.n]
            /\ reader'.used = reader.used
        BY Zenon, <3>2 DEF Snaps, Moves
      <4>2. reader'.snap.gen = reader.snap.gen  BY <2>6, <4>1 DEF BucketStates
      <4> QED  BY <2>5, <3>0, <4>1, <4>2
    <3> QED  BY Zenon, <1>0, <2>11, <3>1, <3>2, ReadMetadataMoves
  <2>12. CASE CheckBucket
    <3>0. reader.at \in Snapped  BY <2>12 DEF CheckBucket, Snapped
    <3>1. reader'.at = "match" /\ reader'.snap = reader.snap /\ reader'.used = reader.used
      BY Zenon, <1>0, <2>5, <2>12, <3>0, CheckBucketMoves DEF Goes, Moves
    <3> QED  BY <2>5, <3>0, <3>1
  <2>13. CASE Match
    <3>0. reader.at \in Snapped /\ reader.at = "match"  BY <2>13 DEF Match, Snapped
    <3>1. reader.snap.gen = bucket.gen /\ reader.used = file.used  BY <2>5, <3>0
    <3>2. ~Matches(reader) => Missed  BY Zenon, <3>0, <3>1, QuietMatch
    <3>3. /\ reader'.snap = reader.snap /\ reader'.used = reader.used
          /\ reader'.at = "payload" \/ (reader'.at = "none" /\ ~Matches(reader))
      BY Zenon, <1>0, <2>13, MatchMoves DEF Goes, Moves
    <3> QED  BY <3>1, <3>2, <3>3
  <2>14. CASE ReadCell
    <3>0. reader.at \in Snapped /\ reader.at = "payload"  BY <2>14 DEF ReadCell, Snapped
    <3>1. reader.snap.gen = bucket.gen /\ reader.used = file.used  BY <2>5, <3>0
    <3>2. Len(reader.cells) = 0 => file.arena[reader.snap.off + Len(reader.cells)] = Owner(reader.key)
      BY Zenon, <3>0, <3>1, QuietMatch
    <3>3. /\ reader'.snap = reader.snap /\ reader'.used = reader.used
          /\ reader'.at = "payload" \/ reader'.at = "verify"
      BY Zenon, <1>0, <2>14, <3>2, ReadCellMoves DEF Moves
    <3> QED  BY <3>1, <3>3
  <2>15. CASE Verify
    <3>0. reader.at \in Snapped  BY <2>15 DEF Verify, Snapped
    <3>1. reader'.at = "answer"  BY Zenon, <1>0, <2>5, <2>15, <3>0, VerifyMoves DEF Goes, Moves
    <3> QED  BY <3>1 DEF Snapped
  <2> QED  BY ZenonT(30), <1>3, <2>4, <2>7, <2>8, <2>9, <2>10, <2>11, <2>12, <2>13, <2>14, <2>15
<1> QED  BY Zenon, <1>0, <1>1, <1>2, <1>3, LookupContinues DEF ReaderStep

(* The inductive invariant of undisturbed lookups.                         *)
QuietInv == TableInv /\ WriterQuiet /\ LookupQuiet

(* Every step keeps it.                                                    *)
LEMMA NextQuiet ==
    ASSUME ConstantsOK, QuietInv, [Next]_vars
    PROVE  QuietInv'
<1>0. TableInv /\ WriterQuiet /\ LookupQuiet  BY DEF QuietInv
<1>1. TableInv'  BY Zenon, <1>0, NextTable, StutterTable
<1>2. CASE WriterStep
  BY Zenon, <1>0, <1>1, <1>2, WriterStepQuiet, WriterStepLookup DEF QuietInv
<1>3. CASE ReaderStep
  <2>1. mem' = mem /\ writer' = writer /\ files' = files /\ path' = path  BY Zenon, <1>3,
                                                                             ReaderStepLeaves
  <2>2. WriterQuiet'  BY Zenon, <1>0, <2>1 DEF WriterQuiet, Complete
  <2> QED  BY Zenon, <1>0, <1>1, <1>3, <2>2, ReaderStepLookup DEF QuietInv
<1>4. CASE UNCHANGED vars
  <2>1. /\ mem' = mem /\ path' = path /\ files' = files /\ writer' = writer
        /\ current' = current /\ reader' = reader
    BY Zenon, <1>4 DEF vars
  <2>2. WriterQuiet'  BY Zenon, <1>0, <2>1 DEF WriterQuiet, Complete
  <2>3. LookupQuiet'  BY Zenon, <1>0, <2>1 DEF LookupQuiet, Complete, Missed, file, bucket
  <2> QED  BY Zenon, <1>1, <2>2, <2>3 DEF QuietInv
<1> QED  BY Zenon, <1>2, <1>3, <1>4 DEF Next

(* A lookup during which the publisher does nothing finds the unexpired    *)
(* entry of its key if the table has one: no range check and no test of a  *)
(* generation rejects a complete table, and a hash collision or a full     *)
(* arena only replaces entries (valid_header, the arena_used test of       *)
(* lookup).                                                                *)
THEOREM QuietLookupsFindEntries ==
    ASSUME ConstantsOK PROVE Spec => []QuietLookupsHit
<1>1. Init => QuietInv
  <2> SUFFICES ASSUME Init PROVE QuietInv
    OBVIOUS
  <2>1. TableInv  BY InitTable
  <2>2. WriterQuiet /\ LookupQuiet  BY DEF Init, WriterQuiet, LookupQuiet, Busy
  <2> QED  BY <2>1, <2>2 DEF QuietInv
<1>2. QuietInv /\ [Next]_vars => QuietInv'  BY NextQuiet
<1>3. QuietInv => QuietLookupsHit
  BY DEF QuietInv, LookupQuiet, QuietLookupsHit, Missed
<1> QED  BY <1>1, <1>2, <1>3, PTL DEF Spec

=============================================================================
