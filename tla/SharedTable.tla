---------------------------- MODULE SharedTable ----------------------------
(***************************************************************************)
(* The shared-memory answer table: the publisher and the Rust reader of    *)
(* supremacy/shm.rs and the C reader of nss/nss_resolve_shm.c, in other    *)
(* processes, which take no lock.  Every access to the mapping is a step,  *)
(* so reader and writer interleave between any two of them; memory is      *)
(* sequentially consistent, which is what the acquire and release accesses *)
(* and the fences give on the published generations.                       *)
(*                                                                         *)
(* An entry is a key (owner, type and class) and n addresses; it takes     *)
(* 1 + n cells of the arena, the owner and one cell per address.  The      *)
(* address cell i of publication p holds <<p, i>>, so that a mixture of    *)
(* two publications can be told from either.                               *)
(***************************************************************************)
EXTENDS Naturals, FiniteSets, Sequences

CONSTANTS
    Keys,          \* owner, type, class
    BucketOf,      \* hash_key: the bucket of a key
    Sizes,         \* numbers of addresses an entry may have
    ArenaSize,     \* cells of the arena
    Attempts,      \* rounds of a reader's retry loops (4 in the code)
    Publications,  \* bound: entries published
    Files          \* bound: files created, by starts of the daemon

Buckets == {BucketOf[k] : k \in Keys}
Cells == 0 .. ArenaSize - 1
Nothing == [is |-> "nothing"]
Owner(k) == [is |-> "owner", key |-> k]
Address(p, i) == [is |-> "address", of |-> p, index |-> i]

VARIABLES
    mem,      \* per file: header, buckets and arena
    path,     \* the file the well-known path names, 0 when there is none
    files,    \* files created so far
    writer,   \* the publisher: where it is, and its locals
    published,\* publications begun so far
    reader,   \* one reader, in Rust or in C, and its locals
    current   \* per file and bucket: the complete entry it holds (history)

vars == <<mem, path, files, writer, published, reader, current>>

NoBucket == [gen |-> 0, key |-> "none", off |-> 0, n |-> 0]
EmptyFile == [magic |-> FALSE, gen |-> 0, used |-> 0,
              bucket |-> [b \in Buckets |-> NoBucket], arena |-> [c \in Cells |-> Nothing]]

Init ==
    /\ mem = [f \in 1 .. Files |-> EmptyFile]
    /\ path = 0
    /\ files = 0
    /\ writer = [at |-> "down"]
    /\ published = 0
    /\ reader = [at |-> "idle"]
    /\ current = [f \in 1 .. Files |-> [b \in Buckets |-> Nothing]]

(***************************************************************************)
(* The publisher.                                                          *)
(***************************************************************************)

\* A step of the publisher disturbs a lookup in progress (history).
Disturb(r) == IF r.at = "idle" THEN r ELSE [r EXCEPT !.quiet = FALSE]

\* create_at unlinks the file of an earlier daemon ...
Unlink ==
    /\ writer.at = "down" /\ files < Files
    /\ writer' = [at |-> "create"]
    /\ path' = 0
    /\ reader' = Disturb(reader)
    /\ UNCHANGED <<mem, files, published, current>>

\* ... creates another, which is all zeros ...
Create ==
    /\ writer.at = "create"
    /\ files' = files + 1
    /\ path' = files'
    /\ writer' = [at |-> "header"]
    /\ UNCHANGED <<mem, published, reader, current>>

\* ... and writes the header.
WriteHeader ==
    /\ writer.at = "header"
    /\ mem' = [mem EXCEPT ![files].magic = TRUE, ![files].gen = 2]
    /\ writer' = [at |-> "idle"]
    /\ UNCHANGED <<path, files, published, reader, current>>

\* The daemon stops, or is killed, between any two accesses.
Crash ==
    /\ writer.at # "down"
    /\ writer' = [at |-> "down"]
    /\ UNCHANGED <<mem, path, files, published, reader, current>>

\* The next odd generation (publish_addrs_with_stale 252-257).
OddAfter(gen) == IF gen % 2 = 0 THEN gen + 1 ELSE gen + 2

\* publish_addrs_with_stale: an entry that the arena cannot hold is refused;
\* otherwise the header's generation becomes odd.
Publish(k, n) ==
    /\ writer.at = "idle" /\ published < Publications
    /\ 1 + n <= ArenaSize
    /\ published' = published + 1
    /\ LET odd == OddAfter(mem[files].gen) IN
       /\ mem' = [mem EXCEPT ![files].gen = odd]
       /\ writer' = [at |-> "reserve", key |-> k, n |-> n, odd |-> odd, off |-> 0,
                     left |-> Buckets, cell |-> 0]
    /\ reader' = Disturb(reader)
    /\ UNCHANGED <<path, files, current>>

\* invalidate_all_buckets before the arena is used again from its beginning.
InvalidateOne(b) ==
    /\ writer.at = "reserve"
    /\ mem[files].used + 1 + writer.n > ArenaSize
    /\ b \in writer.left
    /\ mem' = [mem EXCEPT ![files].bucket[b].gen = 0]
    /\ current' = [current EXCEPT ![files][b] = Nothing]
    /\ writer' = [writer EXCEPT !.left = @ \ {b}]
    /\ UNCHANGED <<path, files, published, reader>>

\* The space in the arena: write_arena_used.
Reserve ==
    /\ writer.at = "reserve"
    /\ LET wraps == mem[files].used + 1 + writer.n > ArenaSize
           off == IF wraps THEN 0 ELSE mem[files].used
       IN  /\ wraps => writer.left = {}
           /\ mem' = [mem EXCEPT ![files].used = off + 1 + writer.n]
           /\ writer' = [writer EXCEPT !.at = "payload", !.off = off]
    /\ UNCHANGED <<path, files, published, reader, current>>

\* The payload, cell by cell.
WriteCell ==
    /\ writer.at = "payload" /\ writer.cell <= writer.n
    /\ mem' = [mem EXCEPT ![files].arena[writer.off + writer.cell] =
                   IF writer.cell = 0 THEN Owner(writer.key) ELSE Address(published, writer.cell)]
    /\ writer' = [writer EXCEPT !.cell = @ + 1]
    /\ UNCHANGED <<path, files, published, reader, current>>

\* The bucket is invalidated before its metadata changes ...
InvalidateBucket ==
    /\ writer.at = "payload" /\ writer.cell > writer.n
    /\ mem' = [mem EXCEPT ![files].bucket[BucketOf[writer.key]].gen = 0]
    /\ current' = [current EXCEPT ![files][BucketOf[writer.key]] = Nothing]
    /\ writer' = [writer EXCEPT !.at = "metadata"]
    /\ UNCHANGED <<path, files, published, reader>>

\* ... write_bucket_metadata, a copy of bytes in two steps here ...
WriteMetadata ==
    /\ writer.at \in {"metadata", "metadata2"}
    /\ LET b == BucketOf[writer.key] IN
       \/ /\ writer.at = "metadata"
          /\ mem' = [mem EXCEPT ![files].bucket[b] = [@ EXCEPT !.key = writer.key, !.off = writer.off]]
          /\ writer' = [writer EXCEPT !.at = "metadata2"]
       \/ /\ writer.at = "metadata2"
          /\ mem' = [mem EXCEPT ![files].bucket[b].n = writer.n]
          /\ writer' = [writer EXCEPT !.at = "commit"]
    /\ UNCHANGED <<path, files, published, reader, current>>

\* ... and valid again, under the even generation that the header gets last.
CommitBucket ==
    /\ writer.at = "commit"
    /\ mem' = [mem EXCEPT ![files].bucket[BucketOf[writer.key]].gen = writer.odd + 1]
    /\ current' = [current EXCEPT ![files][BucketOf[writer.key]] =
                       [is |-> "entry", key |-> writer.key,
                        addresses |-> [i \in 1 .. writer.n |-> Address(published, i)]]]
    /\ writer' = [writer EXCEPT !.at = "finish"]
    /\ UNCHANGED <<path, files, published, reader>>

CommitHeader ==
    /\ writer.at = "finish"
    /\ mem' = [mem EXCEPT ![files].gen = writer.odd + 1]
    /\ writer' = [at |-> "idle"]
    /\ UNCHANGED <<path, files, published, reader, current>>

WriterStep ==
    \/ Unlink \/ Create \/ WriteHeader \/ Crash
    \/ \E k \in Keys, n \in Sizes : Publish(k, n)
    \/ \E b \in Buckets : InvalidateOne(b)
    \/ Reserve \/ WriteCell \/ InvalidateBucket \/ WriteMetadata \/ CommitBucket \/ CommitHeader

(***************************************************************************)
(* The readers.  "rust" is ShmReader::lookup, "c" is sr_shm_lookup.        *)
(***************************************************************************)
file == mem[reader.file]
bucket == file.bucket[BucketOf[reader.key]]

GoTo(where) == reader' = [reader EXCEPT !.at = where]

\* A lookup that gives up, or finds nothing.
Finish == reader' = [reader EXCEPT !.at = "none"]

\* The next round of a retry loop, or its end.
Retry(where) ==
    reader' = [reader EXCEPT !.at = IF reader.round < Attempts THEN where ELSE "none",
                             !.round = @ + 1]

\* open_at, or the open and mmap of every sr_shm_lookup.
Open(kind, k) ==
    /\ reader.at = "idle" /\ path # 0
    /\ reader' = [at |-> "generation", kind |-> kind, key |-> k, file |-> path, round |-> 1,
                  gen |-> 0, used |-> 0, snap |-> NoBucket, cells |-> <<>>,
                  quiet |-> writer.at = "idle"]

\* header_snapshot (Rust: only an even, nonzero generation), load_header (C: any).
ReadGeneration ==
    /\ reader.at = "generation"
    /\ IF reader.kind = "rust" /\ (file.gen = 0 \/ file.gen % 2 = 1)
       THEN Retry("generation")
       ELSE reader' = [reader EXCEPT !.at = "fields", !.gen = file.gen]

ReadFields ==
    /\ reader.at = "fields"
    /\ reader' = [reader EXCEPT !.at = IF file.magic THEN "regeneration" ELSE "unmapped", !.used = file.used]

CheckGeneration ==
    /\ reader.at \in {"regeneration", "unmapped"}
    /\ IF file.gen # reader.gen THEN Retry("generation")
       ELSE IF reader.at = "unmapped"
       THEN IF reader.kind = "rust" THEN Retry("generation") ELSE Finish
       ELSE reader' = [reader EXCEPT !.at = "bucket", !.round = 1]

\* bucket_snapshot, load_bucket: the generation, the metadata, the generation again.
ReadBucketGeneration ==
    /\ reader.at = "bucket"
    /\ IF reader.kind = "rust" /\ bucket.gen = 0
       THEN Finish
       ELSE reader' = [reader EXCEPT !.at = "meta", !.snap.gen = bucket.gen]

ReadMetadata ==
    /\ reader.at \in {"meta", "meta2"}
    /\ \/ /\ reader.at = "meta"
          /\ reader' = [reader EXCEPT !.at = "meta2",
                                         !.snap = [@ EXCEPT !.key = bucket.key, !.off = bucket.off]]
       \/ /\ reader.at = "meta2"
          /\ reader' = [reader EXCEPT !.at = "rebucket", !.snap.n = bucket.n]

CheckBucket ==
    /\ reader.at = "rebucket"
    /\ IF bucket.gen = reader.snap.gen THEN GoTo("match") ELSE Retry("bucket")

\* Mutant: the entry must end before the used arena does.
MutantMatches(r) ==
    /\ r.snap.gen # 0
    /\ r.snap.key = r.key
    /\ r.snap.off + 1 + r.snap.n < r.used

\* The checks on the snapshot: valid, of the key, in the used arena.
Matches(r) ==
    /\ r.snap.gen # 0
    /\ r.snap.key = r.key
    /\ r.snap.off + 1 + r.snap.n <= r.used

Match ==
    /\ reader.at = "match"
    /\ IF Matches(reader) THEN reader' = [reader EXCEPT !.at = "payload", !.cells = <<>>] ELSE Finish

\* entry_is_fresh, bucket_is_fresh: the entry may have expired.
Expired ==
    /\ reader.at = "match"
    /\ reader' = [reader EXCEPT !.at = "none", !.quiet = FALSE]

\* The owner, then the addresses; another owner is no match.
ReadCell ==
    /\ reader.at = "payload"
    /\ LET i == Len(reader.cells)
           cell == file.arena[reader.snap.off + i]
       IN  IF i = 0 /\ cell # Owner(reader.key) THEN Finish
           ELSE reader' = [reader EXCEPT !.cells = Append(@, cell),
                                         !.at = IF i = reader.snap.n THEN "verify" ELSE "payload"]

\* The bucket's generation once more: the answer, or another round (Rust), or
\* EAGAIN (C).
Verified(gen, r) == gen = r.snap.gen

Verify ==
    /\ reader.at = "verify"
    /\ IF Verified(bucket.gen, reader) THEN GoTo("answer")
       ELSE IF reader.kind = "rust" THEN Retry("bucket") ELSE Finish

\* The caller takes the result, munmap.
Close ==
    /\ reader.at \in {"answer", "none"}
    /\ reader' = [at |-> "idle"]

ReaderStep ==
    /\ \/ \E kind \in {"rust", "c"}, k \in Keys : Open(kind, k)
       \/ ReadGeneration \/ ReadFields \/ CheckGeneration
       \/ ReadBucketGeneration \/ ReadMetadata \/ CheckBucket
       \/ Match \/ Expired \/ ReadCell \/ Verify \/ Close
    /\ UNCHANGED <<mem, path, files, writer, published, current>>

Next == WriterStep \/ ReaderStep

Spec == Init /\ [][Next]_vars /\ WF_vars(ReaderStep)

(***************************************************************************)
(* Properties.                                                             *)
(***************************************************************************)
TypeOK ==
    /\ path \in 0 .. Files /\ files \in 0 .. Files /\ published \in 0 .. Publications
    /\ \A f \in 1 .. Files :
        /\ mem[f].used \in 0 .. ArenaSize
        /\ mem[f].gen \in 0 .. 2 * Publications + 2
        /\ \A b \in Buckets : mem[f].bucket[b].gen % 2 = 0
        /\ \A b \in Buckets : mem[f].bucket[b].gen # 0 =>
              mem[f].bucket[b].off + 1 + mem[f].bucket[b].n <= ArenaSize

\* A lookup that answers gives the complete entry its bucket holds for the key
\* at that moment: never another key's addresses, never a mixture of two
\* publications, never one that has been replaced or whose cells the arena has
\* reused, whatever the publisher did meanwhile, crash and restart included
\* (ShmReader::lookup 487-489, sr_shm_lookup's verification, and the order of
\* the stores in publish_addrs_with_stale).
AnswersCurrently ==
    reader.at = "verify" /\ reader'.at = "answer" =>
        current[reader.file][BucketOf[reader.key]] =
            [is |-> "entry", key |-> reader.key, addresses |-> Tail(reader.cells)]
AnswersAreCurrent == [][AnswersCurrently]_vars

\* A lookup that the publisher does not touch finds the unexpired entry that is
\* there: the range checks and the generation tests reject nothing of a
\* complete table (valid_header, the arena_used test of lookup 448-453).
QuietLookupsHit ==
    reader.at = "none" /\ reader.quiet
        => LET e == current[reader.file][BucketOf[reader.key]] IN e = Nothing \/ e.key # reader.key

\* Whatever the publisher does, a lookup ends: its retry loops are bounded.
LookupsEnd == reader.at # "idle" ~> reader.at = "idle"

=============================================================================
