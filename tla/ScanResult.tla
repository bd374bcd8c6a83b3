----------------------------- MODULE ScanResult -----------------------------
(***************************************************************************)
(* ce::ScanResult (scanner/memory_scanner.cpp): how scan matches are kept  *)
(* on disk and read back.                                                  *)
(*                                                                         *)
(* A writer appends matches to three streams, buffered in memory: offsets  *)
(* (each match's distance from the base of its frame), values and first    *)
(* values (bytes, one fixed-size record per match).  Frames say which base *)
(* belongs to which run of matches.  A reader computes every position from *)
(* the index of the match alone, so the streams must agree in length and   *)
(* the frames in their counts.  A scan's result is a sequence of shards,   *)
(* one per worker, read as one list.                                       *)
(*                                                                         *)
(* Operators only: module MemoryScanner holds the state.  Indices are      *)
(* zero-based, as in the code.                                             *)
(***************************************************************************)
EXTENDS Naturals, Sequences, SequencesExt

CONSTANTS
    FrameSpan,  \* an offset is smaller than this (2^32)
    FlushAt     \* matches buffered before a flush (8192)

ASSUME StoreAssumption == FrameSpan \in Nat \ {0} /\ FlushAt \in Nat \ {0}

Streams == {"offsets", "values", "firsts", "frames"}

\* A match: where it is, what is there, what was there at the first scan.
Match(a, v, f) == [addr |-> a, val |-> v, first |-> f]
-----------------------------------------------------------------------------
(* Writing *)

\* ScanResult(dir, storeFirst) on a fresh directory; open() fails for the streams
\* in `missing`, which nothing reports. The open frame's count is 0 while there is
\* no open frame (haveFrame_).
NewResult(storeFirst, missing) ==
    [offs |-> <<>>, vals |-> <<>>, firsts |-> <<>>, framesFile |-> <<>>,
     obuf |-> <<>>, vbuf |-> <<>>, fbuf |-> <<>>,
     frames |-> <<>>, open |-> [base |-> 0, count |-> 0],
     count |-> 0, storeFirst |-> storeFirst,
     fds |-> (IF storeFirst THEN {"offsets", "values", "firsts"}
              ELSE {"offsets", "values"}) \ missing,
     err |-> FALSE]

\* writeAll() to a stream that is open: on a full disk its last byte or offset is
\* not written.
WriteAll(r, stream, file, buf, full) ==
    IF stream \notin r.fds THEN file
    ELSE file \o (IF stream \in full THEN Front(buf) ELSE buf)

\* flush(): `full` names the streams whose write fails; the buffers are dropped
\* either way, and the failure is only remembered.
Flush(r, full) ==
    IF r.obuf = <<>> THEN r
    ELSE [r EXCEPT
            !.offs = WriteAll(r, "offsets", @, r.obuf, full),
            !.vals = WriteAll(r, "values", @, r.vbuf, full),
            !.firsts = WriteAll(r, "firsts", @, r.fbuf, full),
            !.err = @ \/ full \cap r.fds # {},
            !.obuf = <<>>, !.vbuf = <<>>, !.fbuf = <<>>]

ClosedFrames(r) == IF r.open.count = 0 THEN r.frames ELSE Append(r.frames, r.open)

\* A match the open frame cannot hold: its offset would not fit.
NeedsFrame(r, a) ==
    r.open.count = 0 \/ a < r.open.base \/ a - r.open.base >= FrameSpan

\* addResult(); the offset is stored in an unsigned 32-bit word.
AddResult(r, m, full) ==
    LET frame == IF NeedsFrame(r, m.addr) THEN [base |-> m.addr, count |-> 0] ELSE r.open
        added == [r EXCEPT
                    !.frames = IF NeedsFrame(r, m.addr) THEN ClosedFrames(r) ELSE @,
                    !.open = [frame EXCEPT !.count = @ + 1],
                    !.obuf = Append(@, (m.addr - frame.base) % FrameSpan),
                    !.vbuf = @ \o m.val,
                    !.fbuf = IF r.storeFirst THEN @ \o m.first ELSE @,
                    !.count = @ + 1]
    IN  IF Len(added.obuf) >= FlushAt THEN Flush(added, full) ELSE added

\* The matches of a buffer or a batch, one addResult after the other.
AddResults(r, ms, full) ==
    LET after[k \in 0..Len(ms)] == IF k = 0 THEN r ELSE AddResult(after[k - 1], ms[k], full)
    IN  after[Len(ms)]

\* Mutant: the frame that is still open is left out of the table.
FinalizeOpenFrameLost(r, full) ==
    LET f == Flush(r, full)
    IN  [f EXCEPT !.open = [base |-> 0, count |-> 0], !.framesFile = f.frames]

\* finalize(): flush, close the open frame, write the frame table.
Finalize(r, full) ==
    LET f == Flush(r, full)
        all == ClosedFrames(f)
        save == "offsets" \in f.fds /\ all # <<>>
    IN  [f EXCEPT !.frames = all, !.open = [base |-> 0, count |-> 0],
                  !.framesFile = IF save /\ "frames" \notin full THEN all ELSE <<>>,
                  !.err = @ \/ (save /\ "frames" \in full)]
-----------------------------------------------------------------------------
(* Reading *)

\* A finalized writer as the single shard of its own result.
ShardOf(r) ==
    [offs |-> r.offs, vals |-> r.vals, firsts |-> r.firsts, hasFirst |-> "firsts" \in r.fds,
     frames |-> r.frames, count |-> r.count]

SingleResult(r) == [shards |-> <<ShardOf(r)>>, err |-> r.err]

\* assembleShardedResult(): a manifest with one line per worker, in worker order;
\* the frame tables are loaded from the workers' files. `lines` is the number of
\* manifest lines that could be written.
ShardedResult(parts, lines) ==
    [shards |-> [k \in 1..lines |-> [ShardOf(parts[k]) EXCEPT !.frames = parts[k].framesFile]],
     err |-> lines < Len(parts) \/ \E k \in DOMAIN parts : parts[k].err]

\* Running sums: the index of the first match of each frame, or of each shard.
Starts(s) ==
    LET sum[k \in 1..Len(s) + 1] == IF k = 1 THEN 0 ELSE sum[k - 1] + s[k - 1].count
    IN  sum

Count(res) == Starts(res.shards)[Len(res.shards) + 1]

\* The part of s (frames or shards) that holds index i: {} if none does.
PartAt(s, i) == {k \in 1..Len(s) : Starts(s)[k] <= i /\ i < Starts(s)[k] + s[k].count}

\* reconstruct(): an index outside every frame gives the bare offset.
FrameBase(frames, local) ==
    IF PartAt(frames, local) = {} THEN 0
    ELSE frames[CHOOSE k \in PartAt(frames, local) : TRUE].base

\* Record i of a stream of fixed-size records: SubSeq as pread, cut at the end.
Record(stream, i, size) ==
    LET end == (i + 1) * size
    IN  SubSeq(stream, i * size + 1, IF end < Len(stream) THEN end ELSE Len(stream))

Zeros(size) == [k \in 1..size |-> 0]

\* preadFull() or zeroes.
RecordOrZero(stream, i, size) ==
    LET got == Record(stream, i, size) IN IF Len(got) = size THEN got ELSE Zeros(size)

Shard(res, i) == res.shards[CHOOSE k \in PartAt(res.shards, i) : TRUE]
Local(res, i) == i - Starts(res.shards)[CHOOSE k \in PartAt(res.shards, i) : TRUE]

\* address(i); zero when the offset cannot be read.
Address(res, i) ==
    LET s == Shard(res, i)
        l == Local(res, i)
    IN  IF l < Len(s.offs) THEN FrameBase(s.frames, l) + s.offs[l + 1] ELSE 0

\* value(i) and firstValue(i), which falls back to value(i) without a first stream.
Value(res, i, size) == RecordOrZero(Shard(res, i).vals, Local(res, i), size)

FirstValue(res, i, size) ==
    LET s == Shard(res, i)
    IN  IF s.hasFirst THEN RecordOrZero(s.firsts, Local(res, i), size)
        ELSE Value(res, i, size)

\* ShardReader: can the offset and the old value of match i be read?
CanRead(res, i, size) ==
    /\ PartAt(res.shards, i) # {}
    /\ Local(res, i) < Len(Shard(res, i).offs)
    /\ Len(Record(Shard(res, i).vals, Local(res, i), size)) = size

\* ShardReader::read of matches begin .. begin+n-1. The first values of a batch's
\* part of a shard are taken from the old ones unless all of them can be read.
ReadBatch(res, begin, n, size) ==
    LET batch == begin..begin + n - 1
        fst(i) == Record(Shard(res, i).firsts, Local(res, i), size)
        old(i) == Record(Shard(res, i).vals, Local(res, i), size)
        mates(i) == {j \in batch : PartAt(res.shards, j) = PartAt(res.shards, i)}
        kept(i) == Shard(res, i).hasFirst /\ \A j \in mates(i) : Len(fst(j)) = size
    IN  [k \in 1..n |->
            LET i == begin + k - 1
            IN  Match(Address(res, i), old(i), IF kept(i) THEN fst(i) ELSE old(i))]

\* recordStride(): bytes per match, from the first shard that has any; 0 if none.
RecordStride(res) ==
    LET some == {k \in DOMAIN res.shards : res.shards[k].count > 0 /\ res.shards[k].vals # <<>>}
        k    == CHOOSE k \in some : \A j \in some : k <= j
    IN  IF some = {} THEN 0 ELSE Len(res.shards[k].vals) \div res.shards[k].count

\* What a consumer sees: every match in index order.
Matches(res, size) ==
    [j \in 1..Count(res) |->
        Match(Address(res, j - 1), Value(res, j - 1, size), FirstValue(res, j - 1, size))]

\* The matches whose index is not in `rows`.
Without(ms, rows) ==
    LET kept == SelectSeq([k \in DOMAIN ms |-> <<k - 1, ms[k]>>], LAMBDA p : p[1] \notin rows)
    IN  [k \in DOMAIN kept |-> kept[k][2]]

\* pruneScanResult(): a copy without the removed rows, first values carried over.
PruneScanResult(res, size, rows, full) ==
    SingleResult(Finalize(
        AddResults(NewResult(TRUE, {}), Without(Matches(res, size), rows), full), full))
=============================================================================
