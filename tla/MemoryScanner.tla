---------------------------- MODULE MemoryScanner ----------------------------
(***************************************************************************)
(* ce::MemoryScanner (scanner/memory_scanner.cpp) and the scan session of  *)
(* the main window that drives it (gui/mainwindow.cpp).                    *)
(*                                                                         *)
(* firstScan cuts the readable regions into chunks, gives each worker      *)
(* thread a contiguous run of them and lists the workers' files as the     *)
(* result; nextScan re-reads the matches of the previous result in         *)
(* contiguous slices.  The target runs meanwhile: it writes its memory,    *)
(* touches pages that were never touched, unmaps what is being read.       *)
(* The reads of one chunk, or of one batch, are one step.                  *)
(*                                                                         *)
(* Memory is a few bytes.  What is looked for is in modules ScanConfig and *)
(* ScanMatch.  A scenario bounds a behaviour: the content of memory, the   *)
(* forms the user may fill in, the chunk size and vector width of this     *)
(* machine, and the disturbances that may happen.                          *)
(***************************************************************************)
EXTENDS ScanMatch, FiniteSets

CONSTANTS
    Space,          \* the addresses of the target are 0..Space-1
    PageSize,
    Regions,        \* queryRegions(): the target's mappings, in address order
    MinSkip,        \* kPagemapMinRegion
    ThreadCount,    \* threadCount_
    Batch,          \* BATCH of nextScan
    MTFloor,        \* kMTFloor
    Writable, Written,  \* bounds: the addresses the target writes, and the bytes
    Scenarios       \* bounds, see above

AllMoves == {"write", "fault", "cancel", "disk", "open", "prune"}

Addrs == 0..Space - 1
Pages == 0..(Space - 1) \div PageSize
PageOf(a) == a \div PageSize

ASSUME ScannerAssumption ==
    /\ {Space, PageSize, ThreadCount, Batch} \subseteq Nat \ {0}
    /\ {MinSkip, MTFloor} \subseteq Nat
    /\ \A s \in Scenarios :
        /\ s.mem \in [Addrs -> Bytes] /\ s.moves \subseteq AllMoves
        /\ s.scans \in Nat /\ s.chunk \in Nat \ {0} /\ s.vector \in Nat
    /\ Writable \subseteq Addrs /\ Written \subseteq Bytes

VARIABLES
    \* the target
    mem,        \* mem[a]: the byte at a
    resident,   \* pages that are present or swapped
    scenario,   \* the bounds of this behaviour
    \* the scan that runs
    phase,      \* "idle", "first" or "next"
    asked,      \* the form it was asked for with
    config,     \* its ScanConfig
    chunks,     \* chunks of a first scan
    from, upto, \* from[t]..upto[t]-1: what worker t has still to scan
    parts,      \* parts[t]: the ScanResult worker t writes
    cancelled,  \* cancelled_
    \* the scan session
    last,       \* lastResult_, NoResult if none
    undo,       \* undoResult_
    \* history
    before,     \* mem when the last scan started
    intact,     \* nothing disturbed that scan
    added,      \* added[t]: what worker t has passed to addResult
    left        \* bound: scans that may still be asked for

target  == <<mem, resident, scenario>>
running == <<asked, config, chunks, from, upto, parts, added>>
results == <<last, undo>>
vars == <<target, phase, running, cancelled, results, before, intact, left>>

moves == scenario.moves
kChunkBytes == scenario.chunk

NoResult == [kind |-> "none", shards |-> <<>>, err |-> FALSE, type |-> "byte", size |-> 0]

\* A result with the type and the record size the window remembers for it.
Typed(kind, cfg, res) ==
    [kind |-> kind, shards |-> res.shards, err |-> res.err, type |-> cfg.type,
     size |-> ValueSize(cfg)]

Workers == DOMAIN parts
LeastOf(x, y) == IF x < y THEN x ELSE y
-----------------------------------------------------------------------------
(* Region filter, resident ranges, chunks, partition *)

\* The filter of firstScan, and the region clipped to [startAddress, stopAddress).
Scanned(cfg, r) ==
    /\ r.committed /\ r.read
    /\ cfg.writable \in {"any", IF r.write THEN "yes" ELSE "no"}
    /\ cfg.executable \in {"any", IF r.exec THEN "yes" ELSE "no"}
    /\ r.type \in cfg.classes
    /\ LeastOf(r.base + r.size, cfg.stop) > Max({r.base, cfg.start})

Clipped(cfg, r) ==
    [lo |-> Max({r.base, cfg.start}), hi |-> LeastOf(r.base + r.size, cfg.stop),
     type |-> r.type]

ScanRegions(cfg) ==
    LET kept == SelectSeq(Regions, LAMBDA r : Scanned(cfg, r))
    IN  [k \in DOMAIN kept |-> Clipped(cfg, kept[k])]

\* Non-resident pages read as zeroes: they may be skipped when the scan finds nothing
\* in zeroes (the probe) and no window crosses a page (by alignment and size alone).
SkipNonResident(cfg) ==
    LET zeros == Zeros(4 * ValueSize(cfg))
    IN  /\ cfg.align >= ValueSize(cfg) /\ PageSize % cfg.align = 0
        /\ cfg.type # "custom"
        /\ ScanBuffer(cfg, scenario.vector, zeros, Len(zeros)) = <<>>

\* residentRanges(): maximal runs of resident pages, clipped to [lo, hi).
ResidentRanges(r) ==
    LET pages  == PageOf(r.lo)..PageOf(r.hi - 1) \cap resident
        starts == SetToSortSeq({p \in pages : p - 1 \notin pages}, <)
        end(p) == Min({q \in p + 1..PageOf(r.hi - 1) + 1 : q \notin pages})
    IN  [k \in DOMAIN starts |->
            [lo |-> Max({starts[k] * PageSize, r.lo}),
             hi |-> LeastOf(end(starts[k]) * PageSize, r.hi)]]

Ranges(cfg, r) ==
    IF SkipNonResident(cfg) /\ r.type = "private" /\ r.hi - r.lo >= MinSkip
    THEN ResidentRanges(r) ELSE <<[lo |-> r.lo, hi |-> r.hi]>>

OwnedLen(cfg) ==
    IF kChunkBytes < cfg.align THEN cfg.align ELSE (kChunkBytes \div cfg.align) * cfg.align

Overlap(cfg) == ValueSize(cfg) - 1

\* A chunk owns `owned` start positions and reads the overlap after them.
ChunksOf(cfg, range) ==
    LET len == range.hi - range.lo
        own == OwnedLen(cfg)
    IN  [k \in 1..(len + own - 1) \div own |->
            LET at == (k - 1) * own
            IN  [base |-> range.lo + at, owned |-> LeastOf(own, len - at),
                 readLen |-> LeastOf(own + Overlap(cfg), len - at)]]

Chunks(cfg) ==
    LET perRegion(r) == LET rs == Ranges(cfg, r)
                        IN  FlattenSeq([k \in DOMAIN rs |-> ChunksOf(cfg, rs[k])])
        regs == ScanRegions(cfg)
    IN  FlattenSeq([k \in DOMAIN regs |-> perRegion(regs[k])])

\* Bytes owned by chunks i+1 .. j.
Owned(cs, i, j) ==
    LET sum[k \in i..j] == IF k = i THEN 0 ELSE sum[k - 1] + cs[k].owned IN sum[j]

\* Contiguous runs of chunks with about equal owned bytes: worker t has chunks
\* end[t-1]+1 .. end[t], and the last worker all that remain.
PartitionEnd(cs, n) ==
    LET share == (Owned(cs, 0, Len(cs)) + n - 1) \div n
        end[t \in 0..n] ==
            IF t = 0 THEN 0
            ELSE IF t = n THEN Len(cs)
            ELSE Min({i \in end[t - 1]..Len(cs) : i = Len(cs) \/ Owned(cs, end[t - 1], i) >= share})
    IN  end
-----------------------------------------------------------------------------
(* Scanning a buffer *)

Window(bytes, a, w) == [k \in 1..w |-> bytes[a + k - 1]]

\* An all-types record: a full-width window, zeroes beyond the end of the buffer.
Padded(bytes, a, w, end) ==
    [k \in 1..w |-> IF a + k - 1 < end THEN bytes[a + k - 1] ELSE 0]

RecordAt(cfg, c, n, o) ==
    IF cfg.type = "all" THEN Padded(mem, c.base + o, ValueSize(cfg), c.base + n)
    ELSE Window(mem, c.base + o, ValueSize(cfg))

\* The matches of a chunk of which n bytes were read. For one type the end of the
\* buffer bounds the places, for all types the owned span does.
Emitted(cfg, c, n) ==
    LET places == ScanBuffer(cfg, scenario.vector, Window(mem, c.base, n), LeastOf(n, c.owned))
    IN  [k \in DOMAIN places |->
            Match(c.base + places[k], RecordAt(cfg, c, n, places[k]), RecordAt(cfg, c, n, places[k]))]
-----------------------------------------------------------------------------
\* Addresses of anonymous mappings: their untouched pages are zero and not
\* resident. The pages of a mapped file need not be resident to hold data.
Anonymous ==
    UNION {r.base..r.base + r.size - 1 : r \in {q \in Range(Regions) : q.type = "private"}}

Init ==
    /\ \E s \in Scenarios : mem = s.mem /\ scenario = s /\ left = s.scans
    /\ resident = {PageOf(a) : a \in {b \in Anonymous : mem[b] # 0}}
    /\ phase = "idle" /\ asked = (CHOOSE f \in scenario.first : TRUE) /\ config = FirstConfig(asked)
    /\ chunks = <<>> /\ from = <<>> /\ upto = <<>> /\ parts = <<>> /\ added = <<>>
    /\ cancelled = FALSE
    /\ last = NoResult /\ undo = NoResult
    /\ before = mem /\ intact = TRUE

\* The streams of which writes fail in a step.
FullDisk == IF "disk" \in moves THEN {{}, {"offsets"}, {"values"}, {"firsts"}, {"frames"}}
            ELSE {{}}

\* The streams that cannot be opened.
Unopened == IF "open" \in moves THEN {{}, {"offsets"}, {"values"}} ELSE {{}}

Session(first, second) == last' = first /\ undo' = second

\* onFirstScan in a window without a result, and firstScan up to the start of its
\* workers. A form that makes no sense is refused.
StartFirstScan(form, cfg, cs) ==
    /\ phase = "idle" /\ last.kind = "none" /\ left > 0
    /\ cfg.ok /\ CompareSupported(cfg, FALSE) /\ cs # <<>>
    /\ cancelled' = FALSE
    /\ LET n   == LeastOf(ThreadCount, Len(cs))
           cut == PartitionEnd(cs, n)
       IN  /\ chunks' = cs
           /\ from' = [t \in 1..n |-> cut[t - 1]]
           /\ upto' = [t \in 1..n |-> cut[t]]
           /\ \E missing \in Unopened : parts' = [t \in 1..n |-> NewResult(FALSE, missing)]
           /\ added' = [t \in 1..n |-> <<>>]
    /\ phase' = "first" /\ asked' = form /\ config' = cfg /\ before' = mem /\ intact' = TRUE
    /\ left' = left - 1
    /\ UNCHANGED <<target, results>>

\* No chunk to scan: an empty result.
FirstScanEmpty(form, cfg, cs) ==
    /\ phase = "idle" /\ last.kind = "none" /\ left > 0
    /\ cfg.ok /\ CompareSupported(cfg, FALSE) /\ cs = <<>>
    /\ cancelled' = FALSE
    /\ asked' = form /\ config' = cfg /\ before' = mem /\ intact' = TRUE
    /\ chunks' = <<>> /\ from' = <<>> /\ upto' = <<>> /\ parts' = <<>> /\ added' = <<>>
    /\ Session(Typed("first", cfg, SingleResult(NewResult(FALSE, {}))), last)
    /\ left' = left - 1
    /\ UNCHANGED <<target, phase>>

FirstScan(form, cfg, cs) == StartFirstScan(form, cfg, cs) \/ FirstScanEmpty(form, cfg, cs)

Working(t) == from[t] < upto[t] /\ ~cancelled

\* Worker t records the matches ms.
Recorded(t, ms) ==
    \E full \in FullDisk :
        /\ added' = [added EXCEPT ![t] = @ \o ms]
        /\ parts' = [parts EXCEPT ![t] = AddResults(@, ms, full)]

\* A worker reads its next chunk, or as much of it as is still mapped, scans it and
\* records the matches.
ScanChunk(t) ==
    /\ phase = "first" /\ Working(t)
    /\ LET c == chunks[from[t] + 1] IN
       \E n \in {c.readLen} \cup (IF "fault" \in moves THEN 0..c.readLen ELSE {}) :
            /\ Recorded(t, Emitted(config, c, n))
            /\ intact' = (intact /\ n = c.readLen)
    /\ from' = [from EXCEPT ![t] = @ + 1]
    /\ UNCHANGED <<target, phase, asked, config, chunks, upto, cancelled, results, before,
                   left>>

\* An exception in a worker (out of memory) ends it; what it has found stays.
WorkerFails(t) ==
    /\ phase = "first" /\ "fault" \in moves /\ Working(t)
    /\ from' = [from EXCEPT ![t] = upto[t]]
    /\ intact' = FALSE
    /\ UNCHANGED <<target, phase, asked, config, chunks, upto, parts, added, cancelled,
                   results, before, left>>

\* Where a worker's slice of the stored matches ends.
SliceEnd(total, begin, per) == LeastOf(total, begin + per)

\* onNextScan, and nextScan up to the start of its workers. A search of another size
\* than that of the stored records is refused.
StartNextScan(form, cfg) ==
    /\ phase = "idle" /\ last.kind # "none" /\ Count(last) > 0 /\ left > 0
    /\ cancelled' = FALSE
    /\ cfg.ok /\ CompareSupported(cfg, TRUE)
    /\ LET total == Count(last)
           wish  == IF total < MTFloor THEN 1 ELSE ThreadCount
           n     == LeastOf(wish, Max({1, total \div Batch}))
           per   == (total + n - 1) \div n
       IN  /\ RecordStride(last) \in {0, ValueSize(cfg)}
           /\ config' = cfg
           /\ from' = [t \in 1..n |-> LeastOf(total, (t - 1) * per)]
           /\ upto' = [t \in 1..n |-> SliceEnd(total, LeastOf(total, (t - 1) * per), per)]
           /\ \E missing \in Unopened : parts' = [t \in 1..n |-> NewResult(TRUE, missing)]
           /\ added' = [t \in 1..n |-> <<>>]
    /\ phase' = "next" /\ asked' = form
    /\ before' = mem /\ intact' = TRUE
    /\ left' = left - 1
    /\ UNCHANGED <<target, chunks, results>>

\* Mutant: the first value is replaced by the previous one.
NarrowedFirstLost(m, now) == Match(m.addr, now, m.val)

\* The record kept for a match that survives a next scan.
Narrowed(m, now) == Match(m.addr, now, m.first)

\* readMany() serves a match whose whole window is mapped.
Readable(a, size) == a + size <= Space

\* A worker re-reads a batch of matches; the ones it cannot read are dropped. A
\* truncated result ends it.
ScanBatch(t) ==
    /\ phase = "next" /\ Working(t)
    /\ LET n    == LeastOf(Batch, upto[t] - from[t])
           size == ValueSize(config)
           old  == ReadBatch(last, from[t], n, size)
           now(m) == Window(mem, m.addr, size)
       IN
       \/ /\ \E i \in from[t]..from[t] + n - 1 : ~CanRead(last, i, size)
          /\ from' = [from EXCEPT ![t] = upto[t]]
          /\ UNCHANGED <<parts, added, intact>>
       \/ /\ \A i \in from[t]..from[t] + n - 1 : CanRead(last, i, size)
          /\ \E lost \in IF "fault" \in moves THEN SUBSET (1..n) ELSE {{}} :
                LET kept  == SelectSeq([k \in 1..n |-> <<k, old[k]>>],
                                LAMBDA p : /\ p[1] \notin lost /\ Readable(p[2].addr, size)
                                           /\ NextScanCompare(config, now(p[2]), p[2]))
                    recs(ps) == [k \in DOMAIN ps |-> Narrowed(ps[k][2], now(ps[k][2]))]
                IN  /\ Recorded(t, recs(kept))
                    /\ intact' = (intact /\ lost = {})
          /\ from' = [from EXCEPT ![t] = @ + n]
    /\ UNCHANGED <<target, phase, asked, config, chunks, upto, cancelled, results, before,
                   left>>

\* The workers are joined, their files finalized and listed in address order; the
\* window keeps the result and the one before it.
FinishScan ==
    /\ phase # "idle" /\ \A t \in Workers : ~Working(t)
    /\ \E full \in FullDisk :
        LET done == [t \in Workers |-> Finalize(parts[t], full)]
            n    == Len(parts)
        IN  \E lines \in IF "disk" \in moves THEN {n, n - 1} ELSE {n} :
                Session(Typed(phase, config, IF phase = "next" /\ n = 1
                                             THEN SingleResult(done[1])
                                             ELSE ShardedResult(done, lines)), last)
    /\ phase' = "idle"
    /\ UNCHANGED <<target, running, cancelled, before, intact, left>>

\* cancel(), while a scan runs or before the next one.
Cancel ==
    /\ "cancel" \in moves /\ ~cancelled
    /\ cancelled' = TRUE /\ intact' = (intact /\ phase = "idle")
    /\ UNCHANGED <<target, phase, running, results, before, left>>
-----------------------------------------------------------------------------
(* The scan session: everything here waits for a running scan to end *)

\* onFirstScan with a result open: "New Scan" only clears.
NewScan ==
    /\ phase = "idle" /\ last.kind # "none"
    /\ Session(NoResult, NoResult)
    /\ UNCHANGED <<target, phase, running, cancelled, before, intact, left>>

UndoScan ==
    /\ phase = "idle" /\ undo.kind # "none"
    /\ Session([undo EXCEPT !.kind = "old"], NoResult)
    /\ UNCHANGED <<target, phase, running, cancelled, before, intact, left>>

\* pruneScanResult of the selected rows; the unpruned result can be undone to.
\* Bound: one removal per scan.
RemoveSelected(rows) ==
    /\ phase = "idle" /\ "prune" \in moves /\ last.kind \in {"first", "next"}
    /\ rows # {}
    /\ \E full \in FullDisk :
        LET copy == PruneScanResult(last, last.size, rows, full)
        IN  Session([last EXCEPT !.kind = "pruned", !.shards = copy.shards, !.err = copy.err],
                    last)
    /\ UNCHANGED <<target, phase, running, cancelled, before, intact, left>>
-----------------------------------------------------------------------------
\* The target writes a byte, and the page becomes resident (external). Bound: one
\* write between the starts of two scans.
TargetWrites(a, b) ==
    /\ "write" \in moves /\ mem[a] # b /\ mem = before
    /\ phase # "idle" \/ last.kind # "none"
    /\ mem' = [mem EXCEPT ![a] = b]
    /\ resident' = resident \cup {PageOf(a)} /\ UNCHANGED scenario
    /\ intact' = (intact /\ phase = "idle")
    /\ UNCHANGED <<phase, running, cancelled, results, before, left>>

WorkerStep(t) == ScanChunk(t) \/ ScanBatch(t)

Next ==
    \/ \E form \in scenario.first : FirstScan(form, FirstConfig(form), Chunks(FirstConfig(form)))
    \/ \E form \in scenario.next : StartNextScan(form, NextConfig(form, last.type))
    \/ \E t \in Workers : WorkerStep(t) \/ WorkerFails(t)
    \/ FinishScan \/ Cancel \/ NewScan \/ UndoScan
    \/ \E rows \in SUBSET (0..Count(last) - 1) : RemoveSelected(rows)
    \/ \E a \in Writable, b \in Written : TargetWrites(a, b)

Spec == Init /\ [][Next]_vars
-----------------------------------------------------------------------------
(* Properties *)

(* What the user means, without chunks, vectors, anchors, masks or parsers *)

\* A nibble, a token of an array of bytes, or the bits of a pattern, against memory.
NibbleIs(c, n) == c \in {Wild, n}
TokenIs(tok, b) == \/ tok = <<Wild>>
                   \/ Len(tok) = 1 /\ b = tok[1]
                   \/ Len(tok) = 2 /\ NibbleIs(tok[1], b \div Nibble) /\ NibbleIs(tok[2], b % Nibble)
BitsAre(bits, w) ==
    \A i \in DOMAIN bits :
        bits[i] \in {Wild, Bit(w[((i - 1) \div BitsPerByte) + 1],
                              BitsPerByte - 1 - ((i - 1) % BitsPerByte))}

TextSize(type, text) ==
    CASE type = "unicode" -> 2 * Len(text)
      [] type = "binary"  -> (Len(text) + BitsPerByte - 1) \div BitsPerByte
      [] OTHER            -> Len(text)

TextIs(type, text, w) ==
    CASE type = "binary"  -> BitsAre(text, w)
      [] type = "aob"     -> \A k \in DOMAIN text : TokenIs(text[k], w[k])
      [] type = "unicode" -> \A k \in DOMAIN text : w[2 * k - 1] = text[k] /\ w[2 * k] = 0
      [] OTHER            -> w = text

FoldCase(text) == [k \in DOMAIN text |-> ToLower(text[k])]

\* Is what lies at a what form f asks for, as type t?
Means(f, t, bytes, a, end) ==
    LET text == IF t = "string" /\ f.encoding = "utf-16le" THEN "unicode" ELSE t
        size == TextSize(text, f.text)
        term(x) == IF x.type \in NumberTypes
                   THEN /\ a + x.at + Width(x.type) <= end
                        /\ LET w == Window(bytes, a + x.at, Width(x.type))
                           IN  ~NotANumber(x.type, w) /\ NumberOf(x.type, w) = x.value
                   ELSE /\ a + x.at + TextSize(x.type, x.text) <= end
                        /\ TextIs(x.type, x.text, Window(bytes, a + x.at, TextSize(x.type, x.text)))
    IN  CASE f.type = "all"    -> a + Width(t) <= end /\ HoldsAs(config, t, Window(bytes, a, Width(t)))
          [] t \in NumberTypes -> /\ a + Width(t) <= end
                                  /\ CompareNumber(config, t, Window(bytes, a, Width(t)))
          [] t = "grouped"     -> \A k \in DOMAIN f.text : term(f.text[k])
          [] t = "custom"      -> \E w \in f.formula : a + Len(w) <= end /\ Window(bytes, a, Len(w)) = w
          [] t = "string" /\ ~f.caseSensitive ->
                a + size <= end /\ FoldCase(Window(bytes, a, size)) = FoldCase(f.text)
          [] OTHER -> a + size <= end /\ TextIs(text, f.text, Window(bytes, a, size))

\* The distance of the places a scan looks at.
Step(f) == CASE f.type = "unicode" -> 2
             [] f.type \in NumberTypes \cup {"all"} /\ f.fast -> f.align
             [] OTHER -> 1

\* What a first scan of memory `bytes` is to find: every place of its region where
\* what is meant lies, once for each type, in order.
Expected(f, bytes) ==
    LET types == IF f.type = "all" THEN AllTypes ELSE <<f.type>>
        at(r, a) ==
            LET rec == Padded(bytes, a, ValueSize(config), r.hi)
                once(fits) == [k \in DOMAIN fits |-> Match(a, rec, rec)]
            IN  once(SelectSeq(types, LAMBDA t : Means(f, t, bytes, a, r.hi)))
        in(r) ==
            LET grid == Grid(r.lo, r.hi, Step(f))
            IN  FlattenSeq([k \in DOMAIN grid |-> at(r, grid[k])])
        regs == ScanRegions(config)
    IN  FlattenSeq([k \in DOMAIN regs |-> in(regs[k])])

Done(kind) == phase = "idle" /\ last.kind = kind /\ ~last.err

\* An undisturbed first scan finds exactly what the form asks for, each place once
\* and in address order, whatever the chunk size, the vector width, the number of
\* workers, the frames and the pages skipped (parsers, scan loops, chunking,
\* partition and store of firstScan).
FirstScanExact ==
    Done("first") /\ intact => Matches(last, last.size) = Expected(asked, before)

\* Numbers before and now, as the user compares them.
Moved(f, t, old, now) ==
    LET a == NumberOf(t, old)
        b == NumberOf(t, now)
        up(p) == 100 * (b - a) >= p * Mag(a)
    IN  CASE f.scanType = "increasedBy" -> b - a = f.value /\ b > a
          [] f.scanType = "decreasedBy" -> a - b = f.value /\ b < a
          [] f.scanType = "increased"   -> IF f.percent THEN a # 0 /\ up(f.low) ELSE b > a
          [] f.scanType = "decreased"   -> IF f.percent THEN a # 0 /\ 100 * (a - b) >= f.low * Mag(a)
                                           ELSE b < a
          [] f.scanType = "between"     -> a # 0 /\ up(f.low) /\ 100 * (b - a) <= f.high * Mag(a)

\* The user's question to a next scan, asked of one match and the memory.
Survives(f, t, bytes, m) ==
    LET now == Window(bytes, m.addr, last.size)
    IN  CASE f.scanType = "changed"     -> now # m.val
          [] f.scanType = "unchanged"   -> now = m.val
          [] f.scanType = "sameAsFirst" -> now = m.first
          [] f.scanType = "unknown"     -> TRUE
          [] f.percent \/ f.scanType \in {"increased", "decreased", "increasedBy", "decreasedBy"} ->
                Moved(f, t, m.val, now)
          [] OTHER -> Means([f EXCEPT !.type = t], t, bytes, m.addr, m.addr + last.size)

\* An undisturbed next scan keeps exactly the matches of the previous result that
\* answer the question, with their new and their first values (nextScan).
NextScanExact ==
    Done("next") /\ intact /\ ~undo.err =>
        LET old  == SelectSeq(Matches(undo, last.size),
                        LAMBDA m : /\ Readable(m.addr, last.size)
                                   /\ Survives(asked, last.type, before, m))
        IN  Matches(last, last.size) =
                [k \in DOMAIN old |->
                    Match(old[k].addr, Window(before, old[k].addr, last.size), old[k].first)]

\* Whatever happens during a scan (faults, a cancel, a full disk, memory that
\* changes), a result that is not flagged reads back exactly what its workers
\* recorded: offsets, values and first values never get out of step (addResult,
\* flush, finalize, shards and frames); and next scans and removals only ever narrow,
\* each match having been in the result before with the same first value (nextScan,
\* pruneScanResult).
StoreFaithful ==
    /\ \A kind \in {"first", "next"} :
            Done(kind) => Matches(last, last.size) = FlattenSeq(added)
    /\ phase = "idle" /\ last.kind \in {"next", "pruned"} /\ ~last.err /\ ~undo.err =>
            \A m \in Range(Matches(last, last.size)) :
                \E o \in Range(Matches(undo, undo.size)) :
                    /\ o.addr = m.addr /\ o.first = m.first
                    /\ last.kind = "pruned" => o.val = m.val
=============================================================================
