--------------------------- MODULE PointerScanner ---------------------------
(***************************************************************************)
(* The pointer scanner (scanner/pointer_scanner.cpp) and the dialog that   *)
(* drives it (gui/pointerscan_dialog.cpp).                                 *)
(*                                                                         *)
(* A scan reads the target window by window into a map of everything that  *)
(* looks like a pointer, then walks it backwards from the target address   *)
(* to the modules.  The target runs meanwhile.  The paths found are saved, *)
(* the target is started again with its modules and heap elsewhere, the    *)
(* paths are loaded and narrowed by where they lead now.  A path may be    *)
(* followed in three ways: by reading the target, in a map, and as the     *)
(* expression that is stored in the address list.                          *)
(*                                                                         *)
(* An address is the number of a four-byte cell: pointers are aligned at   *)
(* even addresses.  A journey bounds a behaviour: the process it starts    *)
(* with, the ones it may be started again as, what they write, what the    *)
(* user asks for and how often, and what may go wrong.                     *)
(***************************************************************************)
EXTENDS AddressExpression

CONSTANTS
    PtrLow, PtrHigh,    \* kPtrLow, kPtrHigh
    ReadWindow,         \* kPtrReadWindow
    ResultCap,          \* paths a scan stops at (10000)
    Journeys            \* bounds, see above

ASSUME PointerAssumption ==
    /\ {PtrLow, PtrHigh, ReadWindow, ResultCap} \subseteq Nat \ {0}
    /\ \A j \in Journeys : j.steps \in Nat /\ j.moves \subseteq {"cancel", "disk", "map"}

VARIABLES
    journey,    \* the bounds of this behaviour
    proc,       \* the target: [regions, modules, cells]
    reading,    \* the scan that runs: [on, cfg, regions, todo, entries, calm]
    stopped,    \* cancelled_ of the scanner
    map,        \* the last map built
    paths,      \* results_
    files,      \* the files of saved paths and of the saved map: [data, whole]
    record,     \* the path whose expression was added to the address list, if any
    origin,     \* history: the scan `paths` came from: [kind, map, cfg, live]
    steps       \* bound: operations the user may still ask for

pvars == <<journey, proc, reading, stopped, map, paths, files, record, origin, steps>>

NoCfg == [target |-> 0, depth |-> 0, reach |-> 0, negative |-> FALSE, aligned |-> TRUE,
          shard |-> 0, shards |-> 1]
NoMap == [entries |-> <<>>, modules |-> <<>>]
NotReading == [on |-> FALSE, cfg |-> NoCfg, regions |-> <<>>, todo |-> <<>>, entries |-> <<>>, calm |-> TRUE]
Other == [kind |-> "other", map |-> NoMap, cfg |-> NoCfg, live |-> FALSE]

PointerInit ==
    \E j \in Journeys :
        /\ journey = j /\ proc = j.start /\ steps = j.steps
        /\ reading = NotReading /\ stopped = FALSE /\ map = NoMap
        /\ paths = <<>> /\ record = {} /\ origin = Other
        /\ files = [paths |-> [data |-> <<>>, whole |-> FALSE], map |-> [data |-> NoMap, whole |-> FALSE]]

-----------------------------------------------------------------------------
(* The map *)

InRange(a, regions) == \E k \in DOMAIN regions : a >= regions[k].base /\ a < regions[k].base + regions[k].size
PointerShaped(v, regions) == v >= PtrLow /\ v <= PtrHigh /\ InRange(v, regions)

Stride(cfg) == IF cfg.aligned THEN 2 ELSE 1

\* A region is read in windows; each owns `own` cells and reads one more, so that a
\* pointer across the boundary is seen.
Windows(cfg, r) ==
    LET own == Max({Stride(cfg), (ReadWindow \div Stride(cfg)) * Stride(cfg)})
    IN  [k \in 1..(r.size + own - 1) \div own |->
            [base |-> r.base + (k - 1) * own, want |-> Min({own + 1, r.size - (k - 1) * own})]]

AllWindows(cfg, regions) ==
    LET kept == SelectSeq(regions, LAMBDA r : r.read)
    IN  FlattenSeq([k \in DOMAIN kept |-> Windows(cfg, kept[k])])

\* What one window of the target contributes: nothing if it cannot be read.
EntriesIn(p, cfg, w, regions) ==
    LET got   == Cardinality({k \in 1..w.want : \A i \in 0..k - 1 : Mapped(p, w.base + i)})
        at    == [k \in 1..(IF got < 2 THEN 0 ELSE (got - 2) \div Stride(cfg) + 1) |-> w.base + (k - 1) * Stride(cfg)]
        found == SelectSeq(at, LAMBDA a : PointerShaped(Pointer(p, a).v, regions))
    IN  [k \in DOMAIN found |-> [to |-> Pointer(p, found[k]).v, at |-> found[k]]]

\* setEntries: by target; std::sort leaves entries of one target in any order.
Sorted(entries, up) ==
    SortSeq(entries, LAMBDA x, y : \/ x.to < y.to
                                   \/ x.to = y.to /\ (IF up THEN x.at < y.at ELSE x.at > y.at))

MapOf(entries, mods, up) == [entries |-> Sorted(entries, up), modules |-> mods]

\* buildPointerMap on a target that stands still.
BuildPointerMap(p, cfg) ==
    LET ws == AllWindows(cfg, p.regions)
    IN  MapOf(FlattenSeq([k \in DOMAIN ws |-> EntriesIn(p, cfg, ws[k], p.regions)]), p.modules, TRUE)

ValueAt(m, a) ==
    LET here == {k \in DOMAIN m.entries : m.entries[k].at = a}
    IN  IF here = {} THEN Nothing ELSE Just(m.entries[Min(here)].to)

\* Follow a path: a missing module, an unreadable or a null link lead to 0.
Follow(base, path, link(_)) ==
    IF base = 0 THEN 0
    ELSE LET hop(a, off) == IF a.ok /\ link(a.v).ok /\ link(a.v).v # 0 THEN Just(link(a.v).v + off) ELSE Nothing
             end == FoldLeft(hop, Just(base + path.offset), path.offsets)
         IN  IF end.ok THEN end.v ELSE 0

Resolve(m, path) == Follow(ModuleBase(m.modules, path.module), path, LAMBDA a : ValueAt(m, a))

Dereference(p, path) == Follow(ModuleBase(p.modules, path.module), path, LAMBDA a : Pointer(p, a))

\* PointerPath::toString
Hex(n) == IF n \in 10..15 THEN Letter(n) ELSE Num(n)
Expression(path) ==
    LET hops == [k \in DOMAIN path.offsets |->
                    <<Op("]"), Op(IF path.offsets[k] >= 0 THEN "+" ELSE "-"),
                      Num(IF path.offsets[k] >= 0 THEN path.offsets[k] ELSE -path.offsets[k])>>]
    IN  [k \in DOMAIN path.offsets |-> Op("[")] \o path.module \o <<Op("+"), Hex(path.offset)>> \o FlattenSeq(hops)

-----------------------------------------------------------------------------
(* The walk backwards *)

\* The module an address is in, by position; 0 if it is in none.
FindModule(mods, a) == SelectInSeq(mods, LAMBDA m : a >= m.base /\ a < m.base + m.size)

\* Pointers to at most `reach` below the address (or above it, if asked for).
Pointing(m, cfg, a) ==
    SelectSeq(m.entries, LAMBDA e : /\ e.to >= a - cfg.reach
                                    /\ e.to <= a + (IF cfg.negative THEN cfg.reach ELSE 0))

InShard(cfg, k) == k > 0 /\ (cfg.shards <= 1 \/ (k - 1) % cfg.shards = cfg.shard)

PathFrom(mods, k, at, offsets) ==
    [module |-> mods[k].name, moduleBase |-> mods[k].base, offset |-> at - mods[k].base, offsets |-> offsets]

AppendOffset(item, e) == Append(item.offsets, item.addr - e.to)

\* Innermost first: the offset of the pointer found goes in front.
PrependOffset(item, e) == <<item.addr - e.to>> \o item.offsets

\* A pointer to the item: recorded if it lies in a module of this shard, walked on
\* from if it was not visited; at the cap the walk is done.
Found(m, cfg, item, walk, e) ==
    LET offsets == PrependOffset(item, e)
        k       == FindModule(m.modules, e.at)
        out     == IF InShard(cfg, k) THEN Append(walk.out, PathFrom(m.modules, k, e.at, offsets)) ELSE walk.out
        deeper  == item.depth + 1 < cfg.depth /\ e.at \notin walk.visited
        further == [addr |-> e.at, offsets |-> offsets, depth |-> item.depth + 1]
    IN  IF Len(walk.out) >= ResultCap THEN walk
        ELSE IF Len(out) >= ResultCap \/ ~deeper THEN [walk EXCEPT !.out = out]
        ELSE [out |-> out, queue |-> Append(walk.queue, further), visited |-> walk.visited \cup {e.at}]

\* The queue is walked level by level, which is its order.
WalkLevel(m, cfg, walk) ==
    LET visit(w, item) == FoldLeft(LAMBDA x, e : Found(m, cfg, item, x, e), w, Pointing(m, cfg, item.addr))
    IN  FoldLeft(visit, [walk EXCEPT !.queue = <<>>], walk.queue)

ScanWithMap(m, cfg) ==
    IF cfg.shards = 0 \/ cfg.shard >= cfg.shards THEN <<>>
    ELSE FoldLeft(LAMBDA w, d : WalkLevel(m, cfg, w),
                  [out |-> <<>>, queue |-> <<[addr |-> cfg.target, offsets |-> <<>>, depth |-> 0]>>,
                   visited |-> {cfg.target}],
                  [d \in 1..Max({1, cfg.depth}) |-> d]).out

\* makePointerScanShards
Shards(cfg, n) == [i \in 1..n |-> [cfg EXCEPT !.shard = i - 1, !.shards = n]]

SamePath(x, y) == x.module = y.module /\ x.offset = y.offset /\ x.offsets = y.offsets

\* mergePointerPaths, without duplicates.
Merged(a, b) ==
    FoldLeft(LAMBDA out, p : IF \E k \in DOMAIN out : SamePath(out[k], p) THEN out ELSE Append(out, p), a, b)

-----------------------------------------------------------------------------
(* The target *)

Moves(p) == /\ proc' = p
            /\ reading' = [reading EXCEPT !.calm = FALSE]
            /\ origin' = [origin EXCEPT !.live = FALSE]

ProcessWrites ==
    \E w \in journey.writes :
        /\ w[1] \in DOMAIN proc.cells /\ proc.cells[w[1]] # w[2]
        /\ Moves([proc EXCEPT !.cells[w[1]] = w[2]])
        /\ UNCHANGED <<journey, stopped, map, paths, files, record, steps>>

\* The target ends and is started again: the dialog is opened anew for it.
ProcessRestarts ==
    \E p \in journey.again :
        /\ proc' = p /\ p # proc
        /\ ~reading.on /\ paths' = <<>> /\ origin' = Other
        /\ UNCHANGED <<journey, reading, stopped, map, files, record, steps>>

-----------------------------------------------------------------------------
(* Scans *)

Request == ~reading.on /\ steps > 0 /\ steps' = steps - 1

\* scan() of a scanner resets its cancel flag and asks for the regions.
Scans(cfg) ==
    /\ Request /\ stopped' = FALSE
    /\ reading' = [on |-> TRUE, cfg |-> cfg, regions |-> proc.regions,
                   todo |-> AllWindows(cfg, proc.regions), entries |-> <<>>, calm |-> TRUE]
    /\ UNCHANGED <<journey, proc, map, paths, files, record, origin>>

\* The dialog looks for aligned pointers below the target; pointerScan of a script has
\* every option.
Plain(cfg) == cfg.aligned /\ ~cfg.negative
OnScan == \E cfg \in journey.asks : Plain(cfg) /\ Scans(cfg)
PointerScan == \E cfg \in journey.asks : ~Plain(cfg) /\ Scans(cfg)

ReadsWindow ==
    /\ reading.on /\ reading.todo # <<>> /\ ~stopped
    /\ reading' = [reading EXCEPT !.todo = Tail(@),
                      !.entries = @ \o EntriesIn(proc, reading.cfg, Head(reading.todo), reading.regions)]
    /\ UNCHANGED <<journey, proc, stopped, map, paths, files, record, origin, steps>>

CancelsScan ==
    /\ "cancel" \in journey.moves /\ ~stopped
    /\ stopped' = TRUE
    /\ UNCHANGED <<journey, proc, reading, map, paths, files, record, origin, steps>>

Result(m, cfg, out, live) == /\ paths' = IF stopped THEN <<>> ELSE out
                             /\ origin' = [kind |-> IF stopped THEN "cancelled" ELSE "scan", map |-> m, cfg |-> cfg, live |-> live]

\* The modules are asked for last; a cancelled scan has an empty map and no result.
FinishesScan ==
    \E up \in BOOLEAN :
        /\ reading.on /\ (reading.todo = <<>> \/ stopped)
        /\ map' = IF stopped THEN NoMap ELSE MapOf(reading.entries, proc.modules, up)
        /\ Result(map', reading.cfg, ScanWithMap(map', reading.cfg), reading.calm)
        /\ reading' = NotReading
        /\ UNCHANGED <<journey, proc, stopped, files, record, steps>>

\* scanWithMap by the same scanner, whose cancel flag it does not reset.
ScansMap ==
    \E cfg \in journey.asks :
        /\ Request /\ Result(map, cfg, ScanWithMap(map, cfg), FALSE)
        /\ UNCHANGED <<journey, proc, reading, stopped, map, files, record>>

\* One scan per shard, merged.
ScansShards ==
    \E cfg \in journey.asks, n \in 2..3 :
        /\ Request
        /\ Result(map, cfg, FoldLeft(LAMBDA out, s : Merged(out, ScanWithMap(map, s)), <<>>, Shards(cfg, n)), FALSE)
        /\ UNCHANGED <<journey, proc, reading, stopped, map, files, record>>

-----------------------------------------------------------------------------
(* What is done with the paths *)

Now(new) == /\ Request /\ paths' = new /\ origin' = Other
            /\ UNCHANGED <<journey, proc, reading, stopped, map>>

\* The paths that lead to t now.
RescanPointerPaths(t) == SelectSeq(paths, LAMBDA p : Dereference(proc, p) = t)
RescanPointerPathsWithMap(t) == SelectSeq(paths, LAMBDA p : Resolve(map, p) = t)

\* The paths that lead to the value v now; a map saves reading the links, not the value.
HasValue(a, v) == a # 0 /\ Mapped(proc, a) /\ proc.cells[a] = v
RescanPointerPathsByValue(v) == SelectSeq(paths, LAMBDA p : HasValue(Dereference(proc, p), v))
RescanPointerPathsByValueWithMap(v) == SelectSeq(paths, LAMBDA p : HasValue(Resolve(map, p), v))

OnRescan ==
    \E t \in journey.targets :
        paths # <<>> /\ Now(RescanPointerPaths(t)) /\ UNCHANGED <<files, record>>

RescansOtherwise ==
    /\ \/ \E t \in journey.targets : Now(RescanPointerPathsWithMap(t))
       \/ \E v \in journey.values : \/ Now(RescanPointerPathsByValue(v))
                                     \/ Now(RescanPointerPathsByValueWithMap(v))
    /\ UNCHANGED <<files, record>>

OffsetSum(p) == FoldLeft(LAMBDA n, o : n + (IF o < 0 THEN -o ELSE o), 0, p.offsets)

SortPointerPaths ==
    /\ \/ Now(SortSeq(paths, LAMBDA x, y : Len(x.offsets) < Len(y.offsets)))
       \/ Now(SortSeq(paths, LAMBDA x, y : x.offset < y.offset))
       \/ Now(SortSeq(paths, LAMBDA x, y : OffsetSum(x) < OffsetSum(y)))
    /\ UNCHANGED <<files, record>>

MergesSaved == files.paths.whole /\ Now(Merged(paths, files.paths.data)) /\ UNCHANGED <<files, record>>

\* A disk that fills leaves a file that is cut short, and this is noticed or not: the
\* last buffer is written by fclose, whose result nobody looks at.
FileOf(data) == {[data |-> data, whole |-> w] : w \in IF "disk" \in journey.moves THEN BOOLEAN ELSE {TRUE}}
SavePointerPaths == files' \in {[files EXCEPT !.paths = f] : f \in FileOf(paths)}
SaveMap == files' \in {[files EXCEPT !.map = f] : f \in FileOf(map)}

\* A file that is cut short is refused: nothing of it is used.
LoadPointerPaths == IF files.paths.whole THEN files.paths.data ELSE <<>>
LoadMap == IF files.map.whole THEN files.map.data ELSE NoMap

OnSave ==
    /\ Request /\ paths # <<>> /\ SavePointerPaths
    /\ UNCHANGED <<journey, proc, reading, stopped, map, paths, record, origin>>

\* A file that is refused leaves the results as they are.
OnLoad ==
    /\ Request /\ IF files.paths.whole THEN paths' = LoadPointerPaths /\ origin' = Other
                                     ELSE UNCHANGED <<paths, origin>>
    /\ UNCHANGED <<journey, proc, reading, stopped, map, files, record>>

\* PointerMap::save and PointerMap::load.
KeepsMap ==
    /\ "map" \in journey.moves /\ Request
    /\ \/ SaveMap /\ UNCHANGED map
       \/ map' = LoadMap /\ UNCHANGED files
    /\ UNCHANGED <<journey, proc, reading, stopped, paths, record, origin>>

\* The main window stores the path's text as the address of the new record.
OnResultDoubleClicked ==
    \E k \in DOMAIN paths :
        /\ Request /\ Dereference(proc, paths[k]) # 0
        /\ record' = {paths[k]}
        /\ UNCHANGED <<journey, proc, reading, stopped, map, paths, files, origin>>

PointerNext ==
    \/ ProcessWrites \/ ProcessRestarts
    \/ OnScan \/ PointerScan \/ ReadsWindow \/ CancelsScan \/ FinishesScan \/ ScansMap \/ ScansShards
    \/ OnRescan \/ RescansOtherwise \/ SortPointerPaths \/ MergesSaved
    \/ OnSave \/ OnLoad \/ KeepsMap \/ OnResultDoubleClicked

-----------------------------------------------------------------------------
(* Properties *)

\* Slots from which the target can be reached through at most d pointers.
Reaching(m, cfg) ==
    LET near[d \in 0..cfg.depth] ==
            IF d = 0 THEN {cfg.target}
            ELSE near[d - 1] \cup UNION {{e.at : e \in Range(Pointing(m, cfg, a))} : a \in near[d - 1]}
    IN  UNION {{e.at : e \in Range(Pointing(m, cfg, a))} : a \in near[cfg.depth - 1]}

\* Every path a scan returns leads to its target, in the map and, if the target did
\* not move, in the target, through no more pointers and no longer offsets than were
\* asked for; every place in a module that leads there starts a path, merged shards
\* included; and a cancelled scan returns none (scan, scanWithMap, shards, merge).
PathsReach ==
    /\ origin.kind = "cancelled" => paths = <<>>
    /\ origin.kind = "scan" =>
             /\ \A p \in Range(paths) :
                    /\ Len(p.offsets) <= origin.cfg.depth
                    /\ \A o \in Range(p.offsets) :
                            o <= origin.cfg.reach /\ o >= IF origin.cfg.negative THEN -origin.cfg.reach ELSE 0
                    /\ Resolve(origin.map, p) = origin.cfg.target
                    /\ origin.live => Dereference(proc, p) = origin.cfg.target
             /\ Len(paths) < ResultCap =>
                    {p.moduleBase + p.offset : p \in Range(paths)} =
                        {a \in Reaching(origin.map, origin.cfg) : FindModule(origin.map.modules, a) > 0}

\* However a path is followed, it leads to the same place: what a map of the target
\* says is what reading the target says, or nothing; and the expression in the
\* address list keeps meaning the path, through writes and restarts, wherever the
\* modules are (dereference, PointerMap::resolve, toString, ExpressionParser).
FollowedAlike ==
    \A path \in Range(paths) \cup record :
        LET live == Dereference(proc, path)
        IN  /\ \A aligned \in BOOLEAN :
                Resolve(BuildPointerMap(proc, [NoCfg EXCEPT !.aligned = aligned]), path) \in {0, live}
            /\ live # 0 => Parse(proc, Expression(path)) = Just(live)
=============================================================================
