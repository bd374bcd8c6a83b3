--------------------------- MODULE MemoryViewer ---------------------------
(***************************************************************************)
(* One memory viewer (gui/memorybrowser.cpp): a hex pane and a disassembly *)
(* pane over the target's memory, the history of visited addresses, Find,  *)
(* and the edits both panes make.  A pane keeps its selection as offsets   *)
(* into what it shows, so every scroll has to move the offsets; a context  *)
(* menu runs a nested event loop, in which the refresh timer, the target   *)
(* and a debugger stop that follows execution go on changing what is       *)
(* shown under it.  Addresses are numbers below N and wrap as uintptr_t    *)
(* does.  A byte is two one-bit digits; the instruction set is             *)
(* 0 and 1 (one byte, 1 is NOP), 2 b (two bytes) and 3 b (a jump).         *)
(***************************************************************************)
EXTENDS Integers, Sequences, FiniteSets, FiniteSetsExt, SequencesExt

CONSTANTS N,             \* size of the address space
          InitMem,       \* the bytes of the target at start, one per address
          InitProt,      \* "none" (unmapped), "guard", "ro" or "rw", one per address
          Chunk,         \* CHUNK: how much a search reads at a time
          RowSizes,      \* offered "Bytes per row"
          Align,         \* setAddress aligns to it (16)
          VisRows,       \* visible rows of the hex pane
          DisRows,       \* visible rows of the disassembly
          ExtraRows,     \* instructions decoded below the visible ones (5)
          Lookback,      \* LOOKBACK of scrollBack
          Notch,         \* rows a wheel notch scrolls (3)
          ScrollSteps,   \* kScrollSteps
          Patterns,      \* patterns to find or paste; -1 is the wildcard
          FillBytes,     \* byte values the user types as text or fills with
          GotoTargets,   \* addresses the user types
          Rips,          \* addresses the debugger stops at
          TargetWrites,  \* writes the target makes by itself: [addr, byte]
          MaxWrites, MaxHistory, MaxInUse   \* bounds: writes to memory, remembered addresses, parts in use

Addr == 0 .. N - 1
NOP == 1

ASSUME ViewAssumption == Align > 0 /\ VisRows > 0 /\ DisRows > 1 /\ Chunk > 0 /\ \A r \in RowSizes : r > 0

VARIABLES attached,   \* proc_ is set
          mem, prot,  \* the target: bytes and protection of every address
          hex,        \* HexView: [base, row, sel, anc, nib, ascii, cache, got]
          dis,        \* DisasmView: [base, insns, row, anc]
          cur,        \* currentAddr_
          back, fwd,  \* backStack_, forwardStack_
          last,       \* lastSearch_ with its mask
          menu,       \* the open context menu and what it captured
          writes      \* history: how often memory was written

vars == <<attached, mem, prot, hex, dis, cur, back, fwd, last, menu, writes>>
history == <<cur, back, fwd>>

NoMenu == [kind |-> "none", addr |-> 0, insns |-> << >>]

-----------------------------------------------------------------------------
(* The target. *)

Readable(p, a) == a \in Addr /\ p[a] \in {"ro", "rw"}

\* Bytes a read of n bytes at a returns: it stops at the first unreadable one.
Got(p, a, n) == Max({k \in 0 .. n : \A i \in 0 .. k - 1 : Readable(p, a + i)})

\* /proc/<pid>/maps: maximal runs of one protection.
Regions(p) ==
    LET End(a) == Min({b \in a + 1 .. N : b = N \/ p[b] # p[a]})
    IN {[base |-> a, end |-> End(a)] : a \in {x \in Addr : p[x] # "none" /\ (x = 0 \/ p[x - 1] # p[x])}}
ReadableRegions(p) == {r \in Regions(p) : Readable(p, r.base)}

\* write(): the writable prefix; mprotect(All) stops at the first hole.
Written(m, p, a, bytes) ==
    LET k == Max({j \in 0 .. Len(bytes) : \A i \in 0 .. j - 1 : a + i \in Addr /\ p[a + i] = "rw"})
    IN [mem |-> [x \in Addr |-> IF x \in a .. a + k - 1 THEN bytes[x - a + 1] ELSE m[x]], n |-> k]
Protected(p, a, n) ==
    LET k == Max({j \in 0 .. n : \A i \in 0 .. j - 1 : a + i \in Addr /\ p[a + i] # "none"})
    IN [x \in Addr |-> IF x \in a .. a + k - 1 THEN "rw" ELSE p[x]]

\* Write; on a short write make the page writable and write again.
Patch(m, p, a, bytes) ==
    LET w == Written(m, p, a, bytes)
        q == Protected(p, a, Len(bytes))
        v == Written(w.mem, q, a, bytes)
    IN IF w.n = Len(bytes) THEN [mem |-> w.mem, prot |-> p, ok |-> TRUE]
       ELSE [mem |-> v.mem, prot |-> q, ok |-> v.n = Len(bytes)]
PokeByte(m, p, a, b) == Patch(m, p, a, <<b>>)

-----------------------------------------------------------------------------
(* Disassembly. *)

SizeOf(b) == IF b >= 2 THEN 2 ELSE 1
\* The next instruction of the got bytes at a; a truncated one is a data byte, or ends the list.
Decode(m, a, end) == [addr |-> a, size |-> IF a + SizeOf(m[a]) <= end THEN SizeOf(m[a]) ELSE 1,
                      target |-> IF m[a] = 3 /\ a + 2 <= end THEN 2 * m[a + 1] ELSE 0]
Truncated(m, a, end) == a + SizeOf(m[a]) > end

\* disassemble(): at most count instructions (0: no limit) of the bytes a .. end-1.
Disassemble(m, a, end, count, dataBytes) ==
    LET list[b \in a .. N, k \in 0 .. N] ==
            IF b >= end \/ (count # 0 /\ k >= count) THEN << >>
            ELSE IF Truncated(m, b, end) /\ ~dataBytes THEN << >>
            ELSE LET i == Decode(m, b, end) IN <<i>> \o list[b + i.size, k + 1]
    IN list[a, 0]

PreviousInstruction(m, p, a) ==
    LET fits == {len \in 1 .. 2 : len <= a /\ Got(p, a - len, len) = len /\ SizeOf(m[a - len]) = len}
    IN IF fits # {} THEN a - Max(fits) ELSE IF a > 0 THEN a - 1 ELSE a

\* An instruction boundary count instructions before a.
ScrollBack(m, p, a, count) ==
    LET start == IF a > Lookback THEN a - Lookback ELSE 0
        g == Got(p, start, a - start)
        ins == IF g > 0 THEN Disassemble(m, start, start + g, 0, FALSE) ELSE << >>
        step[k \in 0 .. count] ==
            IF k = 0 THEN a ELSE IF step[k - 1] = 0 THEN 0 ELSE PreviousInstruction(m, p, step[k - 1])
    IN IF ~attached \/ count <= 0 THEN a
       ELSE IF ins # << >> THEN ins[Max({1, Len(ins) - count + 1})].addr
       ELSE step[count]

-----------------------------------------------------------------------------
(* Refreshing the panes. *)

HexSize(h) == (VisRows + 1) * h.row
HexRefreshed(h, m, p) ==
    LET n == HexSize(h)
        g == IF attached THEN Got(p, h.base, n) ELSE 0
    IN [h EXCEPT !.cache = [i \in 0 .. n - 1 |-> IF i < g THEN m[h.base + i] ELSE 0],
                 !.got = g,
                 !.sel = IF @ >= n THEN -1 ELSE @,
                 !.anc = IF @ >= n THEN -1 ELSE @]

DisRefreshed(d, m, p) ==
    LET g == Got(p, d.base, (DisRows + ExtraRows) * 2)
    IN [d EXCEPT !.insns = IF attached THEN Disassemble(m, d.base, d.base + g, DisRows + ExtraRows, TRUE) ELSE << >>]

HexAt(a, m, p) == HexRefreshed([hex EXCEPT !.base = a - (a % Align)], m, p)
DisAt(a, m, p) == DisRefreshed([dis EXCEPT !.base = a], m, p)

\* Both panes and the address bar go to a.
SyncViews(a) == cur' = a /\ dis' = DisAt(a, mem, prot) /\ hex' = HexAt(a, mem, prot)

NavigateTo(a) ==
    /\ SyncViews(a)
    /\ IF a = cur \/ cur = 0 THEN UNCHANGED <<back, fwd>>
       ELSE back' = Append(back, cur) /\ fwd' = << >>

\* onRefresh(): the timer, and the end of every patch.
RefreshWith(m, p) == hex' = HexRefreshed(hex, m, p) /\ dis' = DisRefreshed(dis, m, p)

-----------------------------------------------------------------------------
(* The hex pane. *)

Idle == menu = NoMenu
Unedited == UNCHANGED <<attached, mem, prot, last, menu, writes>>
HexOnly == Unedited /\ UNCHANGED <<dis, history>>

SelRange(h) == IF h.anc < 0 THEN [lo |-> h.sel, hi |-> h.sel]
               ELSE [lo |-> Min({h.anc, h.sel}), hi |-> Max({h.anc, h.sel})]

MousePress(off, shift, ascii) ==
    /\ Idle /\ off \in DOMAIN hex.cache
    /\ hex' = [hex EXCEPT !.anc = IF shift /\ hex.sel >= 0 THEN hex.sel ELSE -1,
                          !.sel = off, !.nib = 0, !.ascii = ascii]
    /\ HexOnly

MouseMove(off) ==
    /\ Idle /\ off \in DOMAIN hex.cache /\ off # hex.sel
    /\ hex' = [hex EXCEPT !.anc = IF @ < 0 THEN hex.sel ELSE @, !.sel = off, !.nib = 0]
    /\ HexOnly

Signed(d) == IF d % N >= N \div 2 THEN (d % N) - N ELSE d % N

\* The window moved from old to h.base: move the offsets the other way, or drop them.
KeepSelectionAnchored(h, old) ==
    LET delta == Signed(h.base - old)
        sel == h.sel - delta
        anc == IF h.anc >= 0 THEN h.anc - delta ELSE -1
        Off(o) == o < 0 \/ o >= VisRows * h.row
    IN IF h.sel < 0 THEN h
       ELSE IF Off(sel) \/ (anc >= 0 /\ Off(anc)) THEN [h EXCEPT !.sel = -1, !.anc = -1]
       ELSE [h EXCEPT !.sel = sel, !.anc = anc]

HexMovedTo(a) == hex' = HexRefreshed(KeepSelectionAnchored([hex EXCEPT !.base = a], hex.base), mem, prot)

\* Up: clamp at 0 and only onto mapped memory.  Down: no check.
ScrollHexRows(rows) ==
    /\ Idle /\ rows # 0 /\ HexOnly
    /\ LET step == rows * hex.row
           up == IF hex.base > -step THEN hex.base + step ELSE 0
       IN HexMovedTo(IF rows > 0 THEN (hex.base + step) % N
                     ELSE IF attached /\ up # hex.base /\ ~Readable(prot, up) THEN hex.base ELSE up)

\* The scroll bar maps the readable memory of the first refresh, gaps removed, onto ScrollSteps.
FlatMem == [k \in 0 .. Cardinality({a \in Addr : Readable(InitProt, a)}) |->
              LET S == {a \in Addr : Readable(InitProt, a)}
                  from == {a \in S : Cardinality({b \in S : b < a}) >= k}
              IN IF from = {} THEN Max(S) + 1 ELSE Min(from)]
FlatValueToAddr(v) == FlatMem[(v * Max(DOMAIN FlatMem)) \div ScrollSteps]

DragHexBar(v) ==
    /\ Idle /\ HexOnly
    /\ LET a == FlatValueToAddr(v) IN a - (a % hex.row) # hex.base /\ HexMovedTo(a - (a % hex.row))

SetBytesPerRow(r) ==
    /\ Idle /\ hex' = HexRefreshed([hex EXCEPT !.row = r, !.sel = -1, !.anc = -1], mem, prot) /\ HexOnly

SelectAllBytes ==
    /\ Idle
    /\ hex' = [hex EXCEPT !.anc = 0, !.sel = IF hex.got > 0 THEN hex.got - 1 ELSE HexSize(hex) - 1]
    /\ HexOnly

\* Left, Right, Home, End move the cursor; Shift keeps or starts a range.
MoveCursor(key, shift) ==
    LET rowStart == (hex.sel \div hex.row) * hex.row
        to == CASE key = "left" -> hex.sel - 1
                [] key = "right" -> IF hex.sel + 1 < HexSize(hex) THEN hex.sel + 1 ELSE -1
                [] key = "home" -> rowStart
                [] key = "end" -> Min({rowStart + hex.row - 1, HexSize(hex) - 1})
    IN /\ Idle
       /\ hex' = IF hex.sel >= 0 /\ to >= 0
                 THEN [hex EXCEPT !.sel = to, !.nib = 0, !.anc = IF ~shift THEN -1 ELSE IF @ < 0 THEN hex.sel ELSE @]
                 ELSE [hex EXCEPT !.anc = IF shift THEN @ ELSE -1]
       /\ HexOnly

\* Up, Down, PageUp, PageDown move the window: no clamp, and the selection keeps its offset.
MoveWindow(rows) ==
    /\ Idle
    /\ hex' = HexRefreshed([hex EXCEPT !.base = (@ + rows * hex.row) % N, !.anc = -1, !.nib = 0], mem, prot)
    /\ HexOnly

Edited(w) == mem' = w.mem /\ prot' = w.prot /\ writes' = writes + 1
HexTarget == (hex.base + hex.sel) % N

\* A hex digit replaces one digit of the byte the pane shows, then moves on.
TypeDigit(d) ==
    LET shown == hex.cache[hex.sel]
        b == IF hex.nib = 0 THEN 2 * d + (shown % 2) ELSE 2 * (shown \div 2) + d
        w == PokeByte(mem, prot, HexTarget, b)
        next == IF hex.nib = 1 /\ hex.sel + 1 < HexSize(hex) THEN hex.sel + 1 ELSE hex.sel
    IN /\ Idle /\ attached /\ writes < MaxWrites
       /\ ~hex.ascii /\ hex.sel \in DOMAIN hex.cache
       /\ Edited(w)
       /\ hex' = IF w.ok THEN [hex EXCEPT !.anc = -1, !.cache[hex.sel] = b, !.nib = 1 - @, !.sel = next] ELSE hex
       /\ UNCHANGED <<attached, last, menu, dis, history>>

\* In the text column a character replaces the byte.
TypeChar(b) ==
    LET w == PokeByte(mem, prot, HexTarget, b)
    IN /\ Idle /\ attached /\ writes < MaxWrites
       /\ hex.ascii /\ hex.sel \in DOMAIN hex.cache
       /\ Edited(w)
       /\ hex' = IF w.ok THEN [hex EXCEPT !.anc = -1, !.cache[hex.sel] = b,
                                          !.sel = IF @ + 1 < HexSize(hex) THEN @ + 1 ELSE @] ELSE hex
       /\ UNCHANGED <<attached, last, menu, dis, history>>

\* Poke byte after byte; -1 leaves the byte alone, a byte that fails is skipped.
PokeAll(a, bytes) ==
    FoldSeq(LAMBDA i, w : IF bytes[i] < 0 THEN w ELSE PokeByte(w.mem, w.prot, (a + i - 1) % N, bytes[i]),
            [mem |-> mem, prot |-> prot, ok |-> TRUE], [i \in DOMAIN bytes |-> i])

PasteBytes(pat) ==
    LET w == PokeAll((hex.base + Max({hex.sel, 0})) % N, pat)
    IN attached /\ writes < MaxWrites /\ Edited(w) /\ hex' = HexRefreshed(hex, w.mem, w.prot)

\* Fills the selection of now, not the one the menu was opened on.
FillSelection(b) ==
    LET s == SelRange(hex)
        w == PokeAll((hex.base + s.lo) % N, [i \in 1 .. s.hi - s.lo + 1 |-> b])
    IN /\ attached /\ writes < MaxWrites /\ hex.sel >= 0 /\ s.hi > s.lo
       /\ Edited(w) /\ hex' = HexRefreshed(hex, w.mem, w.prot)

PasteKey(pat) == Idle /\ PasteBytes(pat) /\ UNCHANGED <<attached, last, menu, dis, history>>

\* Right click: the address is captured before the menu's event loop runs.
OpenHexMenu(off) ==
    LET s == SelRange(hex)
        h == IF off < 0 \/ (hex.sel >= 0 /\ s.lo <= off /\ off <= s.hi) THEN hex
             ELSE [hex EXCEPT !.anc = -1, !.sel = off]
    IN /\ Idle /\ off \in {-1} \cup DOMAIN hex.cache
       /\ hex' = h
       /\ menu' = [kind |-> "hex", addr |-> (h.base + Max({h.sel, 0})) % N, insns |-> << >>]
       /\ UNCHANGED <<attached, mem, prot, last, writes, dis, history>>

\* pointerAt(): a pointer is one byte here; 0 when it cannot be read.
PointerAt(a) == IF attached /\ Readable(prot, a) THEN 2 * mem[a] ELSE 0

PickHex ==
    /\ menu.kind = "hex" /\ menu' = NoMenu
    /\ \/ NavigateTo(menu.addr) /\ UNCHANGED <<mem, prot, writes>>
       \/ PointerAt(menu.addr) # 0 /\ NavigateTo(PointerAt(menu.addr)) /\ UNCHANGED <<mem, prot, writes>>
       \/ \E b \in FillBytes : FillSelection(b) /\ UNCHANGED <<dis, history>>
       \/ \E pat \in Patterns : PasteBytes(pat) /\ UNCHANGED <<dis, history>>
    /\ UNCHANGED <<attached, last>>

-----------------------------------------------------------------------------
(* The disassembly pane. *)

Rows == DOMAIN dis.insns
DisOnly == Unedited /\ UNCHANGED <<hex, history>>
LastVisible == Min({Len(dis.insns), DisRows}) - 1
DisMovedTo(a) == dis' = DisRefreshed([dis EXCEPT !.base = a], mem, prot)

\* Rows count from 0.  Only the visible ones are searched.
RowOfAddress(d, a) ==
    LET hits == {i \in 0 .. Min({Len(d.insns), DisRows}) - 1 : d.insns[i + 1].addr = a}
    IN IF hits = {} THEN -1 ELSE Min(hits)
AddressOfRow(d, i) == IF i >= 0 /\ i < Len(d.insns) THEN d.insns[i + 1].addr ELSE 0

\* After a scroll the selection goes to the rows of its addresses.
Reanchored(d, sel, anc) ==
    LET row == RowOfAddress(d, sel)
    IN IF sel = 0 THEN d
       ELSE [d EXCEPT !.row = row, !.anc = IF row >= 0 /\ anc # 0 THEN RowOfAddress(d, anc) ELSE -1]

\* Region-safe upwards, one decoded instruction after the other downwards.
ScrollTarget(rows) ==
    LET up == ScrollBack(mem, prot, dis.base, -rows)
        steps == Min({Len(dis.insns) - 1, rows})
    IN IF rows < 0 THEN (IF up # dis.base /\ attached /\ Readable(prot, up) THEN up ELSE dis.base)
       ELSE IF dis.insns # << >> THEN (IF steps > 0 THEN dis.insns[steps + 1].addr ELSE dis.base)
       ELSE (dis.base + rows * Align) % N

ScrollDisRows(rows) ==
    /\ Idle /\ rows # 0 /\ DisOnly
    /\ dis' = Reanchored(DisRefreshed([dis EXCEPT !.base = ScrollTarget(rows)], mem, prot),
                         AddressOfRow(dis, dis.row), AddressOfRow(dis, dis.anc))

DragDisBar(v) == Idle /\ FlatValueToAddr(v) # dis.base /\ DisMovedTo(FlatValueToAddr(v)) /\ DisOnly

ClickRow(row, shift) ==
    /\ Idle /\ row + 1 \in Rows
    /\ dis' = [dis EXCEPT !.anc = IF ~(shift /\ dis.row >= 0) THEN -1 ELSE IF @ < 0 THEN dis.row ELSE @, !.row = row]
    /\ DisOnly

AnchorFor(shift) == IF ~shift THEN -1 ELSE IF dis.anc < 0 THEN Max({dis.row, 0}) ELSE dis.anc

RowDown(shift) ==
    /\ Idle /\ Rows # {}
    /\ dis' = IF dis.row < 0 THEN [dis EXCEPT !.row = 0, !.anc = -1]
              ELSE IF dis.row < LastVisible THEN [dis EXCEPT !.row = @ + 1, !.anc = AnchorFor(shift)]
              ELSE DisRefreshed([dis EXCEPT !.anc = -1,
                     !.base = IF Len(dis.insns) > 1 THEN dis.insns[2].addr ELSE (@ + 1) % N], mem, prot)
    /\ DisOnly

RowUp(shift) ==
    /\ Idle
    /\ dis' = IF dis.row < 0 THEN [dis EXCEPT !.row = 0, !.anc = -1]
              ELSE IF dis.row > 0 THEN [dis EXCEPT !.row = @ - 1, !.anc = AnchorFor(shift)]
              ELSE DisRefreshed([dis EXCEPT !.anc = -1, !.base = ScrollBack(mem, prot, @, 1)], mem, prot)
    /\ DisOnly

\* PageDown, PageUp, Home, End, Escape, Select All.
RowKey(key, shift) ==
    /\ Idle
    /\ CASE key = "pgdn" -> Rows # {} /\ DisMovedTo(IF Len(dis.insns) > DisRows THEN dis.insns[DisRows].addr ELSE dis.base)
         [] key = "pgup" -> DisMovedTo(ScrollBack(mem, prot, dis.base, DisRows))
         [] key = "home" -> Rows # {} /\ dis' = [dis EXCEPT !.anc = AnchorFor(shift), !.row = 0]
         [] key = "end"  -> Rows # {} /\ dis' = [dis EXCEPT !.anc = AnchorFor(shift), !.row = LastVisible]
         [] key = "esc"  -> dis.anc >= 0 /\ dis' = [dis EXCEPT !.anc = -1]
         [] key = "all"  -> Rows # {} /\ dis' = [dis EXCEPT !.anc = 0, !.row = LastVisible]
    /\ DisOnly

\* Enter or a double click on a jump.
FollowRow(row) ==
    /\ Idle /\ row + 1 \in Rows /\ dis.insns[row + 1].target # 0
    /\ NavigateTo(dis.insns[row + 1].target) /\ Unedited

SelectedInsns(d, row) ==
    LET lo == IF d.anc < 0 THEN d.row ELSE Min({d.anc, d.row})
        hi == IF d.anc < 0 THEN d.row ELSE Max({d.anc, d.row})
    IN IF d.row >= 0 THEN SubSeq(d.insns, lo + 1, Min({hi + 1, Len(d.insns)})) ELSE <<d.insns[row + 1]>>

\* Right click: the instruction and the whole selection are captured by value.
OpenDisMenu(row) ==
    LET lo == IF dis.anc < 0 THEN dis.row ELSE Min({dis.anc, dis.row})
        hi == IF dis.anc < 0 THEN dis.row ELSE Max({dis.anc, dis.row})
        d == IF dis.row >= 0 /\ lo <= row /\ row <= hi THEN dis ELSE [dis EXCEPT !.anc = -1, !.row = row]
    IN /\ Idle /\ row + 1 \in Rows
       /\ dis' = d
       /\ menu' = [kind |-> "dis", addr |-> dis.insns[row + 1].addr, insns |-> SelectedInsns(d, row)]
       /\ UNCHANGED <<attached, mem, prot, last, writes, hex, history>>

\* Every captured instruction becomes NOPs, each with a patch of its own, and writeNop refreshes the
\* panes after each that took; seen is what they last read.
NopOne(v, i) ==
    LET w == Patch(v.mem, v.prot, i.addr, [k \in 1 .. i.size |-> NOP])
    IN [mem |-> w.mem, prot |-> w.prot, seen |-> IF w.ok THEN <<w.mem, w.prot>> ELSE v.seen]
NopMenuTo(insns) ==
    LET w == FoldLeft(NopOne, [mem |-> mem, prot |-> prot, seen |-> << >>], insns)
    IN /\ attached /\ writes < MaxWrites /\ Edited(w)
       /\ IF w.seen = << >> THEN UNCHANGED <<hex, dis>> ELSE RefreshWith(w.seen[1], w.seen[2])
\* Mutant: the rows selected now.
NopSelectedNow == dis.row + 1 \in Rows /\ NopMenuTo(SelectedInsns(dis, dis.row))
NopMenu == NopMenuTo(menu.insns)

\* assembleAt(): a shorter instruction is padded to the captured size, a longer one needs a Yes.
CapturedInsn == CHOOSE i \in Range(menu.insns) : i.addr = menu.addr
AssembleMenu(size) ==
    LET w == Patch(mem, prot, menu.addr, [k \in 1 .. Max({size, CapturedInsn.size}) |-> IF k <= size THEN 0 ELSE NOP])
    IN /\ attached /\ writes < MaxWrites /\ Edited(w)
       /\ IF w.ok THEN RefreshWith(w.mem, w.prot) ELSE UNCHANGED <<hex, dis>>

PickDis ==
    /\ menu.kind = "dis" /\ menu' = NoMenu
    /\ \/ NopMenu /\ UNCHANGED history
       \/ \E size \in 1 .. 2 : AssembleMenu(size) /\ UNCHANGED history
       \/ CapturedInsn.target # 0 /\ NavigateTo(CapturedInsn.target) /\ UNCHANGED <<mem, prot, writes>>
    /\ UNCHANGED <<attached, last>>

CancelMenu == menu # NoMenu /\ menu' = NoMenu /\ UNCHANGED <<attached, mem, prot, hex, dis, history, last, writes>>

-----------------------------------------------------------------------------
(* The window. *)

GotoAddress(a) == Idle /\ NavigateTo(a) /\ Unedited

GoBack ==
    /\ Idle /\ back # << >> /\ SyncViews(Last(back))
    /\ back' = Front(back) /\ fwd' = Append(fwd, cur) /\ Unedited

GoForward ==
    /\ Idle /\ fwd # << >> /\ SyncViews(Last(fwd))
    /\ fwd' = Front(fwd) /\ back' = Append(back, cur) /\ Unedited

\* A reference picked in the cross-reference dialog moves the panes only.
PickXref(a) == Idle /\ dis' = DisAt(a, mem, prot) /\ hex' = HexAt(a, mem, prot) /\ Unedited /\ UNCHANGED history

Matches(m, a, pat) == \A i \in DOMAIN pat : pat[i] < 0 \/ m[a + i - 1] = pat[i]

\* The matches of one region, read in chunks that overlap.
RegionMatches(r, pat, overlap) ==
    LET hits[pos \in 0 .. N] ==
            LET want == Min({Chunk, r.end - pos})
                g == Got(prot, pos, want)
                here == {a \in pos .. pos + g - Len(pat) : Matches(mem, a, pat)}
            IN IF g < want \/ pos + want >= r.end THEN here
               ELSE here \cup hits[pos + IF want > overlap THEN want - overlap ELSE want]
    IN hits[r.base]

\* Forward: the first match from start on.  Backward: the last one below it.  0: none.
SearchWith(pat, start, inclusive, backward, overlap) ==
    LET all == UNION {RegionMatches(r, pat, overlap) :
                      r \in {s \in ReadableRegions(prot) : IF backward THEN s.base < start ELSE s.end > start}}
        wanted == {a \in all : IF backward THEN a < start ELSE IF inclusive THEN a >= start ELSE a > start}
    IN IF wanted = {} THEN 0 ELSE IF backward THEN Max(wanted) ELSE Min(wanted)
\* Mutant: the chunks do not overlap.
SearchNoOverlap(pat, start, inclusive, backward) == SearchWith(pat, start, inclusive, backward, 0)
SearchMemory(pat, start, inclusive, backward) == SearchWith(pat, start, inclusive, backward, Len(pat) - 1)

SelectBytes(h, a, len) ==
    IF a < h.base THEN h ELSE [h EXCEPT !.anc = a - h.base, !.sel = a - h.base + len - 1, !.nib = 0]

\* Find (a new pattern), Find Next and Find Previous (the last one).
FindInMemory(pat, next, backward) ==
    /\ Idle /\ attached
    /\ last' = pat /\ UNCHANGED <<attached, mem, prot, menu, writes>>
    /\ LET hit == SearchMemory(pat, cur, ~next, backward)
       IN IF hit = 0 THEN UNCHANGED <<hex, dis, history>>
          ELSE /\ cur' = hit /\ dis' = DisAt(hit, mem, prot)
               /\ hex' = SelectBytes(HexAt(hit, mem, prot), hit, Len(pat))
               /\ IF hit = cur \/ cur = 0 THEN UNCHANGED <<back, fwd>> ELSE back' = Append(back, cur) /\ fwd' = << >>
Find(pat) == FindInMemory(pat, FALSE, FALSE)
FindAgain(backward) == \E pat \in (IF last = << >> THEN Patterns ELSE {last}) : FindInMemory(pat, TRUE, backward)

-----------------------------------------------------------------------------
(* What goes on by itself, under an open menu too. *)

OnRefresh == RefreshWith(mem, prot) /\ UNCHANGED <<attached, mem, prot, history, last, menu, writes>>

\* The debugger stops: the viewer follows, outside the history.
ShowCurrentInstruction(rip) == attached /\ rip # cur /\ SyncViews(rip) /\ UNCHANGED <<attached, mem, prot, back, fwd, last, menu, writes>>

DetachFromTarget == attached /\ attached' = FALSE /\ UNCHANGED <<mem, prot, hex, dis, history, last, menu, writes>>

TargetStore(w) ==
    /\ attached /\ writes < MaxWrites /\ mem' = [mem EXCEPT ![w.addr] = w.byte] /\ writes' = writes + 1
    /\ UNCHANGED <<attached, prot, hex, dis, history, last, menu>>

\* The constructor goes to the first executable region.
Init ==
    /\ attached = TRUE /\ mem = InitMem /\ prot = InitProt /\ writes = 0
    /\ cur = Min({a \in Addr : Readable(InitProt, a)}) /\ back = << >> /\ fwd = << >> /\ last = << >> /\ menu = NoMenu
    /\ hex = HexRefreshed([base |-> cur - (cur % Align), row |-> Max(RowSizes), sel |-> -1, anc |-> -1, nib |-> 0,
                           ascii |-> FALSE, cache |-> << >>, got |-> 0], mem, prot)
    /\ dis = DisRefreshed([base |-> cur, insns |-> << >>, row |-> -1, anc |-> -1], mem, prot)

HexNext ==
    \/ \E off \in DOMAIN hex.cache, shift, ascii \in BOOLEAN : MousePress(off, shift, ascii)
    \/ \E off \in DOMAIN hex.cache : MouseMove(off)
    \/ \E rows \in {-Notch, Notch} : ScrollHexRows(rows)
    \/ \E v \in 0 .. ScrollSteps : DragHexBar(v)
    \/ \E r \in RowSizes : SetBytesPerRow(r)
    \/ SelectAllBytes
    \/ \E key \in {"left", "right", "home", "end"}, shift \in BOOLEAN : MoveCursor(key, shift)
    \/ \E rows \in {-1, 1, -VisRows, VisRows} : MoveWindow(rows)
    \/ \E d \in {0, 1} : TypeDigit(d)
    \/ \E b \in FillBytes : TypeChar(b)
    \/ \E pat \in Patterns : PasteKey(pat)
    \/ \E off \in {-1} \cup DOMAIN hex.cache : OpenHexMenu(off)
    \/ PickHex

DisNext ==
    \/ \E rows \in {-Notch, Notch} : ScrollDisRows(rows)
    \/ \E v \in 0 .. ScrollSteps : DragDisBar(v)
    \/ \E row \in 0 .. Len(dis.insns) - 1, shift \in BOOLEAN : ClickRow(row, shift)
    \/ \E shift \in BOOLEAN : RowDown(shift)
    \/ \E shift \in BOOLEAN : RowUp(shift)
    \/ \E key \in {"pgdn", "pgup", "home", "end", "esc", "all"}, shift \in BOOLEAN : RowKey(key, shift)
    \/ \E row \in 0 .. Len(dis.insns) - 1 : FollowRow(row)
    \/ \E row \in 0 .. Len(dis.insns) - 1 : OpenDisMenu(row)
    \/ PickDis

Next ==
    \/ HexNext
    \/ DisNext
    \/ CancelMenu
    \/ \E a \in GotoTargets : GotoAddress(a)
    \/ GoBack
    \/ GoForward
    \/ \E a \in GotoTargets : PickXref(a)
    \/ \E pat \in Patterns : Find(pat)
    \/ \E backward \in BOOLEAN : FindAgain(backward)
    \/ OnRefresh
    \/ \E rip \in Rips : ShowCurrentInstruction(rip)
    \/ DetachFromTarget
    \/ \E w \in TargetWrites : TargetStore(w)

Spec == Init /\ [][Next]_vars

\* Bound: a short history, and few parts of the viewer in use at a time.
FoundSelection == last # << >> /\ hex.anc >= 0 /\ hex.base + hex.anc = cur
InUse == <<hex.sel >= 0 /\ ~FoundSelection, dis.row >= 0, hex.base # cur - (cur % Align), dis.base # cur,
           back # << >> \/ fwd # << >> \/ last # << >>, menu # NoMenu, hex.row # Max(RowSizes), hex.ascii, ~attached, writes > 0>>
FewInUse == Len(back) + Len(fwd) <= MaxHistory /\ Cardinality({i \in DOMAIN InUse : InUse[i]}) <= MaxInUse

-----------------------------------------------------------------------------
(* Properties. *)

\* Where pat occurs inside one readable region, on the side of the current address searched.
Occurrences(pat, next, backward) ==
    {a \in Addr : /\ \E r \in ReadableRegions(prot) : r.base <= a /\ a + Len(pat) <= r.end
                  /\ Matches(mem, a, pat)
                  /\ IF backward THEN a < cur ELSE IF next THEN a > cur ELSE a >= cur}

ShowsExactly(pat, next, backward) ==
    LET S == Occurrences(pat, next, backward)
        hit == IF backward THEN Max(S) ELSE Min(S)
    IN IF S = {} THEN UNCHANGED <<cur, hex, dis>>
       ELSE cur' = hit /\ hex'.base + hex'.anc = hit /\ hex'.base + hex'.sel = hit + Len(pat) - 1

\* A step that may be a Find of a new pattern, or one that goes elsewhere.
LooksFound == /\ last' # << >> /\ (cur' # cur \/ last' # last)
              /\ UNCHANGED <<cur, hex, dis>> \/ (hex'.anc >= 0 /\ hex'.sel = hex'.anc + Len(last') - 1)

\* A search that reads regions in overlapping chunks finds exactly the nearest
\* match that lies inside one readable region, wherever the chunk boundaries
\* fall and whatever was patched or reprotected before, and the hex pane
\* then highlights the bytes of the match and no others.
FindExact ==
    [][LooksFound => \A next, backward \in BOOLEAN :
         FindInMemory(last', next, backward) => ShowsExactly(last', next, backward)]_vars

CapturedBytes == UNION {i.addr .. i.addr + i.size - 1 : i \in Range(menu.insns)} \cup {menu.addr, menu.addr + 1}

\* What a disassembly menu writes goes to the instructions that were under it
\* when it opened (a longer assembled instruction may run on), although the
\* timer, the target and a debugger stop change the pane while it is open.
MenuActsOnCapture ==
    [][menu.kind = "dis" /\ menu' = NoMenu => {a \in Addr : mem'[a] # mem[a]} \subseteq CapturedBytes]_vars
==========================================================================
