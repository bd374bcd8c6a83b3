--------------------------- MODULE AutoAssembler ---------------------------
(***************************************************************************)
(* Enabling and disabling auto-assembler records (AutoAssembler::execute   *)
(* and ::disable, and AddressListModel::setEntryActive that calls them).   *)
(* One AutoAssembler object serves all records, so its symbol table and    *)
(* its table of allocations are shared; what a record needs to be disabled *)
(* is in its own DisableInfo.  execute is a sequence of steps, one per     *)
(* allocation, line and thread, each of which may fail in the target.      *)
(***************************************************************************)
EXTENDS AaScript

CONSTANTS Scripts,     \* record -> its script
          Caves,       \* where an allocation may land
          CaveSize,
          InitMem,     \* the target's memory: cell -> byte, Unmapped in the caves
          ReadOnly     \* cells whose page is not writable

VARIABLES mem,      \* the target's memory
          ro,       \* cells of read-only pages
          sym,      \* globalSymbols_, 0: absent
          known,    \* knownAllocations_: name -> address, 0: absent
          recs,     \* per record: active and autoAsmDisableInfo
          ex,       \* the execution in progress
          dirty,    \* ghost: a failed execution was not undone, or two active
                    \* records patched one cell and the older was disabled first
          leaked    \* ghost: blocks whose free the target refused: still mapped,
                    \* struck from every table

vars == <<mem, ro, sym, known, recs, ex, dirty, leaked>>

Records == DOMAIN Scripts
NoInfo == [originals |-> <<>>, allocs |-> <<>>, symbols |-> {}]
Idle == [phase |-> "idle", rec |-> "", env |-> NoEnv, i |-> 0, at |-> 0, info |-> NoInfo,
         threads |-> <<>>, sized |-> <<>>]

Init == /\ mem = InitMem /\ ro = ReadOnly
        /\ sym = [n \in Names |-> 0] /\ known = [n \in Names |-> 0]
        /\ recs = [r \in Records |-> [active |-> FALSE, info |-> NoInfo]]
        /\ ex = Idle /\ dirty = FALSE /\ leaked = {}

Block(c) == c..(c + CaveSize - 1)
Allocated == {c \in Caves : mem[c] # Unmapped}
Unmap(m, addrs) == [a \in DOMAIN m |-> IF \E b \in addrs : a \in Block(b) THEN Unmapped ELSE m[a]]

(* Module bases become symbols at every execute and disable.               *)
SeedModules(s) == [n \in Names |-> IF n \in DOMAIN Modules THEN Modules[n].base ELSE s[n]]

Writable(m, p, bytes) == \A k \in 1..Len(bytes) : p + k - 1 \in DOMAIN m /\ m[p + k - 1] # Unmapped
Written(m, p, bytes) ==
    [a \in DOMAIN m |-> IF a \in p..(p + Len(bytes) - 1) THEN bytes[a - p + 1] ELSE m[a]]

(* Original bytes back, newest first; a write the target refuses is        *)
(* ignored.                                                                *)
WriteBackOldestFirst(m, originals) ==
    FoldLeft(LAMBDA acc, o : IF Writable(acc, o.addr, o.bytes) /\ \A k \in 1..Len(o.bytes) : o.addr + k - 1 \notin ro
                                THEN Written(acc, o.addr, o.bytes) ELSE acc, m, originals)
WriteBack(m, originals) ==
    FoldRight(LAMBDA o, acc : IF Writable(acc, o.addr, o.bytes) /\ \A k \in 1..Len(o.bytes) : o.addr + k - 1 \notin ro
                                THEN Written(acc, o.addr, o.bytes) ELSE acc, originals, m)
Forget(k, allocs) ==
    [n \in Names |-> IF \E i \in DOMAIN allocs : allocs[i].name = n /\ allocs[i].addr = k[n] THEN 0 ELSE k[n]]
AllocAddrs(allocs) == {allocs[i].addr : i \in DOMAIN allocs}

(* `return result` in the middle of execute: nothing is undone.            *)
Fail(info) ==
    /\ ex' = Idle
    /\ dirty' = (dirty \/ info.originals # <<>> \/ info.allocs # <<>>)
    /\ UNCHANGED <<recs, leaked>>

(* Both undoings free with proc.free, which the target may refuse for any  *)
(* of the blocks, and look at no result: a block that stays mapped is      *)
(* struck from knownAllocations_ and from the DisableInfo all the same.    *)
RollbackLeaky(info) ==
    /\ mem' = WriteBack(mem, info.originals)
    /\ known' = Forget(known, info.allocs)
    /\ ex' = Idle
    /\ UNCHANGED <<ro, sym, recs, dirty, leaked>>

Free(info) ==
    \E freed \in SUBSET AllocAddrs(info.allocs) :
       /\ mem' = Unmap(WriteBack(mem, info.originals), freed)
       /\ leaked' = leaked \cup (AllocAddrs(info.allocs) \ freed)
       /\ known' = Forget(known, info.allocs)

Rollback(info) ==
    /\ Free(info)
    /\ ex' = Idle
    /\ UNCHANGED <<ro, sym, recs, dirty>>
-----------------------------------------------------------------------------
(* setEntryActive(row, true) reaches execute: preprocess and parse.        *)
Begin(r) ==
    LET pre == PreprocessScript(ExtractSection(Scripts[r], "[ENABLE]"), TRUE)
        env == ParseLines(NoEnv, SeedModules(sym), mem, TRUE, pre.lines, 0)
    IN /\ ex.phase = "idle" /\ ~recs[r].active
       /\ sym' = SeedModules(sym)
       /\ ex' = IF pre.ok /\ env.ok THEN [Idle EXCEPT !.phase = "alloc", !.rec = r, !.env = env] ELSE Idle
       /\ UNCHANGED <<mem, ro, known, recs, dirty, leaked>>

(* The next allocation: near the preferred address when there is one.      *)
Allocate ==
    /\ ex.phase = "alloc" /\ ex.i < Len(ex.env.allocs)
    /\ LET a == ex.env.allocs[ex.i + 1]
           near == ResolveAddress(ex.env, sym, a.near)
           free == {c \in Caves : mem[c] = Unmapped}
           dist(c) == IF c > near THEN c - near ELSE near - c
           c == CHOOSE x \in free : \A y \in free : dist(x) =< dist(y)
       IN \/ /\ free # {}
             /\ mem' = [x \in DOMAIN mem |-> IF x \in Block(c) THEN <<"zero", 0>> ELSE mem[x]]
             /\ known' = [known EXCEPT ![a.name] = c]
             /\ ex' = [ex EXCEPT !.i = @ + 1, !.env.allocs[ex.i + 1].addr = c,
                                 !.info.allocs = Append(@, [name |-> a.name, addr |-> c])]
             /\ UNCHANGED <<ro, sym, recs, dirty, leaked>>
          \/ Fail(ex.info) /\ UNCHANGED <<mem, ro, sym, known>>

(* Branch selection and sizing, once every block has its address.          *)
Prepare ==
    LET sel == SelectTryExceptBranches(ex.env.lines, ex.env, sym, mem, TRUE)
        env == ResolveForwardLabels([ex.env EXCEPT !.lines = sel.lines], sym, mem)
    IN /\ ex.phase = "alloc" /\ ex.i = Len(ex.env.allocs)
       /\ IF sel.ok /\ env.ok
            THEN ex' = [ex EXCEPT !.phase = "emit", !.i = 1, !.env = env, !.sized = env.labels]
                 /\ UNCHANGED <<recs, dirty, leaked>>
            ELSE Fail(ex.info)
       /\ UNCHANGED <<mem, ro, sym, known>>
-----------------------------------------------------------------------------
(* The lines, one step each *)

At(ops) == ex.phase = "emit" /\ ex.i =< Len(ex.env.lines) /\ ex.env.lines[ex.i].op \in ops
Cur == ex.env.lines[ex.i]
Address == ResolveAddress(ex.env, sym, Cur.x)
NextLine == [ex EXCEPT !.i = @ + 1]
FailHere == Fail(ex.info) /\ UNCHANGED <<mem, ro, sym, known>>

(* The errors for a label or a line without an active address are not     *)
(* repeated here: the sizing pass has walked the same lines and refused.   *)
EmitTarget ==
    /\ At({"at"})
    /\ LET kind == AtLabel(ex.env, sym, Cur)
       IN \/ /\ kind \in {"alloc", "target"}
             /\ ex' = [NextLine EXCEPT !.at = Address]
             /\ UNCHANGED <<mem, ro, sym, known, recs, dirty, leaked>>
          \/ /\ kind = "label"
             /\ ex' = [NextLine EXCEPT !.env = BindLabel(@, Cur.x[1], ex.at)]
             /\ UNCHANGED <<mem, ro, sym, known, recs, dirty, leaked>>
          \/ kind = "unresolved" /\ FailHere

(* Pages are protected as a whole, and never set back.                     *)
EmitFullAccess ==
    /\ At({"fullaccess"})
    /\ \/ /\ Cur.ok /\ Address # 0
          /\ ro' = {} /\ ex' = NextLine /\ UNCHANGED <<mem, sym, known, recs, dirty, leaked>>
       \/ FailHere

EmitAssert ==
    /\ At({"assert"})
    /\ IF AssertHolds(ex.env, sym, mem, Cur)
         THEN ex' = NextLine /\ UNCHANGED <<mem, ro, sym, known, recs, dirty, leaked>>
         ELSE FailHere

EmitUnregister ==
    /\ At({"unregistersymbol"})
    /\ sym' = [sym EXCEPT ![Cur.name] = 0]
    /\ ex' = [NextLine EXCEPT !.info.symbols = @ \ {Cur.name}]
    /\ UNCHANGED <<mem, ro, known, recs, dirty, leaked>>

(* dealloc(name) frees whatever block the shared table has under the name. *)
EmitDealloc ==
    /\ At({"dealloc"})
    /\ \/ /\ known[Cur.name] = 0 /\ ex' = NextLine /\ UNCHANGED <<mem, known, recs, dirty, leaked>>
       \/ /\ known[Cur.name] # 0
          /\ mem' = Unmap(mem, {known[Cur.name]})
          /\ known' = [known EXCEPT ![Cur.name] = 0]
          /\ ex' = [NextLine EXCEPT !.info.allocs = SelectSeq(@, LAMBDA a : a.name # Cur.name)]
          /\ UNCHANGED <<recs, dirty, leaked>>
       \/ known[Cur.name] # 0 /\ Fail(ex.info) /\ UNCHANGED <<mem, known>>
    /\ UNCHANGED <<ro, sym>>

EmitThread ==
    /\ At({"createthread", "createthreadandwait"})
    /\ IF Cur.ok THEN ex' = [NextLine EXCEPT !.threads = Append(@, Cur)] /\ UNCHANGED <<mem, ro, sym, known, recs, dirty, leaked>>
                 ELSE FailHere

(* loadbinary: the original is saved, but a failed write only returns.     *)
EmitLoadBinary ==
    /\ At({"loadbinary"})
    /\ LET data == [i \in 1..Cur.n |-> <<"file", i>>]
           orig == [i \in 1..Cur.n |-> mem[Address + i - 1]]
           saved == [ex.info EXCEPT !.originals = Append(@, [addr |-> Address, bytes |-> orig])]
           readable == Cur.ok /\ Address # 0 /\ Writable(mem, Address, data)
       IN \/ ~readable /\ FailHere
          \/ /\ readable /\ \A i \in 1..Cur.n : Address + i - 1 \notin ro
             /\ mem' = Written(mem, Address, data) /\ ex' = [NextLine EXCEPT !.info = saved]
             /\ UNCHANGED <<ro, sym, known, recs, dirty, leaked>>
          \/ /\ readable /\ \E i \in 1..Cur.n : Address + i - 1 \in ro
             /\ Fail(saved) /\ UNCHANGED <<mem, ro, sym, known>>

(* loadlibrary: dlopen in the target; nothing records it for disable.      *)
EmitLoadLibrary ==
    /\ At({"loadlibrary"})
    /\ \/ Cur.ok /\ ex' = NextLine /\ UNCHANGED <<mem, ro, sym, known, recs, dirty, leaked>>
       \/ FailHere

(* patchMemory: save the original, write; on a refused write make the page *)
(* writable and try once more, else undo everything.                       *)
PatchMemory(addr, bytes, next) ==
    LET orig == [k \in 1..Len(bytes) |-> mem[addr + k - 1]]
        saved == [ex.info EXCEPT !.originals = Append(@, [addr |-> addr, bytes |-> orig])]
        protected == \E k \in 1..Len(bytes) : addr + k - 1 \in ro
    IN IF ~Writable(mem, addr, bytes) THEN Rollback(ex.info)
       ELSE \/ /\ mem' = Written(mem, addr, bytes)
               /\ ro' = IF protected THEN {} ELSE ro
               /\ ex' = [next EXCEPT !.info = saved]
               /\ UNCHANGED <<sym, known, recs, dirty, leaked>>
            \/ protected /\ Rollback(saved)

Advance(bytes) == [NextLine EXCEPT !.at = @ + Len(bytes)]

(* A reassemble whose source cannot be decoded emits nothing.              *)
EmitReassemble ==
    /\ At({"reassemble"})
    /\ LET b == Reassembled(mem, Address, ex.at)
       IN IF b.ok THEN PatchMemory(ex.at, b.bytes, Advance(b.bytes))
                  ELSE ex' = NextLine /\ UNCHANGED <<mem, ro, sym, known, recs, dirty, leaked>>

EmitReadMem ==
    /\ At({"readmem"})
    /\ LET src == [k \in 1..Cur.n |-> IF Address + k - 1 \in DOMAIN mem THEN mem[Address + k - 1] ELSE Unmapped]
       IN IF ~Cur.ok \/ (Address # 0 /\ \E k \in 1..Cur.n : src[k] = Unmapped) THEN FailHere
          ELSE IF Address = 0 \/ Cur.n = 0 THEN ex' = NextLine /\ UNCHANGED <<mem, ro, sym, known, recs, dirty, leaked>>
          ELSE PatchMemory(ex.at, src, Advance(src))

EmitFillMem ==
    /\ At({"fillmem"})
    /\ IF Cur.ok /\ Address # 0 /\ Cur.n > 0
         THEN PatchMemory(Address, [k \in 1..Cur.n |-> Cur.v], NextLine)
         ELSE FailHere

EmitData ==
    /\ At({"nop", "ds", "db"})
    /\ LET d == ParseDataDirective(Cur, SubstituteSymbols(ex.env, Cur.x))
       IN IF d.ok THEN PatchMemory(ex.at, d.bytes, Advance(d.bytes)) ELSE FailHere

(* A line that does not assemble undoes the activation.                    *)
EmitAsm ==
    /\ At({"asm"})
    /\ LET b == Assemble(Cur, SubstituteSymbols(ex.env, Cur.x), ex.at)
       IN IF b.ok THEN PatchMemory(ex.at, b.bytes, Advance(b.bytes)) ELSE Rollback(ex.info)

Emit == \/ EmitTarget \/ EmitFullAccess \/ EmitAssert \/ EmitUnregister \/ EmitDealloc
        \/ EmitThread \/ EmitLoadBinary \/ EmitLoadLibrary \/ EmitReassemble \/ EmitReadMem
        \/ EmitFillMem \/ EmitData \/ EmitAsm
-----------------------------------------------------------------------------
(* The deferred threads, after the last line: each gets a stack in the     *)
(* target; a failure or a timeout returns without undoing anything.        *)
StartThread ==
    /\ ex.phase = "emit" /\ ex.i > Len(ex.env.lines) /\ ex.threads # <<>>
    /\ LET t == Head(ex.threads)
           addr == ResolveAddress(ex.env, sym, t.x)
           free == {c \in Caves : mem[c] = Unmapped}
           c == CHOOSE x \in free : TRUE
           info == [ex.info EXCEPT !.allocs = Append(@, [name |-> "__threadstack", addr |-> c])]
       IN \/ /\ addr # 0 /\ free # {}
             /\ mem' = [x \in DOMAIN mem |-> IF x \in Block(c) THEN <<"stack", 0>> ELSE mem[x]]
             /\ \/ ex' = [ex EXCEPT !.threads = Tail(@), !.info = info] /\ UNCHANGED <<recs, dirty, leaked>>
                \/ t.op = "createthreadandwait" /\ Fail(info)
          \/ Fail(ex.info) /\ UNCHANGED mem
    /\ UNCHANGED <<ro, sym, known>>

(* Phase 4, and setEntryActive's bookkeeping.                              *)
Registered == {n \in {ex.env.regs[i] : i \in DOMAIN ex.env.regs} : ResolveAddress(ex.env, sym, <<n, 0>>) # 0}
Finish ==
    /\ ex.phase = "emit" /\ ex.i > Len(ex.env.lines) /\ ex.threads = <<>>
    /\ sym' = [n \in Names |-> IF n \in Registered THEN ResolveAddress(ex.env, sym, <<n, 0>>) ELSE sym[n]]
    /\ recs' = [recs EXCEPT ![ex.rec] = [active |-> TRUE,
                                         info |-> [ex.info EXCEPT !.symbols = @ \cup Registered]]]
    /\ ex' = Idle
    /\ UNCHANGED <<mem, ro, known, dirty, leaked>>

Patched(info) == UNION {o.addr..(o.addr + Len(o.bytes) - 1) : o \in {info.originals[i] : i \in DOMAIN info.originals}}

(* setEntryActive(row, false): disable undoes what DisableInfo lists; the  *)
(* script's [DISABLE] section is not run.                                  *)
Disable(r) ==
    LET info == recs[r].info
    IN /\ ex.phase = "idle" /\ recs[r].active
       /\ Free(info)
       /\ sym' = [n \in Names |-> IF n \in info.symbols THEN 0 ELSE SeedModules(sym)[n]]
       /\ recs' = [recs EXCEPT ![r] = [active |-> FALSE, info |-> NoInfo]]
       /\ dirty' = (dirty \/ \E q \in Records \ {r} : recs[q].active /\ Patched(recs[q].info) \cap Patched(info) # {})
       /\ UNCHANGED <<ro, ex>>

Next == \/ \E r \in Records : Begin(r) \/ Disable(r)
        \/ Allocate \/ Prepare \/ Emit \/ StartThread \/ Finish

Spec == Init /\ [][Next]_vars
-----------------------------------------------------------------------------
(* Disabling undoes enabling: when every record is off, after any number   *)
(* of activations that succeeded or were rolled back, in any order of      *)
(* disabling that does not cross overlapping patches, the target has its   *)
(* original bytes outside the blocks it refused to free, no symbol but the *)
(* modules' and no tracked block.                                          *)
Restored ==
    (ex.phase = "idle" /\ ~dirty /\ \A r \in Records : ~recs[r].active)
      => /\ \A a \in DOMAIN mem : mem[a] = InitMem[a] \/ \E b \in leaked : a \in Block(b)
         /\ \A n \in Names : known[n] = 0 /\ (sym[n] # 0 => n \in DOMAIN Modules)

(* Every block has one owner, or the target refused to free it: as long as *)
(* no failure left something behind, the blocks mapped in the target are   *)
(* those some active record or the running execution will free, each of    *)
(* them once, and those whose free was refused, which nobody owns.         *)
CavesOwned ==
    LET owned(r) == AllocAddrs(recs[r].info.allocs)
        owners == UNION {owned(r) : r \in Records}
        running == AllocAddrs(ex.info.allocs)
    IN ~dirty => /\ Allocated = running \cup owners \cup leaked
                 /\ running \cap owners = {} /\ leaked \cap (running \cup owners) = {}
                 /\ \A r, q \in Records : r # q => owned(r) \cap owned(q) = {}

(* The two passes agree: once every line is emitted each label is bound    *)
(* where the sizing pass, whose addresses the emitted jumps use, put it.   *)
LabelsAgree ==
    (ex.phase = "emit" /\ ex.i > Len(ex.env.lines)) => ex.env.labels = ex.sized

=============================================================================
