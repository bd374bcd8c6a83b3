------------------------------ MODULE AaScript ------------------------------
(***************************************************************************)
(* The auto assembler as functions of a script and of the target's memory  *)
(* (core/autoasm.cpp): preprocessing, parsing, branch selection, symbol    *)
(* resolution and the sizing passes.  A script is a sequence of lines; a   *)
(* line is a record with the directive, its name operand, an address       *)
(* expression <<name, offset>>, a number, a byte pattern, whether its      *)
(* arguments are well formed (or its file, callback or compiler succeeds)  *)
(* and, for blocks, the lines it expands to.  A memory cell is a pair: an  *)
(* instruction with its target, a data value, or Unmapped.                 *)
(***************************************************************************)
EXTENDS Integers, Sequences, FiniteSets, SequencesExt

CONSTANTS Names,      \* every name a script may mention
          Modules,    \* loaded modules: name -> [base, size]
          Addresses   \* the cells of the target the scripts may touch

NearRange == 2        \* reach of a short jump
MaxPasses == 8        \* resolveForwardLabels, maxPasses
MaxIncludeDepth == 16 \* parseLine, kMaxIncludeDepth
AnonNames == <<"__anon_0", "__anon_1">>

Unmapped == <<"none", 0>>
Line(op, name, x, n, v, ok, sub) ==
    [op |-> op, name |-> name, x |-> x, n |-> n, v |-> v, ok |-> ok, sub |-> sub]
NoRef == <<"", 0>>

Code(ok, lines) == [ok |-> ok, lines |-> lines]
-----------------------------------------------------------------------------
(* The preprocessing chain *)

(* extractSection, and execute's fallback to the whole script *)
ExtractSection(script, section) ==
    LET first == SelectInSeq(script, LAMBDA l : l.op = section)
        rest  == SubSeq(script, first + 1, Len(script))
        last  == SelectInSeq(rest, LAMBDA l : l.op \in {"[ENABLE]", "[DISABLE]"})
        body  == IF last = 0 THEN rest ELSE SubSeq(rest, 1, last - 1)
    IN IF first = 0 \/ body = <<>> THEN script ELSE body

(* A {$ccode} block becomes the bytes of the compiled function, a {$lua}   *)
(* block whatever text its evaluation returns.                             *)
CompileCCodeBlock(l) == Code(l.ok, l.sub)

ExpandLuaBlocks(code) ==
    LET out(l) == IF l.op = "ccode" THEN CompileCCodeBlock(l).lines
                  ELSE IF l.op = "lua" THEN l.sub ELSE <<l>>
    IN Code(\A i \in DOMAIN code : code[i].op \in {"lua", "ccode"} => code[i].ok,
            FlattenSeq([i \in DOMAIN code |-> out(code[i])]))

(* {$if}: n = 1 is a condition that evaluates to true.  A nested {$if}, a  *)
(* missing {$endif} and a failing evaluation are errors.                   *)
ExpandConditionalBlocks(code) ==
    LET step(acc, l) ==
          CASE l.op = "if" ->
                 [acc EXCEPT !.ok = acc.ok /\ acc.in = "no" /\ l.ok,
                             !.in = IF l.n = 1 THEN "keep" ELSE "drop"]
            [] l.op = "else" /\ acc.in # "no" /\ ~acc.other ->
                 [acc EXCEPT !.in = IF acc.in = "keep" THEN "drop" ELSE "keep",
                             !.other = TRUE]
            [] l.op = "endif" /\ acc.in # "no" ->
                 [acc EXCEPT !.in = "no", !.other = FALSE]
            [] acc.in = "drop" -> acc
            [] OTHER -> [acc EXCEPT !.out = Append(@, l)]
        end == FoldLeft(step, [ok |-> TRUE, in |-> "no", other |-> FALSE, out |-> <<>>], code)
    IN Code(end.ok /\ end.in = "no", end.out)

LabelLines(names) == [i \in DOMAIN names |-> Line("label", names[i], NoRef, 0, Unmapped, TRUE, <<>>)]

(* The anonymous label a reference at line i means: @f the next @@: below, *)
(* @b the last one above; 0 when there is none.                            *)
AnonTarget(code, i, dir) ==
    LET at  == {j \in DOMAIN code : code[j].op = "@@"}
        hit == IF dir = "@f" THEN {j \in at : j > i /\ \A k \in at : k > i => k >= j}
                             ELSE {j \in at : j < i /\ \A k \in at : k < i => k =< j}
    IN IF hit = {} THEN 0
       ELSE Cardinality({j \in at : j =< CHOOSE h \in hit : TRUE})

ResolveAnonymousLabels(code) ==
    LET ref(i)  == code[i].x[1] \in {"@f", "@b"}
        number(i) == Cardinality({j \in 1..i : code[j].op = "@@"})
        line(i) == IF code[i].op = "@@" THEN [code[i] EXCEPT !.op = "at", !.x = <<AnonNames[number(i)], 0>>]
                   ELSE IF ref(i) /\ AnonTarget(code, i, code[i].x[1]) # 0
                        THEN [code[i] EXCEPT !.x[1] = AnonNames[AnonTarget(code, i, code[i].x[1])]]
                        ELSE code[i]
    IN Code(\A i \in DOMAIN code : ref(i) => AnonTarget(code, i, code[i].x[1]) # 0,
            LabelLines(SubSeq(AnonNames, 1, number(Len(code)))) \o [i \in DOMAIN code |-> line(i)])

Declaring == {"alloc", "globalalloc", "kalloc", "define", "registersymbol", "label",
              "aobscan", "aobscanall", "aobscanmodule", "aobscanregion"}

(* Every identifier defined as "name:" and declared nowhere gets label()   *)
(* (a module's name has a dot and is no identifier).                       *)
AutoDeclareNamedLabels(code) ==
    LET declared == {code[i].name : i \in {j \in DOMAIN code : code[j].op \in Declaring}}
        defined  == SelectSeq(code, LAMBDA l : /\ l.op = "at" /\ l.x[2] = 0
                                               /\ l.x[1] \notin declared \cup {AnonNames[i] : i \in DOMAIN AnonNames}
                                               /\ l.x[1] \notin {""} \cup DOMAIN Modules)
        names    == [i \in DOMAIN defined |-> defined[i].x[1]]
        firsts   == SelectSeq([i \in DOMAIN names |-> i],
                              LAMBDA i : \A j \in 1..(i - 1) : names[j] # names[i])
    IN LabelLines([k \in DOMAIN firsts |-> names[firsts[k]]]) \o code

(* A STRUCT block becomes defines of its fields and of its size.           *)
ExpandStructDefinitions(code) ==
    LET structs == SelectSeq(code, LAMBDA l : l.op = "struct")
        body    == SelectSeq(code, LAMBDA l : l.op # "struct")
    IN Code(\A i \in DOMAIN structs : structs[i].ok,
            FlattenSeq([i \in DOMAIN structs |-> structs[i].sub]) \o body)

(* preprocessScript: the same chain for execute and for check.  hooksOk    *)
(* says whether every registered pre- and postprocessor hook succeeds.     *)
PreprocessScript(code, hooksOk) ==
    LET lua  == ExpandLuaBlocks(code)
        cond == ExpandConditionalBlocks(lua.lines)
        anon == ResolveAnonymousLabels(cond.lines)
        strc == ExpandStructDefinitions(AutoDeclareNamedLabels(anon.lines))
    IN Code(lua.ok /\ cond.ok /\ anon.ok /\ hooksOk /\ strc.ok, strc.lines)
-----------------------------------------------------------------------------
(* Symbols.  env holds a script's allocations, labels and defines; sym is  *)
(* globalSymbols_, with 0 for an absent name.                              *)

Named(table, name) == SelectInSeq(table, LAMBDA e : e.name = name)

ResolveAddress(env, sym, x) ==
    LET a == Named(env.allocs, x[1])
        l == Named(env.labels, x[1])
        d == Named(env.defines, x[1])
        base == IF a # 0 THEN env.allocs[a].addr
                ELSE IF l # 0 THEN env.labels[l].addr
                ELSE IF d # 0 THEN env.defines[d].addr
                ELSE sym[x[1]]
    IN IF x[1] = "" THEN x[2] ELSE IF base = 0 THEN 0 ELSE base + x[2]

(* What an operand becomes in an instruction or a data line: defines, then *)
(* allocations and labels that have an address; global symbols are not     *)
(* substituted.  0: the name is left in the text.                          *)
SubstituteSymbols(env, x) ==
    LET d == Named(env.defines, x[1])
    IN IF d # 0 THEN env.defines[d].addr + x[2]
       ELSE ResolveAddress(env, [n \in Names |-> 0], x)

(* The sizing pass also replaces a label without address by the place the  *)
(* instruction is at.                                                      *)
SubstituteForSizing(env, x, at) ==
    IF SubstituteSymbols(env, x) = 0 /\ Named(env.labels, x[1]) # 0
      THEN at ELSE SubstituteSymbols(env, x)

(* The bytes of one instruction at an address: short when the target is    *)
(* near.  ok is FALSE for a bad mnemonic or a name left in the text.       *)
Assemble(l, target, at) ==
    [ok |-> l.ok /\ (l.x # NoRef => target # 0),
     bytes |-> IF l.x = NoRef THEN <<<<"op", l.n>>>>
               ELSE IF target - at \in (-NearRange)..NearRange THEN <<<<"jmp", target>>>>
               ELSE <<<<"jmp", target>>, <<"far", target>>>>]

(* Disassemble the instruction at an address and assemble it elsewhere.    *)
Reassembled(mem, addr, at) ==
    IF addr \notin Addresses \/ mem[addr] = Unmapped THEN [ok |-> FALSE, bytes |-> <<>>]
    ELSE IF mem[addr][1] = "jmp"
         THEN Assemble(Line("asm", "", mem[addr], 0, Unmapped, TRUE, <<>>), mem[addr][2], at)
         ELSE [ok |-> TRUE, bytes |-> <<mem[addr]>>]

(* db/dw/dd/dq, ds and nop: the bytes they stand for.                      *)
ParseDataDirective(l, target) ==
    [ok |-> l.ok /\ (l.op = "nop" => l.n > 0) /\ (l.x # NoRef => target # 0),
     bytes |-> CASE l.op = "nop" -> [i \in 1..l.n |-> <<"nop", 0>>]
                 [] l.op = "ds"  -> [i \in 1..l.n |-> <<"text", i>>]
                 [] OTHER -> <<<<"db", IF l.x = NoRef THEN l.n ELSE target>>>>]
-----------------------------------------------------------------------------
(* Parsing.  proc is FALSE in check(): then no scan runs.                  *)

FindAobInRange(mem, lo, hi, pattern) ==
    LET hits == {a \in Addresses : a >= lo /\ a < hi /\ mem[a] = pattern}
    IN IF hits = {} THEN 0 ELSE CHOOSE a \in hits : \A b \in hits : a =< b

Top == 1000           \* above every address
ScanRange(env, sym, l) ==
    CASE l.op = "aobscanmodule" ->
           IF l.x[1] \in DOMAIN Modules
             THEN <<Modules[l.x[1]].base, Modules[l.x[1]].base + Modules[l.x[1]].size>> ELSE <<0, 0>>
      [] l.op = "aobscanregion" ->
           LET start == ResolveAddress(env, sym, l.x)
           IN IF start = 0 THEN <<0, 0>> ELSE <<start, start + l.n>>
      [] OTHER -> <<1, Top>>

(* A scan that finds nothing is only logged: the name stays undefined.     *)
ParseScan(env, sym, mem, l) ==
    LET r == ScanRange(env, sym, l)
        a == FindAobInRange(mem, r[1], r[2], l.v)
    IN IF a = 0 THEN env ELSE [env EXCEPT !.defines = Append(@, [name |-> l.name, addr |-> a])]

ParseAlloc(env, l) ==
    [env EXCEPT !.ok = @ /\ l.ok,
                !.allocs = Append(@, [name |-> l.name, size |-> l.n, near |-> l.x, addr |-> 0]),
                !.regs = IF l.op = "globalalloc" THEN Append(@, l.name) ELSE @]

(* Directives that act later, and code, go to the list of lines.           *)
ParseDeferred(env, l) == [env EXCEPT !.lines = Append(@, l)]

RECURSIVE ParseLines(_, _, _, _, _, _)
(* An included file that is not there is only logged.                      *)
ParseInclude(env, sym, mem, proc, l, depth) ==
    IF depth >= MaxIncludeDepth THEN [env EXCEPT !.ok = FALSE]
    ELSE IF l.ok THEN ParseLines(env, sym, mem, proc, l.sub, depth + 1) ELSE env

ParseCustom(env, sym, mem, proc, l, depth) ==
    IF l.ok THEN ParseLines(env, sym, mem, proc, l.sub, depth) ELSE [env EXCEPT !.ok = FALSE]

(* parseLine, over the lines of a script, of an included file or of a      *)
(* custom command's expansion; the first error ends the parse.             *)
ParseLines(env, sym, mem, proc, lines, depth) ==
    LET step(e, l) ==
      IF ~e.ok THEN e
      ELSE CASE l.op \in {"alloc", "globalalloc", "kalloc"} -> ParseAlloc(e, l)
             [] l.op = "break" -> [e EXCEPT !.ok = FALSE]
             [] l.op = "label" -> [e EXCEPT !.labels = Append(@, [name |-> l.name, addr |-> 0])]
             [] l.op = "define" -> [e EXCEPT !.defines = Append(@, [name |-> l.name, addr |-> l.n])]
             [] l.op = "registersymbol" -> [e EXCEPT !.regs = Append(@, l.name)]
             [] l.op \in {"aobscan", "aobscanall", "aobscanmodule", "aobscanregion"} /\ proc ->
                  ParseScan(e, sym, mem, l)
             [] l.op = "include" -> ParseInclude(e, sym, mem, proc, l, depth)
             [] l.op = "custom" -> ParseCustom(e, sym, mem, proc, l, depth)
             [] OTHER -> ParseDeferred(e, l)
    IN FoldLeft(step, env, lines)

NoEnv == [ok |-> TRUE, allocs |-> <<>>, labels |-> <<>>, defines |-> <<>>, regs |-> <<>>, lines |-> <<>>]
-----------------------------------------------------------------------------
(* {$try} ... {$except} ... {$endtry} *)

AssertHolds(env, sym, mem, l) ==
    LET a == ResolveAddress(env, sym, l.x)
    IN l.ok /\ a # 0 /\ a \in Addresses /\ mem[a] # Unmapped /\ mem[a] = l.v

TryBranchCanExecute(branch, env, sym, mem, proc) ==
    proc => \A i \in DOMAIN branch : branch[i].op = "assert" => AssertHolds(env, sym, mem, branch[i])

RECURSIVE SelectTryExceptBranches(_, _, _, _, _)
SelectTryExceptBranches(lines, env, sym, mem, proc) ==
    LET i == SelectInSeq(lines, LAMBDA l : l.op \in {"try", "except", "endtry"})
        depth(j) == Cardinality({k \in i..j : lines[k].op = "try"})
                    - Cardinality({k \in i..j : lines[k].op = "endtry"})
        ends    == {j \in i..Len(lines) : lines[j].op = "endtry" /\ depth(j) = 0}
        end     == CHOOSE j \in ends : \A k \in ends : j =< k
        excepts == {j \in i..end : lines[j].op = "except" /\ depth(j) = 1}
        exc     == CHOOSE j \in excepts : \A k \in excepts : k =< j
        tryL    == SubSeq(lines, i + 1, exc - 1)
        branch  == SelectTryExceptBranches(
                     IF TryBranchCanExecute(tryL, env, sym, mem, proc)
                       THEN tryL ELSE SubSeq(lines, exc + 1, end - 1), env, sym, mem, proc)
        rest    == SelectTryExceptBranches(SubSeq(lines, end + 1, Len(lines)), env, sym, mem, proc)
    IN IF i = 0 THEN Code(TRUE, lines)
       ELSE IF lines[i].op # "try" \/ ends = {} THEN Code(FALSE, <<>>)
       ELSE IF excepts = {} THEN Code(FALSE, <<>>)
       ELSE Code(branch.ok /\ rest.ok, SubSeq(lines, 1, i - 1) \o branch.lines \o rest.lines)
-----------------------------------------------------------------------------
(* Sizing *)

NotSized == {"fullaccess", "assert", "unregistersymbol", "dealloc", "createthread",
             "createthreadandwait", "loadbinary", "loadlibrary"}

(* What a line "name:" does to the address being assembled at: the start   *)
(* of an allocation, the binding of a declared label, or a target address. *)
AtLabel(env, sym, l) ==
    CASE Named(env.allocs, l.x[1]) # 0 /\ l.x[2] = 0 -> "alloc"
      [] Named(env.labels, l.x[1]) # 0 /\ l.x[2] = 0 -> "label"
      [] OTHER -> IF ResolveAddress(env, sym, l.x) # 0 THEN "target" ELSE "unresolved"

BindLabel(env, name, at) == [env EXCEPT !.labels[Named(env.labels, name)].addr = at]

(* One pass over the lines; s = [env, at, changed].                        *)
SizeLine(s, sym, mem, l) ==
    LET fail  == [s EXCEPT !.env.ok = FALSE]
        by(b) == IF b.ok THEN [s EXCEPT !.at = @ + Len(b.bytes)] ELSE fail
        kind  == AtLabel(s.env, sym, l)
    IN CASE ~s.env.ok -> s
         [] l.op = "at" /\ kind \in {"alloc", "target"} -> [s EXCEPT !.at = ResolveAddress(s.env, sym, l.x)]
         [] l.op = "at" /\ kind = "label" ->
              IF s.at = 0 THEN fail
              ELSE [s EXCEPT !.env = BindLabel(@, l.x[1], s.at),
                             !.changed = @ \/ s.env.labels[Named(s.env.labels, l.x[1])].addr # s.at]
         [] l.op = "at" /\ kind = "unresolved" -> fail
         [] l.op \in NotSized -> s
         [] s.at = 0 -> fail
         [] l.op = "reassemble" -> by(Reassembled(mem, ResolveAddress(s.env, sym, l.x), s.at))
         [] l.op = "readmem" -> IF l.ok THEN [s EXCEPT !.at = @ + l.n] ELSE fail
         [] l.op = "fillmem" -> s
         [] l.op \in {"nop", "ds", "db"} -> by(ParseDataDirective(l, SubstituteForSizing(s.env, l.x, s.at)))
         [] OTHER -> by(Assemble(l, SubstituteForSizing(s.env, l.x, s.at), s.at))

SizingPass(env, sym, mem) ==
    FoldLeft(LAMBDA s, l : SizeLine(s, sym, mem, l), [env |-> env, at |-> 0, changed |-> FALSE], env.lines)

(* Passes until no label moves; no convergence within MaxPasses is an error *)
ResolveForwardLabelsOnce(env, sym, mem) == SizingPass(env, sym, mem).env
ResolveForwardLabels(env, sym, mem) ==
    LET again(s, k) == IF s.env.ok /\ s.changed THEN SizingPass(s.env, sym, mem) ELSE s
        end == FoldLeft(again, [env |-> env, at |-> 0, changed |-> TRUE], [k \in 1..MaxPasses |-> k])
    IN [end.env EXCEPT !.ok = @ /\ ~end.changed]
=============================================================================
