-------------------------- MODULE MCMemoryScanner --------------------------
(***************************************************************************)
(* The two scanners.  MemoryScanner on a target with an anonymous mapping, *)
(* a mapped file and an executable image; pages of four bytes, bytes of    *)
(* two bits.  PointerScanner on a target with two modules and a heap.      *)
(***************************************************************************)
EXTENDS MemoryScanner, PointerScanner

Mapping(base, size, type, exec) ==
    [base |-> base, size |-> size, committed |-> TRUE, read |-> TRUE, write |-> ~exec,
     exec |-> exec, type |-> type]

SmallRegions ==
    <<Mapping(0, 8, "private", FALSE), Mapping(8, 3, "mapped", FALSE),
      Mapping(11, 1, "image", TRUE)>>

\* The anonymous pages are touched or not, the bytes around the page boundary and
\* at the end of the mappings vary.
SmallMemories ==
    {m \in [0..11 -> {0, 1}] :
        /\ m[0] = 0 /\ m[1] = 0 /\ m[5] = m[4] /\ m[6] = 0 /\ m[8] = 1 /\ m[11] = 1}

Memory(ones) == [a \in 0..11 |-> IF a \in ones THEN 1 ELSE 0]
Bytewise(s) == [a \in 0..11 |-> s[a + 1]]

\* Matches in a row, a memory with a page that was never touched, one with
\* wide numbers, and two with letters, negative numbers and NaNs.
Busy   == Memory({2, 3, 4, 5, 7, 8, 10, 11})
Sparse == Memory({2, 3, 8, 10, 11})
Mixed  == Bytewise(<<1, 0, 2, 0, 1, 0, 3, 0, 2, 3, 2, 1>>)
Wide   == Memory({0, 8})
Figures == Bytewise(<<1, 1, 0, 0, 3, 2, 0, 3, 1, 0, 2, 1>>)
-----------------------------------------------------------------------------
(* Forms *)

Form == [type |-> "int16", scanType |-> "exact", fast |-> TRUE, align |-> 1,
         from |-> 0, to |-> 12, writable |-> "any", executable |-> "no",
         classes |-> {"private", "mapped"}, value |-> 1, value2 |-> 0,
         rounding |-> 0, decimals |-> 0, tolerance |-> 0, text |-> <<>>,
         encoding |-> "utf-8", caseSensitive |-> TRUE, formula |-> {},
         percent |-> FALSE, low |-> 0, high |-> 0]

Ask(type, align, scanType) == [Form EXCEPT !.type = type, !.align = align, !.scanType = scanType]
Of(f, v) == [f EXCEPT !.value = v]
Text(type, text) == [Ask(type, 1, "exact") EXCEPT !.text = text]

Aligned   == [Ask("int16", 2, "between") EXCEPT !.value = 5, !.value2 = 1]
Unaligned == Ask("int16", 1, "exact")
EveryType == Ask("all", 2, "exact")
NoRange   == [Aligned EXCEPT !.to = 0]
Backwards == [Aligned EXCEPT !.from = 1, !.to = 0]
Narrowing == {[Aligned EXCEPT !.scanType = s] : s \in {"between", "changed", "unchanged", "sameAsFirst"}}

Anywhere == [first |-> {Aligned, Unaligned, NoRange, Backwards}, next |-> Narrowing]
AllOver  == [first |-> {EveryType}, next |-> {f \in Narrowing : f.scanType # "between"}]

\* First a form, then forms of the same type, on a memory.
Case(first, next) == [first |-> first, next |-> next]

Numbers ==
    {Case({Ask(t, Width(t), "exact"), Of(Ask(t, 1, "greater"), -2), Ask(t, 1, "unknown")},
          {Ask(t, 1, s) : s \in {"increased", "decreasedBy", "unknown"}} \cup
          {[Ask(t, 1, s) EXCEPT !.percent = TRUE, !.low = 50, !.high = 300]
                : s \in {"increased", "decreased", "between"}}) : t \in {"byte", "int16"}}

\* 256 units are 25.6.
Floats ==
    {Case({[Of(Ask("float", a, "exact"), v) EXCEPT !.rounding = r, !.decimals = d, !.tolerance = 60]},
          {Ask("float", 1, "unchanged")}) : a \in {1, 4}, v \in {5, 0}, r \in 0..3, d \in {0, 1}}

Strings ==
    {Case({Text("string", <<2, 3>>), Text("string", <<1, 0>>),
           [Text("string", <<2, 3>>) EXCEPT !.caseSensitive = FALSE],
           [Text("string", <<2>>) EXCEPT !.encoding = "utf-16le"],
           [Text("string", <<2>>) EXCEPT !.encoding = "unknown"]},
          {[Text("string", <<2, 3>>) EXCEPT !.scanType = "changed"]}),
     Case({Text("unicode", <<2>>), Text("unicode", <<2, 1>>)}, {Text("unicode", <<2>>)})}

Patterns ==
    {Case({Text("aob", <<<<Wild>>, <<1, 0>>>>), Text("aob", <<<<0, Wild>>, <<Wild, 0>>>>),
           Text("aob", <<<<1>>, <<Wild>>, <<1, 0>>>>), Text("aob", <<<<1, Junk>>>>)},
          {Text("aob", <<<<0, 1>>, <<Wild>>>>)}),
     Case({Text("binary", <<1, Wild, 0, 1>>), Text("binary", <<0, 1, 0>>), Text("binary", <<Junk>>)},
          {Text("binary", <<Wild, Wild, 0, 1>>)})}

Term(type, at, value, text) == [type |-> type, at |-> at, value |-> value, text |-> text]

Groups ==
    {Case({Text("grouped", <<Term("byte", 0, 1, <<>>), Term("int16", 2, 2, <<>>)>>),
           Text("grouped", <<Term("aob", 1, 0, <<<<0, Wild>>>>), Term("string", 0, 0, <<1>>)>>),
           Text("grouped", <<Term("float", 0, 5, <<>>)>>),
           Text("grouped", <<Term("byte", -1, 1, <<>>)>>),
           [Text("grouped", <<Term("byte", 0, 1, <<>>)>>) EXCEPT !.scanType = "greater"]},
          {Text("grouped", <<Term("byte", 1, 0, <<>>), Term("byte", 3, 0, <<>>)>>),
           [Text("grouped", <<Term("int16", 0, 1, <<>>)>>) EXCEPT !.scanType = "changed"],
           [Text("grouped", <<Term("int16", 0, 1, <<>>)>>) EXCEPT !.scanType = "sameAsFirst"]})}

Formulas ==
    {Case({[Ask("custom", 2, "exact") EXCEPT !.formula = {<<1, 0>>, <<2, 3>>}]},
          {[Ask("custom", 2, "exact") EXCEPT !.formula = {<<1, 0>>}]})}

Kinds == Numbers \cup Strings \cup Patterns \cup Groups \cup Formulas
-----------------------------------------------------------------------------
(* Scenarios *)

Scenario(m, d, n, chunk, vector, case) ==
    [mem |-> m, moves |-> d, scans |-> n, chunk |-> chunk, vector |-> vector,
     first |-> case.first, next |-> case.next]

\* Undisturbed, every memory; disturbed, these two. First values differ from the
\* previous ones only after two next scans. Then every kind of search, with and
\* without vectors, in chunks that hold whole vectors and a tail.
SmallScenarios ==
    {Scenario(Busy, {}, 0, 3, 0, Anywhere)} \cup
    {Scenario(m, {}, 2, 3, 0, Anywhere) : m \in SmallMemories} \cup
    {Scenario(m, {}, 2, 3, 0, AllOver) : m \in {Busy, Sparse, Mixed, Wide}} \cup
    {Scenario(m, {d}, 2, 3, 0, Anywhere) : m \in {Busy, Sparse}, d \in {"fault", "cancel", "disk"}} \cup
    {Scenario(m, {"write", "prune"}, 2, 3, 0, Anywhere) : m \in {Busy, Sparse}} \cup
    {Scenario(Sparse, {"write"}, 3, 3, 0, Anywhere)} \cup
    {Scenario(m, {"write"}, 3, 6, 4, k) : m \in {Mixed, Figures}, k \in Kinds} \cup
    {Scenario(m, {}, 1, 6, 0, k) : m \in {Mixed, Figures}, k \in Kinds} \cup
    {Scenario(m, {}, 2, 8, v, k) : m \in {Mixed, Figures}, v \in {0, 8}, k \in Floats}
-----------------------------------------------------------------------------
(* Pointers *)

Region(base, size, read) == [base |-> base, size |-> size, read |-> read]

\* A process: the game's image, a library with a hyphen in its name, a heap and a
\* guard page; words gives the aligned pointers that are not null.
Game == <<Word("game")>>
Lib  == <<Word("lib"), Op("-"), Num(2)>>
Process(game, lib, heap, words) ==
    LET cells == game..game + 3 \cup lib..lib + 1 \cup heap..heap + 7
    IN  [regions |-> <<Region(game, 4, TRUE), Region(lib, 2, TRUE), Region(heap, 8, TRUE), Region(heap + 8, 2, FALSE)>>,
         modules |-> <<[name |-> Game, base |-> game, size |-> 4], [name |-> Lib, base |-> lib, size |-> 2],
                       [name |-> <<Word("lib")>>, base |-> 60, size |-> 2]>>,
         cells |-> [c \in cells |-> IF c \in DOMAIN words THEN words[c] ELSE 0]]

\* game+2 -> a -> b -> object, lib-2+0 -> b; the object is at the end of the heap.
\* A second start has everything elsewhere and another route through the heap; in
\* the third one the pointers sit unaligned or lead into the guard page.
First  == Process(8, 16, 24, (10 :> 24) @@ (16 :> 26) @@ (25 :> 0) @@ (24 :> 26) @@ (26 :> 30) @@ (31 :> 7))
Second == Process(12, 4, 32, (14 :> 32) @@ (4 :> 34) @@ (32 :> 34) @@ (34 :> 36) @@ (36 :> 38) @@ (39 :> 7))
Third  == Process(8, 16, 24, (9 :> 26) @@ (16 :> 33) @@ (27 :> 30) @@ (31 :> 7) @@ (24 :> 1))

Scan(to, depth, reach) == [NoCfg EXCEPT !.target = to, !.depth = depth, !.reach = reach]
Loose(cfg) == [cfg EXCEPT !.negative = TRUE, !.aligned = FALSE]

Journey(start, again, writes, n, disturb, asks) ==
    [start |-> start, again |-> again, writes |-> writes, steps |-> n, moves |-> disturb,
     asks |-> asks, targets |-> {31, 39}, values |-> {7}]

NoSymbols == [s \in {} |-> 0]

NoJourney == Journey(First, {}, {}, 0, {}, {})

\* Undisturbed scans of every kind; the same while links are cut, bent or made loops;
\* and the way through a restart: scan, save, load, narrow, add to the list.
SmallJourneys ==
    {NoJourney} \cup
    {Journey(p, {}, {}, 2, {}, {Scan(q[1], d, q[2]) : d \in 1..4, q \in {<<31, 1>>, <<31, 3>>, <<39, 1>>, <<29, 3>>}}
                               \cup {Loose(Scan(31, d, 2)) : d \in 1..3}) : p \in {First, Second, Third}} \cup
    {Journey(First, {}, {<<24, 25>>, <<26, 10>>, <<16, 0>>}, 2, {"cancel"}, {Scan(31, 3, 2), Loose(Scan(31, 2, 3))})} \cup
    {Journey(First, {Second}, {<<24, 0>>, <<34, 5>>}, 5, {}, {Scan(31, 3, 2)}),
     Journey(First, {Second, Third}, {}, 4, {"disk", "map"}, {Scan(31, 3, 2)})}

\* The scanners share nothing but the target: a behaviour exercises one of them.
ScannersInit == Init /\ PointerInit /\ (scenario.scans = 0 <=> journey.steps > 0)
ScannersNext == (Next /\ UNCHANGED pvars) \/ (PointerNext /\ UNCHANGED vars)
ScannersSpec == ScannersInit /\ [][ScannersNext]_<<vars, pvars>>
=============================================================================
