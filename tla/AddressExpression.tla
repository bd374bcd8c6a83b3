------------------------- MODULE AddressExpression -------------------------
(***************************************************************************)
(* ce::ExpressionParser (core/expression.cpp): what the text of an address *)
(* stands for in a process.                                                *)
(*                                                                         *)
(* A text is a sequence of tokens: an operator or a bracket, a number in   *)
(* any of its notations, or a word.  A module name may hold several of     *)
(* them (libssl-1.1.so is a word, a minus and a word); a lone hexadecimal  *)
(* letter is a word that has a value.  A process is seen as its modules in *)
(* order and its memory; a pointer is two cells, the low half first.       *)
(***************************************************************************)
EXTENDS Integers, Sequences, SequencesExt, FiniteSetsExt

CONSTANTS CellValues,   \* a cell holds 0..CellValues-1
          Symbols       \* the resolver: name -> address

MaxNesting == 64

Op(s)     == [kind |-> "op", s |-> s, n |-> 0]
Num(n)    == [kind |-> "num", s |-> "", n |-> n]
Word(s)   == [kind |-> "word", s |-> s, n |-> 0]
Letter(n) == [kind |-> "letter", s |-> "", n |-> n]

Nothing == [ok |-> FALSE, v |-> 0]
Just(v) == [ok |-> TRUE, v |-> v]

\* ProcessHandle::read of a pointer: both halves, or a short read.
Mapped(p, a) == a \in DOMAIN p.cells
Pointer(p, a) ==
    IF Mapped(p, a) /\ Mapped(p, a + 1) THEN Just(p.cells[a] + CellValues * p.cells[a + 1])
                                            ELSE Nothing

\* Modules are looked up by name: the first one counts.
ModuleBase(mods, name) ==
    IF \E k \in DOMAIN mods : mods[k].name = name
    THEN mods[SelectInSeq(mods, LAMBDA m : m.name = name)].base ELSE 0

ResolveToken(p, name) ==
    CASE name[1].kind = "num"    -> name[1].n
      [] name \in DOMAIN Symbols -> Symbols[name]
      [] OTHER -> LET base == ModuleBase(p.modules, name)
                  IN  IF base = 0 THEN name[1].n ELSE base

IsOp(e, i, ops) == e[i].kind = "op" /\ e[i].s \in ops

\* Brackets still open after e[from..i].
Nesting(e, from, i) == Cardinality({k \in from..i : IsOp(e, k, {"["})})
                     - Cardinality({k \in from..i : IsOp(e, k, {"]"})})

\* The bracket that closes the first one; 0 if none does.
Closing(e) == LET c == {i \in DOMAIN e : Nesting(e, 1, i) = 0} IN IF c = {} THEN 0 ELSE Min(c)

SplitAtHyphen(p, e, pos) == 0

\* A term that starts with a module's name is the whole (longest) name.
NameAt(p, e, pos) ==
    LET fits(m) == /\ pos + Len(m.name) - 1 <= Len(e)
                   /\ SubSeq(e, pos, pos + Len(m.name) - 1) = m.name
                   /\ pos + Len(m.name) > Len(e) \/ IsOp(e, pos + Len(m.name), {"+", "-"})
    IN  Max({0} \cup {Len(m.name) : m \in {q \in Range(p.modules) : fits(q)}})

\* Where the term that starts at pos ends: before the next operator outside brackets.
TermEnd(p, e, pos) ==
    IF NameAt(p, e, pos) > 0 THEN pos + NameAt(p, e, pos) - 1
    ELSE LET stops == {i \in pos + 1..Len(e) : IsOp(e, i, {"+", "-"}) /\ Nesting(e, pos, i) <= 0}
         IN  IF stops = {} THEN Len(e) ELSE Min(stops) - 1

RECURSIVE ParseImpl(_, _, _), Sum(_, _, _, _, _, _)

\* [expr], [expr]+rest and [expr]-rest: all of the rest is added or subtracted.
Dereferenced(p, e, depth) ==
    LET close == Closing(e)
        at    == IF close = 0 THEN Nothing ELSE ParseImpl(p, SubSeq(e, 2, close - 1), depth + 1)
        ptr   == IF at.ok THEN Pointer(p, at.v) ELSE Nothing
        rest  == SubSeq(e, close + 1, Len(e))
        off   == ParseImpl(p, Tail(rest), depth + 1)
    IN  CASE ~ptr.ok                         -> Nothing
          [] rest = <<>>                     -> ptr
          [] rest # <<>> /\ IsOp(rest, 1, {"+"}) -> IF off.ok THEN Just(ptr.v + off.v) ELSE Nothing
          [] rest # <<>> /\ IsOp(rest, 1, {"-"}) -> IF off.ok THEN Just(ptr.v - off.v) ELSE Nothing
          [] OTHER                           -> ptr

\* The terms from pos on; a term that has no value counts as 0.
Sum(p, e, pos, acc, sign, depth) ==
    IF pos > Len(e) THEN Just(acc)
    ELSE LET end  == TermEnd(p, e, pos)
             term == SubSeq(e, pos, end)
             sub  == ParseImpl(p, term, depth + 1)
             val  == IF \E i \in DOMAIN term : IsOp(term, i, {"["}) THEN IF sub.ok THEN sub.v ELSE 0
                     ELSE ResolveToken(p, term)
         IN  Sum(p, e, end + 2, acc + sign * val, IF end < Len(e) /\ IsOp(e, end + 1, {"-"}) THEN -1 ELSE 1, depth)

ParseImpl(p, e, depth) ==
    IF depth > MaxNesting \/ e = <<>> THEN Nothing
    ELSE IF IsOp(e, 1, {"["}) THEN Dereferenced(p, e, depth)
    ELSE Sum(p, e, 1, 0, 1, depth)

Parse(p, e) == ParseImpl(p, e, 0)
=============================================================================
