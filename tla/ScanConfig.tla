----------------------------- MODULE ScanConfig -----------------------------
(***************************************************************************)
(* What the user asks of a scan: the scan panel (gui/mainwindow.cpp), and  *)
(* the ScanConfig it is turned into with the pattern parsers of            *)
(* scanner/memory_scanner.cpp.                                             *)
(*                                                                         *)
(* A form holds the panel's fields.  A number field is its value (a float  *)
(* in units of 1/Unit), a text field is the sequence of its parts: the     *)
(* characters of a string, the tokens of an array of bytes (each the       *)
(* sequence of its digits), the bits of a binary pattern, the terms of a   *)
(* group.  A custom formula is the set of windows it holds of.             *)
(***************************************************************************)
EXTENDS Integers, Sequences, SequencesExt, FiniteSetsExt

CONSTANTS
    BitsPerByte,    \* 8
    Unit            \* float values are multiples of 1/Unit

ASSUME ByteAssumption ==
    /\ {BitsPerByte, Unit} \subseteq Nat \ {0}
    /\ BitsPerByte % 2 = 0

Radix == 2 ^ BitsPerByte
Bytes == 0..Radix - 1
Nibble == 2 ^ (BitsPerByte \div 2)

Wild == -1      \* ? in a pattern
Junk == -2      \* a character that is neither a digit nor a wildcard

SignedTypes   == {"int8", "int16", "int32", "int64"}
UnsignedTypes == {"byte", "pointer"}
FloatTypes    == {"float", "double"}
NumberTypes   == SignedTypes \cup UnsignedTypes \cup FloatTypes

\* Bytes of a value of a numeric type.
Width(t) ==
    CASE t \in {"byte", "int8"} -> 1 [] t = "int16" -> 2 [] t \in {"int32", "float"} -> 4
      [] t \in {"int64", "pointer", "double"} -> 8
-----------------------------------------------------------------------------
(* Patterns *)

Bit(b, i) == (b \div 2 ^ i) % 2

\* (a & mask) = (b & mask).
MaskedEqual(a, b, mask) ==
    \A i \in 0..BitsPerByte - 1 : Bit(mask, i) = 1 => Bit(a, i) = Bit(b, i)

Digit(c) == c \in 0..Nibble - 1
NibbleValue(c) == IF Digit(c) THEN c ELSE 0
NibbleMask(c) == IF Digit(c) THEN Nibble - 1 ELSE 0

\* A token of parseAOB: a wildcard, two nibbles, or a number of which the last two
\* digits count.
TokenByte(tok) == IF Len(tok) = 1 THEN NibbleValue(tok[1])
                  ELSE NibbleValue(tok[Len(tok) - 1]) * Nibble + NibbleValue(Last(tok))

TokenMask(tok) == CASE tok = <<Wild>> -> 0
                    [] Len(tok) = 2   -> NibbleMask(tok[1]) * Nibble + NibbleMask(tok[2])
                    [] OTHER          -> Radix - 1

TokenValid(tok) == \A k \in DOMAIN tok : Digit(tok[k]) \/ (tok[k] = Wild /\ Len(tok) <= 2)

\* ScanConfig::parseAOB; an invalid token still leaves a byte behind (which one is
\* only followed for tokens of two characters).
ParseAOB(tokens) ==
    [ok |-> tokens # <<>> /\ \A k \in DOMAIN tokens : TokenValid(tokens[k]),
     bytes |-> [k \in DOMAIN tokens |-> TokenByte(tokens[k])],
     mask  |-> [k \in DOMAIN tokens |-> TokenMask(tokens[k])]]

\* The number whose bits, from the highest, are those of the k-th byte of a bit
\* pattern that are among `ones`; a last byte that is short is shifted up.
BitsOf(bits, k, ones) ==
    SumSet({2 ^ (BitsPerByte - i) : i \in {j \in 1..BitsPerByte :
        LET at == (k - 1) * BitsPerByte + j IN at <= Len(bits) /\ bits[at] \in ones}})

\* ScanConfig::parseBinary; characters other than bits and wildcards are skipped.
ParseBits(bits, size) ==
    [ok |-> bits # <<>>,
     bytes |-> [k \in 1..size |-> BitsOf(bits, k, {1})],
     mask  |-> [k \in 1..size |-> BitsOf(bits, k, {0, 1})]]

ParseBinary(text) ==
    LET bits == SelectSeq(text, LAMBDA c : c # Junk)
    IN  ParseBits(bits, (Len(bits) + BitsPerByte - 1) \div BitsPerByte)

\* UTF-16 of an ASCII text, two bytes a character.
Utf16LeBytes(text) == FlattenSeq([k \in DOMAIN text |-> <<text[k], 0>>])

\* encodeStringBytes: UTF-8 as it is, another encoding through iconv (external), of
\* which a two-byte one stands here; an unknown one throws.
EncodeStringBytes(text, encoding) == IF encoding = "utf-8" THEN text ELSE Utf16LeBytes(text)

Encodable(f) == f.encoding \in {"utf-8", "utf-16le"}

\* A term of a group as parseGrouped reads it.
Full(bytes) == [bytes |-> bytes, mask |-> [k \in DOMAIN bytes |-> Radix - 1]]
ParsedTerm(raw) ==
    LET pattern == CASE raw.type = "aob"     -> ParseAOB(raw.text)
                     [] raw.type = "binary"  -> ParseBinary(raw.text)
                     [] raw.type = "unicode" -> Full(Utf16LeBytes(raw.text))
                     [] OTHER                -> Full(raw.text)
        term(p) == [type |-> raw.type, at |-> raw.at, value |-> raw.value,
                    bytes |-> p.bytes, mask |-> p.mask]
    IN  term(pattern)

\* A term is refused without a place, with an unknown type or with an empty value;
\* that an array of bytes has a bad token is not looked at.
TermValid(raw) ==
    /\ raw.at \in Nat
    /\ raw.type \in {"byte", "int16", "int32", "int64", "pointer", "float", "double"}
       \/ (raw.type \in {"string", "unicode", "aob", "binary"} /\ raw.text # <<>>)

\* ScanConfig::parseGrouped: one bad term and there are none.
ParseGrouped(text) ==
    LET ok == text # <<>> /\ \A k \in DOMAIN text : TermValid(text[k])
    IN  [ok |-> ok, terms |-> IF ok THEN [k \in DOMAIN text |-> ParsedTerm(text[k])] ELSE <<>>]

GroupedTermValueSize(term) ==
    IF term.type \in NumberTypes THEN Width(term.type) ELSE Len(term.bytes)

\* ScanConfig::groupedValueSize: the block from the first byte to the end of the
\* term that reaches furthest.
GroupedValueSize(terms) ==
    Max({0} \cup {terms[k].at + GroupedTermValueSize(terms[k]) : k \in DOMAIN terms})
-----------------------------------------------------------------------------
(* The scan panel *)

\* The text of the value field as the bytes to look for.
PatternOf(f, type) ==
    CASE type = "string"  -> [ok |-> Encodable(f), mask |-> <<>>,
                              bytes |-> EncodeStringBytes(f.text, f.encoding)]
      [] type = "unicode" -> [ok |-> TRUE, mask |-> <<>>, bytes |-> Utf16LeBytes(f.text)]
      [] type = "aob"     -> ParseAOB(f.text)
      [] type = "binary"  -> ParseBinary(f.text)
      [] OTHER            -> [ok |-> TRUE, bytes |-> <<>>, mask |-> <<>>]

GroupOf(f, type) == IF type = "grouped" THEN ParseGrouped(f.text) ELSE [ok |-> TRUE, terms |-> <<>>]

Config(f, type, align, pattern, group) ==
    [type |-> type, compare |-> f.scanType, ok |-> pattern.ok /\ group.ok,
     align |-> IF type \in NumberTypes \cup {"all"} THEN align ELSE 1,
     start |-> f.from, stop |-> f.to,
     writable |-> f.writable, executable |-> f.executable, classes |-> f.classes,
     value |-> f.value, value2 |-> f.value2,
     rounding |-> f.rounding, decimals |-> f.decimals, tolerance |-> f.tolerance,
     fold |-> ~f.caseSensitive, bytes |-> pattern.bytes, mask |-> pattern.mask,
     terms |-> group.terms, formula |-> f.formula, customSize |-> align,
     percent |-> FALSE, low |-> 0, high |-> 0]

\* The fields both scans read. "Value between" has a field of its own; "Rounded" goes
\* by the decimals that were typed; the alignment is for numbers only.
ConfigOf(f, type, align) == Config(f, type, align, PatternOf(f, type), GroupOf(f, type))

\* onFirstScan().
FirstConfig(f) ==
    [ConfigOf(f, f.type, IF f.fast THEN f.align ELSE 1) EXCEPT !.ok = @ /\ f.from <= f.to]

\* onNextScan(): the type is that of the result; "fast scan" is not asked, and a
\* percentage may be.
NextConfig(f, type) ==
    [ConfigOf(f, type, f.align) EXCEPT !.percent = f.percent, !.low = f.low, !.high = f.high]

\* valueSizeForConfig(): the widest value the scan looks for.
ValueSize(cfg) ==
    CASE cfg.type \in NumberTypes -> Width(cfg.type)
      [] cfg.type = "all"         -> 8
      [] cfg.type = "unicode"     -> Max({2, Len(cfg.bytes)})
      [] cfg.type = "grouped"     -> Max({1, GroupedValueSize(cfg.terms)})
      [] cfg.type = "custom"      -> Max({1, cfg.customSize})
      [] OTHER                    -> Max({1, Len(cfg.bytes)})
=============================================================================
