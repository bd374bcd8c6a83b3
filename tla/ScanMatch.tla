----------------------------- MODULE ScanMatch -----------------------------
(***************************************************************************)
(* Which places of a buffer a scan records, and which recorded matches     *)
(* survive a next scan (scanner/memory_scanner.cpp): the scanBuffer        *)
(* functions with their vector blocks, scalar tails, anchors and rejection *)
(* windows, and nextScanCompare.                                           *)
(*                                                                         *)
(* Operators only.  A buffer is a sequence of bytes; a place is an offset  *)
(* from its start; the result of a scan is the sequence of places in the   *)
(* order they are recorded.  Numbers are little-endian.  The value of a    *)
(* float is that of its bytes in units of 1/Unit, and one whose last byte  *)
(* is all ones is a NaN (external: IEEE 754 is not modelled further).      *)
(***************************************************************************)
EXTENDS ScanResult, ScanConfig

CONSTANT
    PlausibleMax    \* floats beyond this are not offered by a scan for unknown values

ASSUME PlausibleAssumption == PlausibleMax \in Nat

Unsigned(w) == FoldRight(LAMBDA b, n : b + Radix * n, w, 0)

\* static_cast to a type of `size` bytes.
AsSigned(n, size) == LET m == Radix ^ size IN IF 2 * (n % m) >= m THEN (n % m) - m ELSE n % m
Cast(t, n) == IF t \in UnsignedTypes THEN n % (Radix ^ Width(t))
              ELSE IF t \in FloatTypes THEN n ELSE AsSigned(n, Width(t))

NumberOf(t, w) == IF t \in UnsignedTypes THEN Unsigned(w) ELSE AsSigned(Unsigned(w), Len(w))

NotANumber(t, w) == t \in FloatTypes /\ Last(w) = Radix - 1

\* Magnitude, and division toward zero and to the nearest, halves away from zero.
Sign(n) == IF n < 0 THEN -1 ELSE 1
Mag(n) == n * Sign(n)
Toward0(n, d) == Sign(n) * (Mag(n) \div d)
HalfAway(n, d) == Sign(n) * ((2 * Mag(n) + d) \div (2 * d))
-----------------------------------------------------------------------------
(* Predicates on one value *)

\* getCompare(): what it answers for numbers c and v, and the bound v2 of "between",
\* whichever of the two is the greater.
Compare(cmp, c, v, v2) ==
    CASE cmp = "greater" \/ cmp = "increased" -> c > v
      [] cmp = "less" \/ cmp = "decreased"    -> c < v
      [] cmp = "between" -> (v <= c /\ c <= v2) \/ (v2 <= c /\ c <= v)
      [] cmp = "changed" -> c # v
      [] cmp = "unknown" -> TRUE
      [] OTHER           -> c = v

\* compareFloatingExact(): the rounding modes. The tolerance that stands in for
\* none is below the resolution.
CompareFloatingExact(cfg, c, v) ==
    CASE cfg.rounding = 1 /\ cfg.decimals >= 0 -> 2 * Mag(c - v) * 10 ^ cfg.decimals <= Unit
      [] cfg.rounding = 1 /\ cfg.decimals < 0  -> HalfAway(c, Unit) = HalfAway(v, Unit)
      [] cfg.rounding = 2 -> Toward0(c, Unit) = Toward0(v, Unit)
      [] cfg.rounding = 3 -> Mag(c - v) <= cfg.tolerance
      [] OTHER            -> c = v

\* compareFloating(); only "changed" and "unknown" hold of a NaN.
CompareFloating(cfg, t, w, v, v2) ==
    IF NotANumber(t, w) THEN cfg.compare \in {"changed", "unknown"}
    ELSE IF cfg.compare = "exact" THEN CompareFloatingExact(cfg, NumberOf(t, w), v)
    ELSE Compare(cfg.compare, NumberOf(t, w), v, v2)

\* A value of a numeric type against the value asked for, cast to the type.
CompareNumber(cfg, t, w) ==
    IF t \in FloatTypes THEN CompareFloating(cfg, t, w, cfg.value, cfg.value2)
    ELSE Compare(cfg.compare, NumberOf(t, w), Cast(t, cfg.value), Cast(t, cfg.value2))

\* comparePercentage(): no percentage of nothing.
ComparePercentage(cfg, cur, old) ==
    LET delta == 100 * (cur - old)
        of(p) == p * Mag(old)
    IN  /\ old # 0
        /\ CASE cfg.compare \in {"increased", "greater"} -> delta >= of(cfg.low)
             [] cfg.compare \in {"decreased", "less"}    -> delta + of(cfg.low) <= 0
             [] OTHER -> /\ delta >= of(Min({cfg.low, cfg.high}))
                         /\ delta <= of(Max({cfg.low, cfg.high}))

\* A byte of a text in the case it is compared in (external: tolower of the one pair
\* of letters there is).
Upper == 2
Lower == 3
ToLower(b) == IF b = Upper THEN Lower ELSE b

\* memcmp, or byte by byte with ASCII letters folded.
SameText(cfg, w) == IF cfg.fold THEN \A k \in DOMAIN w : ToLower(w[k]) = ToLower(cfg.bytes[k])
                    ELSE w = cfg.bytes

\* Of a UTF-16 unit only the low byte is folded.
SameUnits(cfg, w) ==
    \A k \in DOMAIN w :
        IF cfg.fold /\ k % 2 = 1 THEN ToLower(w[k]) = ToLower(cfg.bytes[k]) ELSE w[k] = cfg.bytes[k]

\* compareMaskedBytes().
CompareMaskedBytes(w, bytes, mask) ==
    bytes # <<>> /\ \A k \in DOMAIN bytes : MaskedEqual(w[k], bytes[k], mask[k])

\* groupedTermMatches().
GroupedTermMatches(cfg, term, w) ==
    CASE term.type \in FloatTypes -> /\ ~NotANumber(term.type, w)
                                     /\ CompareFloatingExact(cfg, NumberOf(term.type, w), term.value)
      [] term.type \in NumberTypes \ FloatTypes ->
            NumberOf(term.type, w) = Cast(term.type, term.value)
      [] OTHER -> CompareMaskedBytes(w, term.bytes, term.mask)

\* The w bytes of a buffer from offset o.
At(buf, o, w) == SubSeq(buf, o + 1, o + w)

\* groupedBlockMatches().
GroupedBlockMatches(cfg, block) ==
    \A k \in DOMAIN cfg.terms :
        LET term == cfg.terms[k]
            size == GroupedTermValueSize(term)
        IN  /\ term.at + size <= Len(block)
            /\ GroupedTermMatches(cfg, term, At(block, term.at, size))
-----------------------------------------------------------------------------
(* Loops *)

\* lo, lo + step, ... below hi.
Grid(lo, hi, step) == [k \in 1..(hi - lo + step - 1) \div step |-> lo + (k - 1) * step]

\* The offsets the stride loop tests: the windows of w bytes that fit.
Strides(buf, w, step) == IF Len(buf) < w THEN <<>> ELSE Grid(0, Len(buf) - w + 1, step)

\* Where the vector loop stops: it takes whole blocks of n, none without vectors.
BlocksEnd(lo, hi, n) == IF n = 0 THEN lo ELSE lo + ((hi - lo) \div n) * n

\* Mutant: the window of a tolerant search is one unit wide, whatever the tolerance.
HalfWindowNarrow(cfg) == Unit \div 2

\* Half of the window outside of which no rounding mode finds a match.
HalfWindow(cfg) == Max({2 * Unit, IF cfg.rounding = 3 THEN cfg.tolerance ELSE 0}) + 2 * Unit

\* The test of a whole vector: for numbers that are rounded, a window around the value.
Quick(cfg, w) ==
    IF cfg.type \notin FloatTypes \/ cfg.rounding = 0 THEN CompareNumber(cfg, cfg.type, w)
    ELSE ~NotANumber(cfg.type, w) /\ Mag(NumberOf(cfg.type, w) - cfg.value) <= HalfWindow(cfg)

\* The aligned lanes of the type: whole vectors are tested with Quick, and the lanes it
\* lets through in full; the lanes after the last whole vector in full.
LaneScan(cfg, vector, buf) ==
    LET w     == Width(cfg.type)
        lanes == Len(buf) \div w
        stop  == BlocksEnd(0, lanes, vector \div w)
        quick(i) == Quick(cfg, At(buf, i * w, w))
        found == SelectSeq(SelectSeq(Grid(0, stop, 1), quick) \o Grid(stop, lanes, 1),
                           LAMBDA i : CompareNumber(cfg, cfg.type, At(buf, i * w, w)))
    IN  [k \in DOMAIN found |-> found[k] * w]

\* scanIntegerFast(); tryScanExactFloat(), or scanBufferFloating().
ScanNumber(cfg, vector, buf) ==
    LET w == Width(cfg.type) IN
    IF cfg.compare = "exact" /\ cfg.align = w THEN LaneScan(cfg, vector, buf)
    ELSE SelectSeq(Strides(buf, w, cfg.align),
                   LAMBDA o : CompareNumber(cfg, cfg.type, At(buf, o, w)))

\* anchorScan(): the positions lo..hi-1 that hold the anchor byte.
AnchorScan(buf, lo, hi, anchor, vector) ==
    LET stop == BlocksEnd(lo, hi, vector)
        hit(p) == buf[p + 1] = anchor
    IN  SelectSeq(Grid(lo, stop, 1), hit) \o SelectSeq(Grid(stop, hi, 1), hit)

\* scanBufferString(): anchored at the first byte, or every offset if case is folded.
ScanString(cfg, vector, buf) ==
    LET n == Len(cfg.bytes)
        same(o) == SameText(cfg, At(buf, o, n))
    IN  IF n = 0 \/ Len(buf) < n THEN <<>>
        ELSE IF cfg.fold THEN SelectSeq(Strides(buf, n, 1), same)
        ELSE SelectSeq(AnchorScan(buf, 0, Len(buf) - n + 1, cfg.bytes[1], vector), same)

\* scanBufferUnicode(): every second offset.
ScanUnicode(cfg, buf) ==
    IF cfg.bytes = <<>> THEN <<>>
    ELSE SelectSeq(Strides(buf, Len(cfg.bytes), 2),
                   LAMBDA o : SameUnits(cfg, At(buf, o, Len(cfg.bytes))))

\* scanBufferAOB(): anchored at the first byte that is asked for in full.
ScanAob(cfg, vector, buf) ==
    LET n     == Len(cfg.bytes)
        limit == Len(buf) - n + 1
        full  == {k \in DOMAIN cfg.mask : cfg.mask[k] = Radix - 1}
        idx   == Min(full) - 1
        verify(o) == CompareMaskedBytes(At(buf, o, n), cfg.bytes, cfg.mask)
        found == SelectSeq(AnchorScan(buf, idx, limit + idx, cfg.bytes[idx + 1], vector),
                           LAMBDA p : verify(p - idx))
    IN  IF n = 0 \/ Len(buf) < n THEN <<>>
        ELSE IF full = {} THEN SelectSeq(Strides(buf, n, 1), verify)
        ELSE [k \in DOMAIN found |-> found[k] - idx]

ScanBinary(cfg, buf) ==
    SelectSeq(Strides(buf, Len(cfg.bytes), cfg.align),
            LAMBDA o : CompareMaskedBytes(At(buf, o, Len(cfg.bytes)), cfg.bytes, cfg.mask))

AllTypes == <<"int8", "int16", "int32", "int64", "float", "double">>

\* A type of an all-types scan at a place: floats must be finite and, when anything
\* is looked for, plausible; the second bound is always zero.
HoldsAs(cfg, t, w) ==
    LET n == NumberOf(t, w) IN
    IF t \notin FloatTypes THEN Compare(cfg.compare, n, Cast(t, cfg.value), 0)
    ELSE /\ ~NotANumber(t, w)
         /\ cfg.compare = "unknown" => Mag(n) <= PlausibleMax
         /\ Compare(cfg.compare, n, cfg.value * Unit, 0)

\* scanBufferAllTypes(): a place once for each type, at the places below `limit`;
\* the values may reach beyond it.
ScanAllTypes(cfg, buf, limit) ==
    LET starts == Grid(0, Min({limit, Len(buf)}), cfg.align)
        types(o) == SelectSeq(AllTypes, LAMBDA t : /\ o + Width(t) <= Len(buf)
                                                   /\ HoldsAs(cfg, t, At(buf, o, Width(t))))
    IN  FlattenSeq([k \in DOMAIN starts |-> [j \in DOMAIN types(starts[k]) |-> starts[k]]])

\* scanBufferGrouped() and scanBufferUnknown().
ScanGrouped(cfg, buf) ==
    LET size == GroupedValueSize(cfg.terms)
    IN  SelectSeq(Strides(buf, size, cfg.align),
            LAMBDA o : cfg.compare = "unknown" \/ GroupedBlockMatches(cfg, At(buf, o, size)))

\* CustomFormulaEvaluator: a formula that fails matches nothing.
EvalFormula(cfg, w) == w \in cfg.formula

ScanCustom(cfg, buf) ==
    SelectSeq(Strides(buf, ValueSize(cfg), cfg.align),
            LAMBDA o : cfg.compare = "unknown" \/ EvalFormula(cfg, At(buf, o, ValueSize(cfg))))

\* scanRegion() of firstScan. `vector` is the number of bytes compared at a time.
ScanBuffer(cfg, vector, buf, limit) ==
    CASE cfg.type \in NumberTypes -> ScanNumber(cfg, vector, buf)
      [] cfg.type = "string"  -> ScanString(cfg, vector, buf)
      [] cfg.type = "unicode" -> ScanUnicode(cfg, buf)
      [] cfg.type = "aob"     -> ScanAob(cfg, vector, buf)
      [] cfg.type = "binary"  -> ScanBinary(cfg, buf)
      [] cfg.type = "all"     -> ScanAllTypes(cfg, buf, limit)
      [] cfg.type = "grouped" -> ScanGrouped(cfg, buf)
      [] cfg.type = "custom"  -> ScanCustom(cfg, buf)

\* What firstScan and nextScan refuse for groups and formulas.
CompareSupported(cfg, next) ==
    cfg.type \in {"grouped", "custom"} =>
        cfg.compare \in {"exact", "unknown"} \cup
                        (IF next THEN {"changed", "unchanged", "sameAsFirst"} ELSE {})
-----------------------------------------------------------------------------
(* Next scan *)

Later == {"changed", "unchanged", "increased", "decreased", "increasedBy", "decreasedBy",
          "sameAsFirst"}

\* compareNextNumeric(): the new value against an earlier one, or the one asked for.
CompareNextNumeric(cfg, now, earlier) ==
    LET t   == cfg.type
        cur == NumberOf(t, now)
        old == NumberOf(t, earlier)
        nan == NotANumber(t, now) \/ NotANumber(t, earlier)
        up  == cfg.compare = "increasedBy"
    IN  IF cfg.percent /\ cfg.compare \in {"greater", "less", "between", "increased", "decreased"}
        THEN ~nan /\ ComparePercentage(cfg, cur, old)
        ELSE IF cfg.compare \in {"increasedBy", "decreasedBy"}
        THEN /\ ~nan
             /\ IF up THEN cur > old ELSE cur < old
             /\ Cast(t, IF up THEN cur - old ELSE old - cur) = Cast(t, cfg.value)
        ELSE IF cfg.compare \in Later
        THEN IF nan THEN cfg.compare = "changed" ELSE Compare(cfg.compare, cur, old, 0)
        ELSE CompareNumber(cfg, t, now)

\* Bytes against the earlier ones: "increased" and "decreased" count as changed,
\* by an amount as unchanged.
BytesCompare(cfg, now, m) ==
    IF cfg.compare = "sameAsFirst" THEN now = m.first
    ELSE (now # m.val) = (cfg.compare \in {"changed", "increased", "decreased"})

\* nextScanCompare(). Texts are compared with case; a search for all types and any
\* other comparison of a group or a formula only knows changed and unchanged.
NextScanCompare(cfg, now, m) ==
    LET earlier == IF cfg.compare = "sameAsFirst" THEN m.first ELSE m.val
        asked == CASE cfg.type \in {"string", "unicode"} -> now = cfg.bytes
                   [] cfg.type \in {"aob", "binary"} -> CompareMaskedBytes(now, cfg.bytes, cfg.mask)
                   [] cfg.type = "grouped" -> GroupedBlockMatches(cfg, now)
                   [] OTHER -> EvalFormula(cfg, now)
    IN  IF cfg.type \in NumberTypes THEN CompareNextNumeric(cfg, now, earlier)
        ELSE IF cfg.type = "all" THEN BytesCompare([cfg EXCEPT !.compare =
                    IF @ \in {"changed", "sameAsFirst"} THEN @ ELSE "unchanged"], now, m)
        ELSE IF cfg.compare = "unknown" THEN TRUE
        ELSE IF cfg.compare = "exact" THEN asked
        ELSE cfg.compare \in Later /\ BytesCompare(cfg, now, m)
=============================================================================
