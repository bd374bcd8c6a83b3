----------------------------- MODULE ValueText -----------------------------
(* A value on its way between the target's memory and the text the cheat   *)
(* table shows: src/core/value_transform.hpp, src/core/value_codec.hpp and *)
(* the value helpers of src/gui/mainwindow.cpp.                            *)
(*                                                                         *)
(* The record type is Byte: memory holds 0..255, a logical value is the    *)
(* codec's inverse image of the byte, and a text is its sign, whether it   *)
(* carries the 0x prefix, and its digits.  Byte order has no effect on one *)
(* byte; the wider types differ only in the modulus.                       *)
EXTENDS Integers, Sequences, SequencesExt, Bitwise

Modulus == 2^8
Bytes == 0..(Modulus - 1)

(* Texts that hold no number: the cleared cell, and the "?" / "??" of a    *)
(* record that has not been read or cannot be read.                        *)
Empty == [neg |-> FALSE, pfx |-> FALSE, digits |-> <<>>]
Unknown == [neg |-> TRUE, pfx |-> TRUE, digits |-> <<>>]

(* ---------------------------- value codecs ----------------------------- *)
Rotl(v, n) == ((v * 2^n) % Modulus) + (v \div 2^(8 - n))

Encode(codec, v) ==
  CASE codec.op = "none" -> v
    [] codec.op = "xor" -> v ^^ codec.key
    [] codec.op = "add" -> (v + codec.key) % Modulus
    [] codec.op = "rol" -> Rotl(v, codec.key)
    [] codec.op = "ror" -> Rotl(v, 8 - codec.key)

Decode(codec, s) ==
  CASE codec.op = "none" -> s
    [] codec.op = "xor" -> s ^^ codec.key
    [] codec.op = "add" -> (s - codec.key) % Modulus
    [] codec.op = "rol" -> Rotl(s, 8 - codec.key)
    [] codec.op = "ror" -> Rotl(s, codec.key)

(* ------------------------- numbers and their text ---------------------- *)
Digits(n, base) ==
  SelectSeq(<<n \div (base * base), (n \div base) % base>>, LAMBDA d : d > 0 \/ n >= base * base) \o <<n % base>>

SignedByte(v) == IF v >= Modulus \div 2 THEN v - Modulus ELSE v

(* formatIntegerScalar: hex is the masked unsigned number with a prefix,   *)
(* decimal is signed or not as the record shows it.                        *)
Format(v, signed, hex) ==
  LET n == v % Modulus
      s == IF signed /\ ~hex THEN SignedByte(n) ELSE n
  IN [neg |-> s < 0, pfx |-> hex,
      digits |-> IF hex THEN Digits(n, 16) ELSE Digits(IF s < 0 THEN -s ELSE s, 10)]

Base(t, hex) == IF t.pfx \/ hex THEN 16 ELSE 10
(* parseIntegerScalar: bare digits are hex only in a hex record; a digit   *)
(* the base does not have, or no digit at all, is an error.                *)
Parses(t, hex) == t.digits # <<>> /\ \A i \in DOMAIN t.digits : t.digits[i] < Base(t, hex)
Parse(t, hex) ==
  LET n == FoldLeft(LAMBDA acc, d : acc * Base(t, hex) + d, 0, t.digits)
  IN IF t.neg THEN -n ELSE n

(* parseIntField: a text that does not parse is the number 0, and the      *)
(* number is truncated to the record's width.                              *)
ParseIntField(t, hex) == (IF Parses(t, hex) THEN Parse(t, hex) ELSE 0) % Modulus

(* writeValueToProcess: what the write leaves in the cell.                 *)
Stored(t, hex, codec) == Encode(codec, ParseIntField(t, hex))

(* readComparableValue / parseComparableValue: the numbers a directional   *)
(* freeze compares.  The parse is never in hex mode: only a prefix makes   *)
(* the text hexadecimal.                                                   *)
Comparable(byte, codec, signed) == IF signed THEN SignedByte(Decode(codec, byte)) ELSE Decode(codec, byte)

FreezeShouldWrite(mode, current, frozen) ==
  CASE mode \in {"increaseOnly", "neverDecrease"} -> current < frozen
    [] mode \in {"decreaseOnly", "neverIncrease"} -> current > frozen
    [] OTHER -> TRUE
=============================================================================
