------------------------------ MODULE UInt256 ------------------------------
(***************************************************************************)
(* The integers of csf_assign01/uint256.c: NWords words, least significant *)
(* first, of UnitDigits digits of DigitBits bits each (8, 8 and 4 in the   *)
(* code), and uint256_mul() with one action per round of its loop, on an   *)
(* operand that was read from hexadecimal text.                            *)
(***************************************************************************)
EXTENDS Integers, Sequences, FiniteSetsExt

CONSTANTS DigitBits, UnitDigits, NWords,
          MaxDigits   \* bound on the length of the text

ASSUME UInt256Assumption ==
  /\ DigitBits \in Nat \ {0} /\ UnitDigits \in Nat \ {0} /\ NWords \in Nat \ {0}
  /\ MaxDigits \in Nat

VARIABLES hex, left, right, i, product
vars == <<hex, left, right, i, product>>

pow2[n \in Nat] == IF n = 0 THEN 1 ELSE 2 * pow2[n - 1]

WordBits == DigitBits * UnitDigits
Word == pow2[WordBits]
Bits == WordBits * NWords
Words == 0 .. (NWords - 1)
UInt == [Words -> 0 .. (Word - 1)]

Digit == 0 .. (pow2[DigitBits] - 1)
Text == UNION { [1 .. n -> Digit] : n \in 0 .. MaxDigits }

-----------------------------------------------------------------------------
create_from_u32(val) == [w \in Words |-> IF w = 0 THEN val ELSE 0]

(* strtoul(), for digits that fit one word: the numbers the first digits   *)
(* stand for, and the number all of them do.                               *)
NumbersOf(digits) ==
  LET upto[n \in 0 .. Len(digits)] ==
        IF n = 0 THEN 0 ELSE upto[n - 1] * pow2[DigitBits] + digits[n]
  IN upto
NumberOf(digits) == NumbersOf(digits)[Len(digits)]

(* The text is cut into units from its end; the first unit may be short    *)
(* and units beyond the last word are dropped.  Mutant: a first unit that  *)
(* is short is skipped.                                                    *)
CreateFromWholeUnits(text) ==
  [w \in Words |->
     LET last == Len(text) - UnitDigits * w
     IN IF last < UnitDigits THEN 0 ELSE NumberOf(SubSeq(text, last - UnitDigits + 1, last))]
create_from_hex(text) ==
  [w \in Words |->
     LET last == Len(text) - UnitDigits * w
         first == IF last < UnitDigits THEN 1 ELSE last - UnitDigits + 1
     IN NumberOf(SubSeq(text, first, last))]

(* All digits, most significant first, without leading zeros; the last     *)
(* digit stays.                                                            *)
format_as_hex(val) ==
  LET total == UnitDigits * NWords
      DigitAt(k) ==   \* the k-th digit of hex_buf
        (val[(total - k) \div UnitDigits] \div pow2[DigitBits * ((total - k) % UnitDigits)])
          % pow2[DigitBits]
      Skipped(k) == k < total /\ \A l \in 1 .. k : DigitAt(l) = 0
      skip == Max({0} \cup { k \in 1 .. total : Skipped(k) })
  IN [k \in 1 .. (total - skip) |-> DigitAt(k + skip)]

is_bit_set(val, index) == (val[index \div WordBits] \div pow2[index % WordBits]) % 2 = 1

(* The 64-bit sum of two words and the carry before them keeps the carry   *)
(* after them in its upper half.                                           *)
Carries(a, b) ==
  LET carry[w \in 0 .. NWords] ==
        IF w = 0 THEN 0 ELSE (a[w - 1] + b[w - 1] + carry[w - 1]) \div Word
  IN carry
add(a, b) == [w \in Words |-> (a[w] + b[w] + Carries(a, b)[w]) % Word]

(* Mutant: the complement without the one.                                 *)
Complement(val) == [w \in Words |-> Word - 1 - val[w]]
negate(val) == add([w \in Words |-> Word - 1 - val[w]], create_from_u32(1))

sub(a, b) == add(a, negate(b))

(* Whole words are moved first; then each word, from the highest down,     *)
(* takes the upper bits of the one below, which is not yet shifted.        *)
(* Mutant: from the lowest up, so that it is.                              *)
ShiftUpwards(val, shift) ==
  LET words == shift \div WordBits
      bits == shift % WordBits
      moved == [w \in Words |-> IF w >= words THEN val[w - words] ELSE 0]
      shifted[w \in Words] ==
        ((moved[w] * pow2[bits]) % Word)
          + IF w = 0 THEN 0 ELSE shifted[w - 1] \div pow2[WordBits - bits]
  IN IF bits = 0 THEN moved ELSE shifted
lshift(val, shift) ==
  LET words == shift \div WordBits
      bits == shift % WordBits
      moved == [w \in Words |-> IF w >= words THEN val[w - words] ELSE 0]
  IN IF bits = 0 THEN moved
     ELSE [w \in Words |->
             ((moved[w] * pow2[bits]) % Word)
               + IF w = 0 THEN 0 ELSE moved[w - 1] \div pow2[WordBits - bits]]

-----------------------------------------------------------------------------
Init ==
  /\ hex \in Text
  /\ left \in UInt
  /\ right = create_from_hex(hex)
  /\ i = 0
  /\ product = create_from_u32(0)

AddTerm ==
  /\ i < Bits
  /\ is_bit_set(left, i)
  /\ product' = add(product, lshift(right, i))
  /\ i' = i + 1
  /\ UNCHANGED <<hex, left, right>>

SkipBit ==
  /\ i < Bits
  /\ ~is_bit_set(left, i)
  /\ i' = i + 1
  /\ UNCHANGED <<hex, left, right, product>>

Next == AddTerm \/ SkipBit

Spec == Init /\ [][Next]_vars

-----------------------------------------------------------------------------
(* The numbers the low words of a UInt256 stand for, and the number all of *)
(* them do.                                                                *)
LowValues(val) ==
  LET upto[n \in 0 .. NWords] ==
        IF n = 0 THEN 0 ELSE upto[n - 1] + pow2[WordBits * (n - 1)] * val[n - 1]
  IN upto
Value(val) == LowValues(val)[NWords]

(* uint256_mul() has added right times the bits of left it has looked at,  *)
(* modulo 2^256, and every word fits: shifts and carries are right.        *)
ProductSoFar ==
  /\ product \in UInt
  /\ Value(product) = ((Value(left) % pow2[i]) * Value(right)) % pow2[Bits]

(* uint256_sub() is subtraction modulo 2^256, also below zero, and         *)
(* uint256_add() undoes it.                                                *)
SubtractsBack ==
  LET difference == sub(left, right)
  IN /\ Value(difference) = (Value(left) - Value(right)) % pow2[Bits]
     /\ add(difference, right) = left

(* uint256_create_from_hex() reads text of any length modulo 2^256;        *)
(* uint256_format_as_hex() writes it back without leading zeros.           *)
HexReadsBack ==
  LET text == format_as_hex(right)
  IN /\ Value(right) = NumberOf(hex) % pow2[Bits]
     /\ create_from_hex(text) = right
     /\ Len(text) \in 1 .. (UnitDigits * NWords)
     /\ Len(text) > 1 => Head(text) # 0
=============================================================================
