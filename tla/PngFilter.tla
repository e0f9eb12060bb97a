----------------------------- MODULE PngFilter -----------------------------
(***************************************************************************)
(* The filters of a PNG file, of which pnglite.c has the reading half.     *)
(* Each row of a file is a filter number and bytes, from which a byte      *)
(* predicted from its neighbours was subtracted.  A row is a sequence of   *)
(* bytes; the row above the first one is all zeros.                        *)
(***************************************************************************)
EXTENDS Integers, Sequences

CONSTANT Values   \* 256: the values of a byte

ASSUME ValuesAssumption == Values \in Nat \ {0}

Byte == 0 .. (Values - 1)
FilterNumber == 0 .. 4

Abs(x) == IF x < 0 THEN -x ELSE x

(* png_paeth(): of the bytes to the left, above, and above to the left the *)
(* one nearest to a + b - c.  Mutant: the third distance does not count.   *)
PaethLeftOrAbove(a, b, c) ==
  LET p == a + b - c
      pa == Abs(p - a)
      pb == Abs(p - b)
      pc == Abs(p - c)
  IN IF pa <= pb THEN a ELSE IF pb <= pc THEN b ELSE c
png_paeth(a, b, c) ==
  LET p == a + b - c
      pa == Abs(p - a)
      pb == Abs(p - b)
      pc == Abs(p - c)
  IN IF pa <= pb /\ pa <= pc THEN a ELSE IF pb <= pc THEN b ELSE c

Predicted(filter, a, b, c) ==
  CASE filter = 0 -> 0 [] filter = 1 -> a [] filter = 2 -> b
    [] filter = 3 -> (a + b) \div 2 [] filter = 4 -> png_paeth(a, b, c)

Zeros(row) == [i \in DOMAIN row |-> 0]

(* The byte of a row one pixel to the left.                                *)
Left(row, stride, i) == IF i > stride THEN row[i - stride] ELSE 0

(* One row of png_unfilter(): png_filter_sub(), _up(), _average() and      *)
(* _paeth() on a row of a file.                                            *)
Unfiltered(filter, stride, in, prev_line) ==
  LET out[i \in DOMAIN in] ==
        (in[i] + Predicted(filter, IF i > stride THEN out[i - stride] ELSE 0,
                           prev_line[i], Left(prev_line, stride, i))) % Values
  IN out

-----------------------------------------------------------------------------
(* What the PNG standard makes of a row when it writes one: the neighbour  *)
(* nearest to the estimate, of several the first in the order left, above, *)
(* above to the left.                                                      *)
Nearest(a, b, c) ==
  LET d == <<Abs(b - c), Abs(a - c), Abs(a + b - 2 * c)>>
      first == CHOOSE k \in 1 .. 3 :
                 \A m \in 1 .. 3 : d[k] <= d[m] /\ (m < k => d[k] < d[m])
  IN <<a, b, c>>[first]

Estimate(filter, a, b, c) ==
  IF filter = 4 THEN Nearest(a, b, c) ELSE <<0, a, b, (a + b) \div 2>>[filter + 1]

Filtered(filter, stride, row, above) ==
  [i \in DOMAIN row |->
     (row[i] - Estimate(filter, Left(row, stride, i), above[i], Left(above, stride, i))) % Values]
=============================================================================
