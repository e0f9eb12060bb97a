-------------------------- MODULE ImageFileProofs --------------------------
(***************************************************************************)
(* Proofs about the PNG library and the two functions that use it, for     *)
(* bytes of any width and pictures of any size: the filters are taken back *)
(* byte by byte and row by row, and what is read is what was written.      *)
(***************************************************************************)
EXTENDS ImageFile, SequenceTheorems, WellFoundedInduction, TLAPS

(* The comparisons of png_paeth() choose what the standard asks for: of    *)
(* the three neighbours the one nearest to the estimate a + b - c, and of  *)
(* several the first, whatever the values.                                 *)
THEOREM PaethIsNearest ==
  ASSUME NEW a \in Int, NEW b \in Int, NEW c \in Int
  PROVE  png_paeth(a, b, c) = Nearest(a, b, c)
<1> DEFINE d == <<Abs(b - c), Abs(a - c), Abs(a + b - 2 * c)>>
           First(k) == \A m \in 1 .. 3 : d[k] <= d[m] /\ (m < k => d[k] < d[m])
           first == IF d[1] <= d[2] /\ d[1] <= d[3] THEN 1 ELSE IF d[2] <= d[3] THEN 2 ELSE 3
<1>1. /\ Abs((a + b - c) - a) = Abs(b - c)
      /\ Abs((a + b - c) - b) = Abs(a - c)
      /\ Abs((a + b - c) - c) = Abs(a + b - 2 * c)
  BY DEF Abs
<1>2. /\ d[1] = Abs(b - c) /\ d[2] = Abs(a - c) /\ d[3] = Abs(a + b - 2 * c)
      /\ d[1] \in Nat /\ d[2] \in Nat /\ d[3] \in Nat
  BY DEF Abs
<1>3. first \in 1 .. 3 /\ First(first)
  BY <1>2
<1>4. \A k \in 1 .. 3 : First(k) => k = first
  BY <1>2
<1>5. (CHOOSE k \in 1 .. 3 : First(k)) = first
  <2> HIDE DEF First, first
  <2> QED BY <1>3, <1>4
<1>6. Nearest(a, b, c) = <<a, b, c>>[first]
  BY <1>5 DEF Nearest
<1>7. png_paeth(a, b, c) = <<a, b, c>>[first]
  BY <1>1, <1>2 DEF png_paeth
<1> QED BY <1>6, <1>7

-----------------------------------------------------------------------------
(* Division with remainder, and its uniqueness.                            *)
LEMMA Division ==
  ASSUME NEW v \in Nat \ {0}, NEW n \in Int
  PROVE  /\ n \div v \in Int
         /\ n % v \in 0 .. (v - 1)
         /\ n = (v * (n \div v)) + (n % v)
  BY SMT

LEMMA SameRemainder ==
  ASSUME NEW v \in Nat \ {0}, NEW x \in 0 .. (v - 1), NEW y \in 0 .. (v - 1),
         NEW q \in Int, x - y = v * q
  PROVE  x = y
  BY SMT

(* What was subtracted from a byte can be added again.                     *)
LEMMA AddedAgain ==
  ASSUME NEW v \in Nat \ {0}, NEW x \in 0 .. (v - 1), NEW e \in Int
  PROVE  (((x - e) % v) + e) % v = x
<1> DEFINE n == x - e
           y == n % v
           q == n \div v
           m == y + e
           z == m % v
           r == m \div v
<1>1. n \in Int
  OBVIOUS
<1>2. y \in 0 .. (v - 1) /\ q \in Int /\ n = (v * q) + y
  <2> HIDE DEF n
  <2> QED BY <1>1, Division
<1>3. m \in Int
  <2> HIDE DEF y
  <2> QED BY <1>2
<1>4. z \in 0 .. (v - 1) /\ r \in Int /\ m = (v * r) + z
  <2> HIDE DEF m
  <2> QED BY <1>3, Division
<1>5. x - z = v * (q + r)
  <2>1. \A i, j \in Int : v * (i + j) = (v * i) + (v * j)
    OBVIOUS
  <2>2. (v * q) \in Int /\ (v * r) \in Int /\ v * (q + r) = (v * q) + (v * r)
    <3> HIDE DEF q, r
    <3> QED BY <1>2, <1>4, <2>1
  <2>3. \A i, j \in Int : n = i + y /\ m = j + z => x - z = i + j
    <3> HIDE DEF y, z
    <3> QED BY <1>2, <1>4
  <2> HIDE DEF n, y, q, m, z, r
  <2> QED BY <1>2, <1>4, <2>2, <2>3
<1>6. q + r \in Int
  <2> HIDE DEF q, r
  <2> QED BY <1>2, <1>4
<1>7. x = z
  <2> HIDE DEF n, y, q, m, z, r
  <2> QED BY <1>4, <1>5, <1>6, SameRemainder
<1> QED BY <1>7

-----------------------------------------------------------------------------
(* What png_filter_sub(), _up(), _average() and _paeth() add to a byte is  *)
(* what the standard subtracted from it: from the same neighbours a byte   *)
(* of any row comes back, for each of the filters.                         *)
THEOREM ByteComesBack ==
  ASSUME NEW filter \in FilterNumber, NEW x \in Byte,
         NEW a \in Byte, NEW b \in Byte, NEW c \in Byte
  PROVE  (((x - Estimate(filter, a, b, c)) % Values) + Predicted(filter, a, b, c)) % Values = x
<1> USE ValuesAssumption
<1>1. a \in Int /\ b \in Int /\ c \in Int
  BY DEF Byte
<1>2. Estimate(filter, a, b, c) \in Int /\ Estimate(filter, a, b, c) = Predicted(filter, a, b, c)
  <2>1. CASE filter = 4
    <3>1. png_paeth(a, b, c) \in Int
      BY <1>1 DEF png_paeth
    <3> QED BY <1>1, <2>1, <3>1, PaethIsNearest DEF Estimate, Predicted
  <2>2. CASE filter \in 0 .. 3
    BY <1>1, <2>2 DEF Estimate, Predicted
  <2> QED BY <2>1, <2>2 DEF FilterNumber
<1>3. x \in 0 .. (Values - 1)
  BY DEF Byte
<1> QED BY <1>2, <1>3, AddedAgain

-----------------------------------------------------------------------------
(* A nonempty set of numbers has a least one: proofs about rows and their  *)
(* bytes are by induction.                                                 *)
LEMMA LeastNatural ==
  ASSUME NEW T, T \subseteq Nat, T # {}
  PROVE  \E m \in T : \A k \in T : m <= k
<1> DEFINE R == OpToRel(<, Nat)
<1>1. IsWellFoundedOn(R, Nat)
  BY NatLessThanWellFounded
<1>2. R = {ss \in Nat \X Nat : ss[1] < ss[2]}
  BY DEF OpToRel
<1> HIDE DEF R
<1>3. PICK m \in T : \A y \in T : ~ (<<y, m>> \in R)
  BY <1>1, WFMin
<1>4. \A y \in T : ~(y < m)
  BY <1>2, <1>3
<1> QED
  BY <1>3, <1>4

(* A row that was filtered for its neighbours comes back whole, whatever   *)
(* its length, the filter and the bytes of a pixel (png_unfilter() goes    *)
(* from left to right and uses what it has just made).                     *)
THEOREM RowComesBack ==
  ASSUME NEW filter \in FilterNumber, NEW stride \in Nat \ {0}, NEW n \in Nat,
         NEW row \in [1 .. n -> Byte], NEW above \in [1 .. n -> Byte]
  PROVE  Unfiltered(filter, stride, Filtered(filter, stride, row, above), above) = row
<1> DEFINE D == 1 .. n
           in == Filtered(filter, stride, row, above)
           G(out, i) == (in[i] + Predicted(filter, IF i > stride THEN out[i - stride] ELSE 0,
                                 above[i], Left(above, stride, i))) % Values
           Solves(out) == out = [i \in D |-> G(out, i)]
<1>1. DOMAIN in = D
  BY DEF Filtered
<1>2. 0 \in Byte
  BY ValuesAssumption DEF Byte
<1>3. \A i \in D : i > stride => i - stride \in D /\ i - stride < i
  OBVIOUS
<1>4. \A i \in D : Left(row, stride, i) \in Byte /\ Left(above, stride, i) \in Byte
  BY <1>2, <1>3 DEF Left
<1>5. \A i \in D : in[i] = (row[i] - Estimate(filter, Left(row, stride, i), above[i],
                                        Left(above, stride, i))) % Values
  BY DEF Filtered
<1>6. \A i \in D : (in[i] + Predicted(filter, Left(row, stride, i), above[i],
                                Left(above, stride, i))) % Values = row[i]
  <2> TAKE i \in D
  <2>1. row[i] \in Byte /\ above[i] \in Byte
    OBVIOUS
  <2> HIDE DEF in
  <2> QED
    BY <1>4, <1>5, <2>1, ByteComesBack
<1>7. \A i \in D : G(row, i) = row[i]
  <2> HIDE DEF in
  <2> QED
    BY <1>6 DEF Left
<1>8. Solves(row)
  <2> HIDE DEF G
  <2> QED
    BY <1>7
<1>9. ASSUME NEW out, Solves(out) PROVE out = row
  <2>1. \A i \in D : out[i] = G(out, i)
    <3> HIDE DEF G
    <3> QED
      BY <1>9
  <2>2. DOMAIN out = D /\ out = [i \in D |-> out[i]]
    <3> HIDE DEF G
    <3> QED
      BY <1>9
  <2>3. \A i \in D : out[i] = row[i]
    <3> SUFFICES ASSUME NEW j \in D, out[j] # row[j] PROVE FALSE
      OBVIOUS
    <3> DEFINE T == {i \in D : out[i] # row[i]}
    <3>1. PICK m \in T : \A k \in T : m <= k
      <4>1. T \subseteq Nat /\ T # {}
        OBVIOUS
      <4> HIDE DEF T
      <4> QED
        BY <4>1, LeastNatural
    <3>2. m > stride => out[m - stride] = row[m - stride]
      BY <1>3, <3>1
    <3>3. G(out, m) = G(row, m)
      BY <3>2
    <3> QED
      BY <1>7, <2>1, <3>1, <3>3
  <2> QED
    BY <2>2, <2>3
<1>10. Unfiltered(filter, stride, in, above) = CHOOSE out : Solves(out)
  BY <1>1 DEF Unfiltered
<1> HIDE DEF Solves
<1> QED
  BY <1>8, <1>9, <1>10

-----------------------------------------------------------------------------
(* Products: rows and pixels are found by multiplication.                  *)
LEMMA Products ==
  ASSUME NEW m \in Nat, NEW n \in Nat, NEW b \in Nat, m <= n
  PROVE  m * b \in Nat /\ n * b \in Nat /\ m * b <= n * b
OBVIOUS

LEMMA NextProduct ==
  ASSUME NEW k \in Int, NEW b \in Int
  PROVE  k * b \in Int /\ (k - 1) * b = (k * b) - b /\ (k + 1) * b = (k * b) + b
OBVIOUS

(* The bytes of pixel k of a row.                                          *)
PixelAt(row, b, k) == SubSeq(row, ((k - 1) * b) + 1, k * b)

LEMMA PixelBounds ==
  ASSUME NEW b \in Nat \ {0}, NEW w \in Nat, NEW k \in 1 .. w
  PROVE  /\ (k - 1) * b \in Nat /\ k * b \in Nat /\ w * b \in Nat
         /\ k * b = ((k - 1) * b) + b /\ k * b <= w * b
<1>1. k - 1 \in Nat /\ k \in Nat /\ k <= w
  OBVIOUS
<1>2. (k - 1) * b = (k * b) - b
  BY <1>1, NextProduct
<1>3. k * b \in Nat /\ w * b \in Nat /\ (k - 1) * b \in Nat /\ k * b <= w * b
  BY <1>1, Products
<1> QED
  BY <1>2, <1>3

(* The pixels of a row put together are the row.                           *)
LEMMA RowOfPixels ==
  ASSUME NEW S, NEW b \in Nat \ {0}, NEW w \in Nat \ {0}, NEW row \in Seq(S), Len(row) = w * b
  PROVE  FlattenSeq([k \in 1 .. w |-> PixelAt(row, b, k)]) = row
<1> DEFINE D == 1 .. w
           pixels == [k \in D |-> PixelAt(row, b, k)]
           G(f, i) == IF i = 1 THEN pixels[i] ELSE f[i - 1] \o pixels[i]
           Solves(f) == f = [i \in D |-> G(f, i)]
           front == [i \in D |-> SubSeq(row, 1, i * b)]
<1>1. Len(pixels) = w /\ w # 0 /\ w \in D
  OBVIOUS
<1>2. \A i \in D : G(front, i) = front[i]
  <2> TAKE i \in D
  <2>1. /\ (i - 1) * b \in Nat /\ i * b \in Nat /\ i * b = ((i - 1) * b) + b /\ i * b <= w * b
    BY PixelBounds
  <2>2. pixels[i] = SubSeq(row, ((i - 1) * b) + 1, i * b)
    BY DEF PixelAt
  <2>3. CASE i = 1
    <3>1. (i - 1) * b = 0
      BY <2>3
    <3> QED
      BY <2>2, <2>3, <3>1
  <2>4. CASE i # 1
    <3> DEFINE k == (i - 1) * b
               n == i * b
    <3>1. i - 1 \in D /\ front[i - 1] = SubSeq(row, 1, k)
      BY <2>4
    <3>2. k \in 0 .. Len(row) /\ n \in k .. Len(row) /\ 1 \in 1 .. (Len(row) + 1)
      <4> HIDE DEF k, n
      <4> QED
        BY <2>1 DEF k, n
    <3>3. SubSeq(row, 1, k) \o SubSeq(row, k + 1, n) = SubSeq(row, 1, n)
      <4>1. k \in (1 - 1) .. Len(row)
        BY <3>2
      <4> HIDE DEF k, n
      <4> QED
        BY <3>2, <4>1, ConcatAdjacentSubSeq
    <3> QED
      BY <2>2, <2>4, <3>1, <3>3
  <2> QED
    BY <2>3, <2>4
<1>3. Solves(front)
  <2> HIDE DEF G
  <2> QED
    BY <1>2
<1>4. ASSUME NEW f, Solves(f) PROVE f = front
  <2>1. \A i \in D : f[i] = G(f, i)
    <3> HIDE DEF G
    <3> QED
      BY <1>4
  <2>2. f = [i \in D |-> f[i]]
    <3> HIDE DEF G
    <3> QED
      BY <1>4
  <2>3. \A i \in D : f[i] = front[i]
    <3> SUFFICES ASSUME NEW j \in D, f[j] # front[j] PROVE FALSE
      OBVIOUS
    <3> DEFINE T == {i \in D : f[i] # front[i]}
    <3>1. PICK m \in T : \A k \in T : m <= k
      <4>1. T \subseteq Nat /\ j \in T
        <5> HIDE DEF front, pixels, G
        <5> QED
          OBVIOUS
      <4> HIDE DEF T
      <4> QED
        BY <4>1, LeastNatural
    <3>2. m \in D /\ f[m] # front[m] /\ (m # 1 => f[m - 1] = front[m - 1])
      <4> HIDE DEF front
      <4> QED
        BY <3>1
    <3>3. G(f, m) = G(front, m)
      <4> HIDE DEF front, pixels
      <4> QED
        BY <3>2
    <3> HIDE DEF G, front, pixels
    <3> QED
      BY <1>2, <2>1, <3>2, <3>3
  <2> HIDE DEF G
  <2> QED
    BY <2>2, <2>3
<1>5. FlattenSeq(pixels) = (CHOOSE f : Solves(f))[w]
  <2> HIDE DEF pixels
  <2> QED
    BY <1>1 DEF FlattenSeq
<1>6. (CHOOSE f : Solves(f)) = front
  <2> HIDE DEF Solves, front
  <2> QED
    BY <1>3, <1>4
<1>7. front[w] = SubSeq(row, 1, Len(row))
  BY <1>1
<1>8. SubSeq(row, 1, Len(row)) = row
  OBVIOUS
<1> QED
  BY <1>5, <1>6, <1>7, <1>8

-----------------------------------------------------------------------------
(* Sizes that follow from the shape of the file.                           *)
LEMMA Sizes ==
  ASSUME shape \in Shapes
  PROVE  /\ width \in Nat \ {0} /\ height \in Nat \ {0} /\ png_get_bpp \in Nat
         /\ color_type \in ColorType /\ RowLength \in Nat
         /\ png_datalen \in Nat /\ png_datalen > 0
         /\ (RowLength + 1) * height = png_datalen
         /\ Truecolor => png_get_bpp # 0
<1>1. width \in Nat \ {0} /\ height \in Nat \ {0} /\ color_type \in ColorType /\ depth \in 1 .. 16
  BY ImageFileAssumption DEF width, height, color_type, depth
<1>2. Colours \in Nat \ {0}
  BY ImageFileAssumption
<1>3. png_get_bpp \in Nat
  <2>1. depth \div 8 \in Nat
    BY <1>1
  <2>2. 2 * (depth \div 8) \in Nat /\ Colours * (depth \div 8) \in Nat
        /\ (Colours + 1) * (depth \div 8) \in Nat
    BY <1>2, <2>1
  <2> QED
    BY <1>1, <2>1, <2>2 DEF ColorType, png_get_bpp
<1> DEFINE b == png_get_bpp
<1>4. Truecolor => b # 0
  BY <1>2 DEF Truecolor
<1> HIDE DEF b
<1>5. \A x, y \in Nat : x * y \in Nat
  OBVIOUS
<1>6. RowLength \in Nat
  BY <1>1, <1>3, <1>5 DEF RowLength
<1>7. width * height * png_get_bpp = RowLength * height
  <2>1. \A x, y, z \in Nat : x * y * z = (x * z) * y
    OBVIOUS
  <2> QED
    BY <1>1, <1>3, <2>1 DEF RowLength
<1>8. RowLength * height \in Nat /\ (RowLength + 1) * height = (RowLength * height) + height
  BY <1>1, <1>5, <1>6, NextProduct
<1> QED
  BY <1>1, <1>3, <1>4, <1>6, <1>7, <1>8 DEF png_datalen, b

LEMMA RowsFit ==
  ASSUME shape \in Shapes, NEW r \in 1 .. height
  PROVE  /\ r * (RowLength + 1) \in Nat /\ (r - 1) * (RowLength + 1) \in Nat
         /\ (r - 1) * (RowLength + 1) <= r * (RowLength + 1)
         /\ r * (RowLength + 1) <= png_datalen
         /\ \A q \in 1 .. r : q * (RowLength + 1) <= r * (RowLength + 1)
<1> DEFINE b == RowLength + 1
<1>1. b \in Nat /\ height \in Nat /\ b * height = png_datalen
  BY Sizes
<1>2. height * b = b * height
  BY <1>1
<1> HIDE DEF b
<1>3. r - 1 \in Nat /\ r \in Nat /\ r - 1 <= r /\ r <= height
  BY <1>1
<1>4. \A q \in 1 .. r : q \in Nat /\ q <= r
  OBVIOUS
<1>5. (r - 1) * b \in Nat /\ r * b \in Nat /\ (r - 1) * b <= r * b /\ r * b <= height * b
  BY <1>1, <1>3, Products
<1>6. \A q \in 1 .. r : q * b <= r * b
  BY <1>1, <1>3, <1>4, Products
<1> QED
  BY <1>1, <1>2, <1>5, <1>6 DEF b

(* Nothing changes the machine or the file's shape.                        *)
LEMMA SameShape ==
  ASSUME UNCHANGED machine
  PROVE  /\ UNCHANGED <<little_endian, shape, origin>>
         /\ UNCHANGED <<width, height, color_type, depth, png_get_bpp, RowLength, png_datalen>>
         /\ UNCHANGED <<Target, Buffers>>
         /\ Truecolor' <=> Truecolor
<1>1. UNCHANGED <<little_endian, shape, origin>>
  BY DEF machine
<1>2. UNCHANGED <<width, height, color_type, depth>>
  BY <1>1 DEF width, height, color_type, depth
<1>3. UNCHANGED png_get_bpp
  BY <1>2 DEF png_get_bpp
<1>4. UNCHANGED <<RowLength, png_datalen>>
  BY <1>2, <1>3 DEF RowLength, png_datalen
<1>5. UNCHANGED <<Target, Buffers>> /\ (Truecolor' <=> Truecolor)
  BY <1>2, <1>3 DEF Target, Buffers, Truecolor
<1> QED
  BY <1>1, <1>2, <1>3, <1>4, <1>5

-----------------------------------------------------------------------------
(* Pixels: a pixel of an image is a word of a byte for each colour and one *)
(* for alpha.                                                              *)
RowBytes == [1 .. RowLength -> Byte]
Word == [1 .. (Colours + 1) -> Byte]

LEMMA ReverseTwice ==
  ASSUME NEW n \in Nat, NEW S, NEW p \in [1 .. n -> S]
  PROVE  Reverse(p) \in [1 .. n -> S] /\ Reverse(Reverse(p)) = p
<1> DEFINE q == Reverse(p)
<1>1. Len(p) = n
  OBVIOUS
<1>2. q = [i \in 1 .. n |-> p[(n - i) + 1]]
  BY <1>1 DEF Reverse
<1>3. \A i \in 1 .. n : (n - i) + 1 \in 1 .. n /\ (n - ((n - i) + 1)) + 1 = i
  OBVIOUS
<1>4. q \in [1 .. n -> S]
  BY <1>2, <1>3
<1>5. \A i \in 1 .. n : q[i] = p[(n - i) + 1]
  BY <1>2
<1> HIDE DEF q
<1>6. Len(q) = n
  BY <1>4
<1>7. Reverse(q) = [i \in 1 .. n |-> q[(n - i) + 1]]
  BY <1>6 DEF Reverse
<1>8. \A i \in 1 .. n : q[(n - i) + 1] = p[i]
  BY <1>3, <1>5
<1>9. Reverse(q) = [i \in 1 .. n |-> p[i]]
  BY <1>7, <1>8
<1> QED
  BY <1>4, <1>9 DEF q

(* Swapping the bytes of a word in a register and then storing it, or      *)
(* loading it and then swapping, changes nothing on either machine.        *)
LEMMA SwapCancels ==
  ASSUME NEW n \in Nat, NEW S, NEW p \in [1 .. n -> S]
  PROVE  InMemory(Swapped(p)) = p /\ Swapped(FromMemory(p)) = p
BY ReverseTwice DEF InMemory, FromMemory, Swapped, byteswap

LEMMA PixelBytes ==
  ASSUME shape \in Shapes, png_get_bpp # 0, NEW row \in RowBytes, NEW k \in 1 .. width
  PROVE  Pixels(row, png_get_bpp)[k] \in [1 .. png_get_bpp -> Byte]
<1> DEFINE b == png_get_bpp
           m == (k - 1) * b
<1>1. b \in Nat \ {0} /\ width \in Nat /\ RowLength = width * b
  BY Sizes DEF RowLength
<1> HIDE DEF b
<1>2. m \in Nat /\ k * b = m + b /\ k * b <= RowLength /\ RowLength \in Nat
  BY <1>1, PixelBounds
<1>3. Pixels(row, b)[k] = SubSeq(row, m + 1, m + b)
  BY <1>2 DEF Pixels
<1> HIDE DEF m
<1>4. Len(row) = RowLength /\ row \in Seq(Byte)
  BY <1>2 DEF RowBytes
<1>5. SubSeq(row, m + 1, m + b) = [i \in 1 .. b |-> row[i + m]]
  <2>1. (m + b) - (m + 1) + 1 = b /\ \A i \in 1 .. b : i + (m + 1) - 1 = i + m
    BY <1>1, <1>2
  <2>2. SubSeq(row, m + 1, m + b) = [i \in 1 .. ((m + b) - (m + 1) + 1) |-> row[i + (m + 1) - 1]]
    BY <1>1, <1>2, <1>4
  <2> QED
    BY <2>1, <2>2
<1>6. \A i \in 1 .. b : i + m \in 1 .. RowLength
  BY <1>1, <1>2
<1>7. [i \in 1 .. b |-> row[i + m]] \in [1 .. b -> Byte]
  BY <1>6 DEF RowBytes
<1> QED
  BY <1>3, <1>5, <1>7 DEF b

LEMMA OpaqueWord ==
  ASSUME NEW p \in [1 .. Colours -> Byte]
  PROVE  Opaque(p) \in Word
<1>1. Colours \in Nat /\ Values - 1 \in Byte
  BY ImageFileAssumption, ValuesAssumption DEF Byte
<1>2. p \in Seq(Byte) /\ Len(p) = Colours
  BY <1>1
<1>3. Append(p, Values - 1) \in Seq(Byte) /\ Len(Append(p, Values - 1)) = Colours + 1
  BY <1>1, <1>2
<1>4. \A s \in Seq(Byte) : s \in [1 .. Len(s) -> Byte]
  OBVIOUS
<1>5. Append(p, Values - 1) \in [1 .. (Colours + 1) -> Byte]
  BY <1>3, <1>4
<1> QED
  BY <1>5 DEF Opaque, Word

(* img_read() makes of a row what it shows.                                *)
LEMMA RowShown ==
  ASSUME shape \in Shapes, Truecolor, NEW row \in RowBytes
  PROVE  /\ Shown(row) \in [1 .. width -> Word]
         /\ LET pixels == Pixels(row, png_get_bpp)
            IN [k \in 1 .. width |-> Converted(pixels[k])] = Shown(row)
<1> DEFINE b == png_get_bpp
           pixels == Pixels(row, b)
<1>1. b \in Nat \ {0}
  BY Sizes
<1>2. \A k \in 1 .. width : pixels[k] \in [1 .. b -> Byte]
  BY <1>1, PixelBytes
<1>3. pixels = [k \in 1 .. width |-> pixels[k]]
  BY DEF Pixels
<1>4. CASE color_type = "PNG_TRUECOLOR" /\ b = Colours
  <2> HIDE DEF pixels
  <2>1. \A k \in 1 .. width : Opaque(pixels[k]) \in Word
    BY <1>2, <1>4, OpaqueWord
  <2>2. Shown(row) = [k \in 1 .. width |-> Opaque(pixels[k])]
    BY <1>4 DEF Shown, pixels
  <2>3. \A k \in 1 .. width : Converted(pixels[k]) = Opaque(pixels[k])
    BY <1>4 DEF Converted
  <2> QED
    BY <2>1, <2>2, <2>3 DEF pixels
<1>5. CASE color_type = "PNG_TRUECOLOR_ALPHA" /\ b = Colours + 1
  <2> HIDE DEF pixels, b
  <2>1. Shown(row) = pixels
    BY <1>5 DEF Shown, pixels, b
  <2>2. \A k \in 1 .. width : Converted(pixels[k]) = pixels[k]
    BY <1>1, <1>2, <1>5, SwapCancels DEF Converted
  <2>3. pixels \in [1 .. width -> Word]
    BY <1>2, <1>3, <1>5 DEF Word
  <2>4. [k \in 1 .. width |-> Converted(pixels[k])] = pixels
    BY <1>3, <2>2
  <2> QED
    BY <2>1, <2>3, <2>4 DEF pixels, b
<1> QED
  BY <1>4, <1>5 DEF Truecolor

(* The first filter predicts nothing.                                      *)
LEMMA NothingPredicted ==
  ASSUME NEW stride \in Nat \ {0}, NEW n \in Nat,
         NEW row \in [1 .. n -> Byte], NEW above \in [1 .. n -> Byte]
  PROVE  Unfiltered(0, stride, row, above) = row
<1>1. \A x \in Byte : (x - 0) % Values = x
  BY ValuesAssumption DEF Byte
<1>2. \A a, b, c : Estimate(0, a, b, c) = 0
  BY DEF Estimate
<1>3. Filtered(0, stride, row, above) = [i \in DOMAIN row |-> (row[i] - 0) % Values]
  BY <1>2 DEF Filtered
<1>4. [i \in DOMAIN row |-> (row[i] - 0) % Values] = row
  BY <1>1
<1>5. 0 \in FilterNumber
  BY DEF FilterNumber
<1>6. Unfiltered(0, stride, Filtered(0, stride, row, above), above) = row
  BY <1>5, RowComesBack
<1> QED
  BY <1>3, <1>4, <1>6

-----------------------------------------------------------------------------
(* The inductive invariant.  Which memory is in use at every step, and     *)
(* that nothing was read before the chunks are: without it no path could   *)
(* be seen to give everything back.                                        *)
Writing == {"img_write", "png_set_data", "png_write_ihdr", "png_write_idats", "png_close_file"}
Opening == {"img_read", "opened"}
Untouched == zlib = "none" /\ data = <<>> /\ inflated = 0 /\ result = "PNG_NO_ERROR"
Leaked == IF zlib = "not_initialised" THEN {"zs"} ELSE {}

InUse ==
  CASE pc \in {"img_write", "img_read", "opened"} -> {}
    [] pc \in {"png_set_data", "png_close_file"} -> {"data_to_write"}
    [] pc \in {"png_write_ihdr", "png_write_idats"} -> {"data_to_write", "filtered"}
    [] pc = "png_get_data" -> Buffers \cup Reading
    [] pc = "png_unfilter" -> Buffers \cup {"png_data"} \cup Leaked
    [] pc = "convert" -> Buffers \cup Leaked
    [] pc = "returned" ->
         Forgotten \cup (IF returned = "IMG_SUCCESS" /\ result = "PNG_DONE" THEN {"pixel_data"} ELSE {})
    [] OTHER -> Block

MemoryInv ==
  /\ allocated \subseteq InUse
  /\ pc \in {"img_write", "img_read"} => user_pointer = "none"
  /\ pc \in Writing \cup Opening => Untouched
  /\ pc = "returned" /\ result = "PNG_NO_ERROR" => Untouched
  /\ pc = "png_get_data" => data = <<>>
  /\ pc \in {"png_get_data", "png_unfilter", "convert"} => Truecolor
  /\ pc \in {"png_unfilter", "convert"} => result = "PNG_DONE"
  /\ pc = "returned" /\ user_pointer # "none" => user_pointer = "read" /\ returned = "IMG_ERR_COULD_NOT_OPEN"

(* The file that img_write() writes holds the picture, and png_get_data()  *)
(* finds all of it in its first chunk, or fails for want of memory or of   *)
(* the file.                                                               *)
Stage ==
  \/ result = "PNG_NO_ERROR" /\ left = 2 /\ inflated = 0
  \/ result = "PNG_NO_ERROR" /\ left = 1 /\ inflated = png_datalen
  \/ result = "PNG_DONE" /\ inflated = png_datalen
  \/ result \in {"PNG_MEMORY_ERROR", "PNG_FILE_ERROR", "PNG_CRC_ERROR"}
  \/ result = "PNG_ZLIB_ERROR" /\ zlib = "not_initialised"

WrittenInv ==
  origin = "written" =>
    /\ color_type = "PNG_TRUECOLOR_ALPHA" /\ Truecolor
    /\ Len(picture) = height
    /\ disk = picture \/ (disk = <<>> /\ pc \in {"img_write", "png_set_data", "returned", "killed"})
    /\ pc \in Writing => image = Expected
    /\ pc \in Writing \cup Opening => left = 2
    /\ pc = "returned" /\ result = "PNG_NO_ERROR" => left = 2
    /\ pc = "png_get_data" => Stage
    /\ pc \in {"png_unfilter", "convert"} => inflated = png_datalen
    /\ WrittenReadsBack

FoundInv ==
  origin = "found" =>
    /\ disk = <<>> /\ pc \notin Writing
    /\ pc \in Opening \cup {"png_get_data"} => picture = <<>>

(* The rows whose bytes are initialised are those of the picture.          *)
DataInv ==
  /\ pc \in {"png_get_data", "png_unfilter"} /\ inflated > 0 => "png_data" \in allocated
  /\ pc = "png_unfilter" =>
       /\ origin = "found" => Len(picture) <= Len(data)
       /\ \A r \in 1 .. Len(data) :
            r * (RowLength + 1) <= inflated => r <= Len(picture) /\ data[r] = picture[r]
  /\ pc = "convert" =>
       /\ Len(data) = height
       /\ inflated = png_datalen =>
            Len(picture) = height /\ \A r \in 1 .. height : data[r] = picture[r]
  /\ ReadsThePicture

IInv == TypeOK /\ MemoryInv /\ WrittenInv /\ FoundInv /\ DataInv

-----------------------------------------------------------------------------
(* What a step leaves alone.                                               *)
LEMMA Frame ==
  ASSUME Next
  PROVE  /\ UNCHANGED machine
         /\ UnfilterRow \/ UNCHANGED picture
         /\ FilterRows \/ UNCHANGED disk
         /\ ReadBack \/ Convert \/ UNCHANGED image
         /\ UnfilterRow \/ UnfilterGarbage \/ UnfilterDone \/ UNCHANGED data
<1> USE DEF machine, file, stream, output, Kept
<1>1. CASE OpenWrite \/ FilterRows \/ WriteHeader \/ WriteIdats \/ CloseWrite \/ ReadBack
  BY <1>1 DEF OpenWrite, FilterRows, WriteHeader, WriteIdats, CloseWrite, ReadBack
<1>2. CASE OpenFails \/ RefuseHeader \/ OpenRead \/ NotTruecolor \/ AllocatePixels
  BY <1>2 DEF OpenFails, RefuseHeader, OpenRead, NotTruecolor, AllocatePixels
<1>3. CASE EndOfFile \/ OutOfMemory \/ InflateInitFails \/ RefuseIdat
  BY <1>3 DEF EndOfFile, OutOfMemory, InflateInitFails, RefuseIdat
<1>4. CASE Inflate \/ InflateExcess \/ InflateNothing \/ IendFound \/ SkipChunk
  BY <1>4 DEF Inflate, InflateExcess, InflateNothing, IendFound, SkipChunk
<1>5. CASE ChunksDone \/ ChunksFailed \/ UnknownFilter \/ NullPointer
  BY <1>5 DEF ChunksDone, ChunksFailed, UnknownFilter, NullPointer
<1>6. CASE UnfilterRow \/ UnfilterGarbage \/ UnfilterDone \/ Convert
  BY <1>6 DEF UnfilterRow, UnfilterGarbage, UnfilterDone, Convert
<1> QED
  BY <1>1, <1>2, <1>3, <1>4, <1>5, <1>6 DEF Next

LEMMA RowsAbove ==
  ASSUME TypeOK, shape \in Shapes
  PROVE  /\ \A i \in 1 .. Len(picture) : picture[i] \in RowBytes
         /\ \A i \in 1 .. Len(data) : data[i] \in RowBytes
         /\ Len(data) \in Nat /\ Len(picture) \in Nat
         /\ picture \in Seq(RowBytes) /\ data \in Seq(RowBytes)
BY DEF TypeOK, RowBytes

(* png_unfilter() brings a row back that has all its bytes.                *)
LEMMA RowUnfiltered ==
  ASSUME IInv, UnfilterRow
  PROVE  \E row \in RowBytes :
            /\ data' = Append(data, row)
            /\ origin = "written" =>
                  Len(data) + 1 <= Len(picture) /\ picture' = picture /\ row = picture[Len(data) + 1]
            /\ origin # "written" =>
                  Len(picture) = Len(data) /\ picture' = Append(picture, row)
<1>1. TypeOK /\ shape \in Shapes /\ Truecolor /\ pc = "png_unfilter" /\ Row = Len(data) + 1
      /\ Row <= height
  BY DEF IInv, TypeOK, MemoryInv, UnfilterRow, Unfiltering, Row
<1> DEFINE b == png_get_bpp
<1>2. b \in Nat \ {0} /\ RowLength \in Nat /\ height \in Nat
  BY <1>1, Sizes
<1>3. /\ \A i \in 1 .. Len(picture) : picture[i] \in RowBytes
      /\ \A i \in 1 .. Len(data) : data[i] \in RowBytes
      /\ Len(data) \in Nat /\ Len(picture) \in Nat
  BY <1>1, RowsAbove
<1>4. Row \in 1 .. height
  BY <1>1, <1>2, <1>3
<1>5. \A r \in 1 .. Len(data) : r <= Len(picture) /\ data[r] = picture[r]
  <2>1. Row * (RowLength + 1) <= inflated
    BY DEF UnfilterRow, Initialised
  <2>2. \A r \in 1 .. Len(data) : r \in 1 .. Row
    BY <1>1, <1>3
  <2>3. \A r \in 1 .. Row : r * (RowLength + 1) <= Row * (RowLength + 1)
    BY <1>1, <1>4, RowsFit
  <2>4. inflated \in Nat /\ Row * (RowLength + 1) \in Nat
    BY <1>1, <1>4, Sizes, RowsFit DEF TypeOK
  <2>5. \A r \in 1 .. Row : r * (RowLength + 1) \in Nat
    BY <1>1, <1>2
  <2>6. \A r \in 1 .. Len(data) : r * (RowLength + 1) <= inflated
    BY <2>1, <2>2, <2>3, <2>4, <2>5
  <2> QED
    BY <1>1, <2>6 DEF IInv, DataInv
<1>6. \A row \in RowBytes : Zeros(row) \in RowBytes
  <2>1. 0 \in Byte
    BY ValuesAssumption DEF Byte
  <2> QED
    BY <2>1 DEF Zeros, RowBytes
<1>7. CASE origin = "written"
  <2>1. disk = picture /\ Len(picture) = height
    BY <1>1, <1>7 DEF IInv, WrittenInv
  <2>2. picture[Row] \in RowBytes
    BY <1>3, <1>4, <2>1
  <2> DEFINE row == picture[Row]
             zeros == Zeros(row)
  <2>3. /\ data' = Append(data, Unfiltered(0, b, row, Above(data, zeros)))
        /\ picture' = picture
    <3>1. disk[Row] = row
      BY <2>1
    <3> HIDE DEF b, row
    <3> QED
      BY <1>7, <3>1 DEF UnfilterRow, b
  <2>4. Above(data, zeros) \in RowBytes
    <3> HIDE DEF row
    <3>1. zeros \in RowBytes
      BY <1>6, <2>2 DEF row
    <3>2. Row # 1 => Row - 1 \in 1 .. Len(data)
      BY <1>1, <1>3
    <3> QED
      BY <1>3, <3>1, <3>2 DEF Above
  <2>5. Unfiltered(0, b, row, Above(data, zeros)) = row
    <3> HIDE DEF b, row, zeros
    <3> QED
      BY <1>2, <2>2, <2>4, NothingPredicted DEF RowBytes, row
  <2>6. Len(data) + 1 <= Len(picture)
    BY <1>1, <2>1
  <2> QED
    BY <1>1, <1>7, <2>2, <2>3, <2>5, <2>6
<1>8. CASE origin # "written"
  <2>1. origin = "found"
    BY <1>1, <1>8 DEF TypeOK
  <2>2. Len(picture) = Len(data)
    <3>1. Len(picture) <= Len(data)
      BY <1>1, <2>1 DEF IInv, DataInv
    <3>2. Len(data) # 0 => Len(data) <= Len(picture)
      BY <1>3, <1>5
    <3> QED
      BY <1>3, <3>1, <3>2
  <2>3. PICK shown \in RowBytes, filter \in FilterNumber :
          LET above == IF Row = 1 THEN Zeros(shown) ELSE picture[Row - 1]
          IN /\ data' = Append(data, Unfiltered(filter, b, Filtered(filter, b, shown, above),
                                                Above(data, Zeros(shown))))
             /\ picture' = Append(picture, shown)
    BY <1>8 DEF UnfilterRow, RowBytes
  <2> DEFINE zeros == Zeros(shown)
             above == IF Row = 1 THEN zeros ELSE picture[Row - 1]
  <2>4. /\ data' = Append(data, Unfiltered(filter, b, Filtered(filter, b, shown, above), Above(data, zeros)))
        /\ picture' = Append(picture, shown)
    BY <2>3
  <2>5. Row # 1 => Row - 1 \in 1 .. Len(data)
    BY <1>1, <1>3
  <2>6. Above(data, zeros) = above
    <3> HIDE DEF zeros
    <3> QED
      BY <1>5, <2>5 DEF Above
  <2>7. above \in RowBytes
    <3>1. zeros \in RowBytes
      BY <1>6
    <3>2. Row # 1 => picture[Row - 1] \in RowBytes
      BY <1>3, <2>2, <2>5
    <3> HIDE DEF zeros
    <3> QED
      BY <3>1, <3>2
  <2> HIDE DEF zeros, above, b
  <2>8. Unfiltered(filter, b, Filtered(filter, b, shown, above), above) = shown
    BY <1>2, <2>7, RowComesBack DEF RowBytes
  <2>9. data' = Append(data, shown)
    BY <2>4, <2>6, <2>8
  <2> QED
    BY <1>8, <2>2, <2>4, <2>9
<1> QED
  BY <1>7, <1>8

(* img_write() stores the bytes of the picture in the order they belong.   *)
LEMMA RowsFiltered ==
  ASSUME IInv, FilterRows, pc' = "png_write_ihdr"
  PROVE  disk' = picture
<1>1. TypeOK /\ shape \in Shapes /\ pc = "png_set_data"
  BY DEF IInv, TypeOK, FilterRows
<1>2. origin = "written"
  BY <1>1 DEF IInv, TypeOK, FoundInv, Writing
<1>3. color_type = "PNG_TRUECOLOR_ALPHA" /\ Truecolor /\ Len(picture) = height /\ image = Expected
  BY <1>1, <1>2 DEF IInv, WrittenInv, Writing
<1> DEFINE b == png_get_bpp
<1>4. b \in Nat \ {0} /\ width \in Nat \ {0} /\ RowLength = width * b /\ RowLength \in Nat
      /\ height \in Nat
  BY <1>1, <1>3, Sizes DEF RowLength
<1>5. \A r \in 1 .. height : picture[r] \in RowBytes
  BY <1>1, <1>3, RowsAbove
<1>6. ASSUME NEW r \in 1 .. height
      PROVE  FlattenSeq([k \in 1 .. width |-> InMemory(Swapped(image[r][k]))]) = picture[r]
  <2> DEFINE row == picture[r]
  <2>1. row \in RowBytes
    BY <1>5
  <2>2. image[r] = Pixels(row, b)
    BY <1>3 DEF Expected, Shown
  <2>3. ASSUME NEW k \in 1 .. width
        PROVE  InMemory(Swapped(image[r][k])) = PixelAt(row, b, k)
    <3>1. Pixels(row, b)[k] \in [1 .. b -> Byte]
      BY <1>1, <1>4, <2>1, PixelBytes
    <3> HIDE DEF row, b
    <3>2. InMemory(Swapped(image[r][k])) = Pixels(row, b)[k]
      BY <1>4, <2>2, <3>1, SwapCancels
    <3>3. Pixels(row, b)[k] = PixelAt(row, b, k)
      BY DEF Pixels, PixelAt
    <3> QED
      BY <3>2, <3>3
  <2> HIDE DEF row, b
  <2>4. row \in Seq(Byte) /\ Len(row) = width * b
    BY <1>4, <2>1 DEF RowBytes
  <2>5. FlattenSeq([k \in 1 .. width |-> PixelAt(row, b, k)]) = row
    BY <1>4, <2>4, RowOfPixels
  <2>6. [k \in 1 .. width |-> InMemory(Swapped(image[r][k]))] = [k \in 1 .. width |-> PixelAt(row, b, k)]
    BY <2>3
  <2> QED
    BY <2>5, <2>6 DEF row
<1>7. disk' = [r \in 1 .. height |-> FlattenSeq([k \in 1 .. width |-> InMemory(Swapped(image[r][k]))])]
  BY DEF FilterRows
<1>8. disk' = [r \in 1 .. height |-> picture[r]]
  BY <1>6, <1>7
<1>9. picture = [r \in 1 .. height |-> picture[r]]
  <2>1. picture \in Seq(RowBytes)
    BY <1>1, RowsAbove
  <2> QED
    BY <1>3, <2>1
<1> QED
  BY <1>8, <1>9

(* img_read() makes of the rows the image they show.                       *)
LEMMA ImageConverted ==
  ASSUME IInv, Convert
  PROVE  /\ image' = [r \in 1 .. height |-> Shown(data[r])]
         /\ image' \in Seq([1 .. width -> Word])
         /\ inflated = png_datalen => image' = Expected
<1>1. TypeOK /\ shape \in Shapes /\ Truecolor /\ pc = "convert" /\ Len(data) = height
  BY DEF IInv, TypeOK, MemoryInv, DataInv, Convert
<1>2. \A r \in 1 .. height : data[r] \in RowBytes
  BY <1>1, RowsAbove
<1> DEFINE Made(row) == LET pixels == Pixels(row, png_get_bpp)
                        IN [k \in 1 .. width |-> Converted(pixels[k])]
<1>3. \A r \in 1 .. height : Made(data[r]) = Shown(data[r]) /\ Shown(data[r]) \in [1 .. width -> Word]
  BY <1>1, <1>2, RowShown
<1>4. image' = [r \in 1 .. height |-> Made(data[r])]
  BY DEF Convert
<1> HIDE DEF Made
<1>5. image' = [r \in 1 .. height |-> Shown(data[r])]
  BY <1>3, <1>4
<1>6. height \in Nat
  BY <1>1, Sizes
<1>7. image' \in Seq([1 .. width -> Word])
  BY <1>3, <1>5, <1>6
<1>8. inflated = png_datalen => \A r \in 1 .. height : data[r] = picture[r]
  BY <1>1 DEF IInv, DataInv
<1>9. inflated = png_datalen => image' = Expected
  BY <1>5, <1>8 DEF Expected
<1> QED
  BY <1>5, <1>7, <1>9

-----------------------------------------------------------------------------
(* The invariant holds at the start ...                                    *)
LEMMA InvariantInit ==
  ASSUME Init
  PROVE  IInv
<1>1. shape \in Shapes /\ little_endian \in BOOLEAN /\ origin \in {"written", "found"}
      /\ disk = <<>> /\ damaged = FALSE /\ user_pointer = "none" /\ allocated = {}
      /\ zlib = "none" /\ inflated = 0 /\ result = "PNG_NO_ERROR" /\ data = <<>> /\ returned = "none"
  BY DEF Init
<1>2. /\ width \in Nat \ {0} /\ height \in Nat \ {0} /\ RowLength \in Nat /\ png_datalen \in Nat
      /\ MaxChunks \in Nat /\ Colours \in Nat \ {0}
  BY <1>1, Sizes, ImageFileAssumption
<1>5. /\ disk \in Seq(Seq(Byte)) /\ data \in Seq(RowBytes) /\ Len(data) <= height
      /\ inflated \in 0 .. png_datalen
  <2>1. Len(<<>>) = 0 /\ <<>> \in Seq(Seq(Byte)) /\ <<>> \in Seq(RowBytes)
    OBVIOUS
  <2> QED
    BY <1>1, <1>2, <2>1
<1>3. CASE origin = "written" /\ pc = "img_write"
  <2>1. /\ color_type = "PNG_TRUECOLOR_ALPHA" /\ depth = 8 /\ picture \in Rows(RowLength)
        /\ image = Expected /\ left = 2
    BY <1>3 DEF Init, Expected
  <2>2. Truecolor
    <3>1. depth \div 8 = 1
      BY <2>1
    <3>2. png_get_bpp = Colours + 1
      BY <1>2, <2>1, <3>1 DEF png_get_bpp
    <3> QED
      BY <2>1, <3>2 DEF Truecolor
  <2>3. picture \in [1 .. height -> RowBytes]
    BY <2>1 DEF Rows, RowBytes
  <2>4. picture \in Seq(RowBytes) /\ Len(picture) = height
    BY <1>2, <2>3
  <2>5. \A r \in 1 .. height : picture[r] \in RowBytes
    BY <2>3
  <2>6. \A r \in 1 .. height : Shown(picture[r]) \in [1 .. width -> Word]
    BY <1>1, <2>2, <2>5, RowShown
  <2>7. image \in Seq([1 .. width -> Word])
    BY <1>2, <2>1, <2>6 DEF Expected
  <2>8. TypeOK
    <3>1. left \in 0 .. 2 \cup 0 .. MaxChunks /\ pc = "img_write" /\ Len(picture) <= height
      BY <1>2, <1>3, <2>1, <2>4
    <3> QED
      BY <1>1, <1>5, <2>4, <2>7, <3>1 DEF TypeOK, RowBytes, Words, Word
  <2>9. MemoryInv
    BY <1>1, <1>3 DEF MemoryInv, InUse, Untouched, Writing
  <2>10. WrittenInv /\ FoundInv
    BY <1>1, <1>3, <2>1, <2>2, <2>4 DEF WrittenInv, FoundInv, WrittenReadsBack, Writing
  <2>11. DataInv
    BY <1>1, <1>3 DEF DataInv, ReadsThePicture
  <2> QED
    BY <2>8, <2>9, <2>10, <2>11 DEF IInv
<1>4. CASE origin = "found" /\ pc = "img_read"
  <2>1. picture = <<>> /\ image = <<>> /\ left \in 0 .. MaxChunks
    BY <1>4 DEF Init
  <2>2. Len(picture) = 0 /\ picture \in Seq(RowBytes) /\ image \in Words
    BY <2>1 DEF Words
  <2>3. TypeOK
    <3>1. left \in 0 .. 2 \cup 0 .. MaxChunks /\ pc = "img_read" /\ Len(picture) <= height
      BY <1>2, <1>4, <2>1, <2>2
    <3> QED
      BY <1>1, <1>5, <2>2, <3>1 DEF TypeOK, RowBytes
  <2>4. MemoryInv
    BY <1>1, <1>4 DEF MemoryInv, InUse, Untouched, Writing
  <2>5. WrittenInv /\ FoundInv
    BY <1>1, <1>4, <2>1 DEF WrittenInv, FoundInv, Writing
  <2>6. DataInv
    BY <1>1, <1>4 DEF DataInv, ReadsThePicture
  <2> QED
    BY <2>3, <2>4, <2>5, <2>6 DEF IInv
<1> QED
  BY <1>3, <1>4 DEF Init

(* ... and every step keeps it.  First the types.                          *)
LEMMA TypeStep ==
  ASSUME IInv, Next
  PROVE  TypeOK'
<1> USE DEF machine, file, stream, output, Kept, Chunk, Return
<1>1. TypeOK /\ shape \in Shapes
  BY DEF IInv, TypeOK
<1>2. UNCHANGED machine
  BY Frame
<1>3. /\ UNCHANGED <<little_endian, shape, origin>>
      /\ UNCHANGED <<width, height, RowLength, png_datalen>>
  BY <1>2, SameShape
<1>4. /\ height \in Nat \ {0} /\ RowLength \in Nat /\ png_datalen \in Nat /\ MaxChunks \in Nat
      /\ (RowLength + 1) * height = png_datalen
  BY <1>1, Sizes, ImageFileAssumption
<1>5. /\ picture \in Seq(RowBytes) /\ Len(picture) <= height
      /\ data \in Seq(RowBytes) /\ Len(data) <= height
      /\ disk \in Seq(Seq(Byte)) /\ image \in Seq([1 .. width -> Word])
  BY <1>1 DEF TypeOK, RowBytes, Words, Word
<1>6. picture' \in Seq(RowBytes) /\ Len(picture') <= height
  <2>1. CASE UnfilterRow
    <3>1. Len(data) + 1 <= height
      BY <2>1 DEF UnfilterRow, Unfiltering, Row
    <3> HIDE DEF machine, file, stream, output, Kept, Chunk, Return
    <3>2. PICK row \in RowBytes :
             picture' = picture \/ (Len(picture) = Len(data) /\ picture' = Append(picture, row))
      BY <2>1, RowUnfiltered
    <3>3. \A s \in Seq(RowBytes) : Append(s, row) \in Seq(RowBytes)
                                  /\ Len(Append(s, row)) = Len(s) + 1 /\ Len(s) \in Nat
      <4> HIDE DEF RowBytes
      <4> QED
        OBVIOUS
    <3> QED
      BY <1>5, <3>1, <3>2, <3>3
  <2> QED
    BY <1>5, <2>1, Frame
<1>7. data' \in Seq(RowBytes) /\ Len(data') <= height
  <2>1. CASE UnfilterRow \/ UnfilterGarbage
    <3>1. Len(data) + 1 <= height
      BY <2>1 DEF UnfilterRow, UnfilterGarbage, Unfiltering, Row
    <3>2. PICK row \in RowBytes : data' = Append(data, row)
      <4>1. CASE UnfilterRow
        BY <4>1, RowUnfiltered
      <4>2. CASE UnfilterGarbage
        BY <4>2 DEF UnfilterGarbage, RowBytes
      <4> QED
        BY <2>1, <4>1, <4>2
    <3> HIDE DEF machine, file, stream, output, Kept, Chunk, Return
    <3> QED
      BY <1>4, <1>5, <3>1, <3>2
  <2>2. CASE UnfilterDone
    <3>1. data' = data \/ data' \in [1 .. height -> RowBytes]
      BY <2>2 DEF UnfilterDone, Rows, RowBytes
    <3> HIDE DEF machine, file, stream, output, Kept, Chunk, Return
    <3> QED
      BY <1>4, <1>5, <3>1
  <2> QED
    BY <1>5, <2>1, <2>2, Frame
<1>8. disk' \in Seq(Seq(Byte))
  <2>1. CASE FilterRows
    <3>1. disk' = disk \/ disk' = picture
      <4>1. disk' = disk \/ pc' = "png_write_ihdr"
        BY <2>1 DEF FilterRows
      <4> QED
        BY <2>1, <4>1, RowsFiltered
    <3>2. RowBytes \subseteq Seq(Byte)
      BY <1>4 DEF RowBytes
    <3>3. picture \in Seq(Seq(Byte))
      BY <1>5, <3>2
    <3> QED
      BY <1>5, <3>1, <3>3
  <2> QED
    BY <1>5, <2>1, Frame
<1>9. image' \in Seq([1 .. width -> Word])
  <2>1. CASE Convert
    BY <2>1, ImageConverted
  <2>2. CASE ReadBack
    BY <2>2 DEF ReadBack
  <2> QED
    BY <1>5, <2>1, <2>2, Frame
<1>10. inflated' \in 0 .. png_datalen
  <2>1. CASE Inflate
    <3>1. \E bytes \in 0 .. (png_datalen - inflated) : inflated' = inflated + bytes
      BY <2>1 DEF Inflate
    <3>2. inflated \in 0 .. png_datalen
      BY <1>1 DEF TypeOK
    <3> QED
      BY <1>4, <3>1, <3>2
  <2>2. CASE InflateExcess
    BY <1>4, <2>2 DEF InflateExcess
  <2>3. inflated' = inflated \/ Inflate \/ InflateExcess
    BY DEF Next, OpenWrite, FilterRows, WriteHeader, WriteIdats, CloseWrite, ReadBack, OpenFails,
       RefuseHeader, OpenRead, NotTruecolor, AllocatePixels, EndOfFile, OutOfMemory,
       InflateInitFails, RefuseIdat, InflateNothing, IendFound, SkipChunk, ChunksDone, ChunksFailed,
       UnfilterRow, UnfilterGarbage, UnknownFilter, UnfilterDone, NullPointer, Convert
  <2> QED
    BY <1>1, <2>1, <2>2, <2>3 DEF TypeOK
<1>11. left' \in 0 .. 2 \cup 0 .. MaxChunks
  <2>1. left \in 0 .. 2 \cup 0 .. MaxChunks
    BY <1>1 DEF TypeOK
  <2>2. left > 0 => 0 .. (left - 1) \subseteq 0 .. 2 \cup 0 .. MaxChunks
                    /\ left - 1 \in 0 .. 2 \cup 0 .. MaxChunks
    BY <1>4, <2>1
  <2>3. left' = left \/ (left > 0 /\ left' = left - 1) \/ (left > 0 /\ left' \in 0 .. (left - 1))
    BY DEF Next, OpenWrite, FilterRows, WriteHeader, WriteIdats, CloseWrite, ReadBack, OpenFails,
       RefuseHeader, OpenRead, NotTruecolor, AllocatePixels, EndOfFile, OutOfMemory,
       InflateInitFails, RefuseIdat, Inflate, InflateExcess, InflateNothing, IendFound, SkipChunk,
       ChunksDone, ChunksFailed, UnfilterRow, UnfilterGarbage, UnknownFilter, UnfilterDone,
       NullPointer, Convert
  <2> QED
    BY <2>1, <2>2, <2>3
<1> DEFINE States == {"img_write", "png_set_data", "png_write_ihdr", "png_write_idats",
                      "png_close_file", "img_read", "opened", "png_get_data", "png_unfilter",
                      "convert", "returned", "killed"}
           Small == /\ damaged \in BOOLEAN /\ pc \in States
                    /\ user_pointer \in {"none", "read", "write"}
                    /\ allocated \subseteq Block
                    /\ zlib \in {"none", "more", "full", "ended", "not_initialised"}
                    /\ returned \in {"none", "IMG_SUCCESS"} \cup Error
<1>12. Small
  BY <1>1 DEF TypeOK
<1>13. Small'
  <2>1. Buffers \subseteq Block /\ Reading \subseteq Block
    BY DEF Buffers, Reading, Block
  <2>2. CASE OpenWrite \/ FilterRows \/ WriteHeader \/ WriteIdats \/ CloseWrite \/ ReadBack
    <3>1. CASE OpenWrite \/ FilterRows
      BY <1>12, <3>1 DEF OpenWrite, FilterRows, Block, Error
    <3>2. CASE WriteHeader \/ WriteIdats
      BY <1>12, <3>2 DEF WriteHeader, WriteIdats, Block, Error
    <3>3. CASE CloseWrite \/ ReadBack
      BY <1>12, <3>3 DEF CloseWrite, ReadBack, Block, Error
    <3> QED
      BY <2>2, <3>1, <3>2, <3>3
  <2>3. CASE OpenFails \/ RefuseHeader \/ OpenRead \/ NotTruecolor \/ AllocatePixels
    BY <1>12, <2>1, <2>3 DEF OpenFails, RefuseHeader, OpenRead, NotTruecolor, AllocatePixels, Error
  <2>4. CASE EndOfFile \/ InflateInitFails \/ RefuseIdat
    BY <1>12, <2>1, <2>4 DEF EndOfFile, InflateInitFails, RefuseIdat, Block
  <2>5. CASE OutOfMemory
    <3>1. {Needs[m] : m \in 1 .. 3} \subseteq Block
      BY DEF Needs, Block
    <3>2. \A k \in DOMAIN Needs : 1 .. (k - 1) \subseteq 1 .. 3
      BY DEF Needs
    <3>3. allocated' \subseteq Block
      BY <1>12, <2>5, <3>1, <3>2 DEF OutOfMemory
    <3> QED
      BY <1>12, <2>5, <3>3 DEF OutOfMemory
  <2>6. CASE Inflate
    BY <1>12, <2>1, <2>6 DEF Inflate
  <2>7. CASE InflateExcess \/ InflateNothing \/ IendFound \/ SkipChunk
    BY <1>12, <2>1, <2>7 DEF InflateExcess, InflateNothing, IendFound, SkipChunk
  <2>8. CASE ChunksDone \/ ChunksFailed \/ UnknownFilter \/ NullPointer
    BY <1>12, <2>8 DEF ChunksDone, ChunksFailed, UnknownFilter, NullPointer, Error
  <2>9. CASE UnfilterRow \/ UnfilterGarbage \/ UnfilterDone \/ Convert
    BY <1>12, <2>9 DEF UnfilterRow, UnfilterGarbage, UnfilterDone, Convert
  <2> QED
    BY <2>2, <2>3, <2>4, <2>5, <2>6, <2>7, <2>8, <2>9 DEF Next
<1> QED
  BY <1>1, <1>3, <1>6, <1>7, <1>8, <1>9, <1>10, <1>11, <1>13 DEF TypeOK, RowBytes, Words, Word

(* The memory: one case per action.                                        *)
LEMMA MemoryStep ==
  ASSUME IInv, Next
  PROVE  MemoryInv'
<1> USE DEF machine, file, stream, output, Kept, Chunk, Return
<1>1. MemoryInv
  BY DEF IInv
<1>2. UNCHANGED machine
  BY Frame
<1>3. UNCHANGED origin /\ UNCHANGED Buffers /\ (Truecolor' <=> Truecolor)
  BY <1>2, SameShape
<1>4. CASE OpenWrite
  <2>1. pc = "img_write" /\ allocated = {} /\ user_pointer = "none" /\ Untouched
    BY <1>1, <1>4 DEF OpenWrite, MemoryInv, InUse, Writing
  <2>2. UNCHANGED stream /\ UNCHANGED <<result, data>>
    BY <1>4 DEF OpenWrite
  <2>3. Untouched'
    BY <2>1, <2>2 DEF Untouched
  <2>4. \/ pc' = "returned" /\ allocated' = {} /\ user_pointer' = "none"
        \/ pc' = "png_set_data" /\ allocated' \subseteq {"data_to_write"}
    BY <1>4, <2>1 DEF OpenWrite
  <2> QED
    BY <2>3, <2>4 DEF MemoryInv, InUse, Writing, Opening
<1>5. CASE FilterRows
  <2>1. pc = "png_set_data" /\ allocated \subseteq {"data_to_write"} /\ Untouched
    BY <1>1, <1>5 DEF FilterRows, MemoryInv, InUse, Writing
  <2>2. Untouched'
    BY <1>5, <2>1 DEF FilterRows, Untouched
  <2>3. \/ pc' = "png_write_ihdr" /\ allocated' = allocated \cup {"filtered"}
        \/ pc' = "killed" /\ allocated' = allocated
    BY <1>5 DEF FilterRows
  <2> QED
    BY <2>1, <2>2, <2>3 DEF MemoryInv, InUse, Writing, Opening, Block
<1>6. CASE WriteHeader
  BY <1>1, <1>6 DEF WriteHeader, MemoryInv, InUse, Untouched, Writing, Opening
<1>7. CASE WriteIdats
  <2>1. pc = "png_write_idats" /\ allocated \subseteq {"data_to_write", "filtered"} /\ Untouched
    BY <1>1, <1>7 DEF WriteIdats, MemoryInv, InUse, Writing
  <2>2. Untouched'
    BY <1>7, <2>1 DEF WriteIdats, Untouched
  <2>3. \/ pc' = "png_close_file" /\ allocated' = allocated \ {"filtered"}
        \/ pc' = "killed" /\ allocated' = allocated
    BY <1>7 DEF WriteIdats
  <2> QED
    BY <2>1, <2>2, <2>3 DEF MemoryInv, InUse, Writing, Opening, Block
<1>8. CASE CloseWrite
  BY <1>1, <1>8 DEF CloseWrite, MemoryInv, InUse, Untouched, Forgotten, Writing, Opening
<1>9. CASE ReadBack
  BY <1>1, <1>9 DEF ReadBack, MemoryInv, InUse, Untouched, Forgotten, Writing, Opening
<1>10. CASE OpenFails
  BY <1>1, <1>10 DEF OpenFails, MemoryInv, InUse, Untouched, Forgotten, Writing, Opening
<1>11. CASE RefuseHeader
  BY <1>1, <1>3, <1>11 DEF RefuseHeader, MemoryInv, InUse, Untouched, Forgotten, Writing, Opening
<1>12. CASE OpenRead
  BY <1>1, <1>12 DEF OpenRead, MemoryInv, InUse, Untouched, Writing, Opening
<1>13. CASE NotTruecolor
  BY <1>1, <1>13 DEF NotTruecolor, MemoryInv, InUse, Untouched, Forgotten, Writing, Opening
<1>14. CASE AllocatePixels
  BY <1>1, <1>3, <1>14 DEF AllocatePixels, MemoryInv, InUse, Untouched, Writing, Opening
<1>15. CASE EndOfFile \/ OutOfMemory \/ InflateInitFails \/ RefuseIdat
            \/ Inflate \/ InflateExcess \/ InflateNothing \/ IendFound \/ SkipChunk
  <2>1. pc = "png_get_data" /\ UNCHANGED <<pc, user_pointer, data, returned>>
    BY <1>15 DEF EndOfFile, OutOfMemory, InflateInitFails, RefuseIdat, Inflate, InflateExcess,
       InflateNothing, IendFound, SkipChunk
  <2>2. allocated \subseteq Buffers \cup Reading
    BY <1>1, <2>1 DEF MemoryInv, InUse
  <2>3. allocated' \subseteq Buffers \cup Reading
    <3>1. CASE OutOfMemory
      <4>1. \A k \in DOMAIN Needs : {Needs[m] : m \in 1 .. (k - 1)} \subseteq Reading
        <5>1. \A k \in DOMAIN Needs : 1 .. (k - 1) \subseteq 1 .. 3
          BY DEF Needs
        <5>2. \A m \in 1 .. 3 : Needs[m] \in Reading
          BY DEF Needs, Reading
        <5> QED
          BY <5>1, <5>2
      <4> QED
        BY <2>2, <3>1, <4>1 DEF OutOfMemory
    <3>2. CASE ~OutOfMemory
      BY <1>15, <2>2, <3>2 DEF EndOfFile, InflateInitFails, RefuseIdat, Inflate, InflateExcess,
         InflateNothing, IendFound, SkipChunk, Reading
    <3> QED
      BY <3>1, <3>2
  <2> QED
    BY <1>1, <1>3, <2>1, <2>3 DEF MemoryInv, InUse, Untouched, Reading, Writing, Opening
<1>16. CASE ChunksDone
  BY <1>1, <1>3, <1>16 DEF ChunksDone, MemoryInv, InUse, LoopFrees, Leaked, Reading, Untouched,
     Writing, Opening
<1>17. CASE ChunksFailed
  BY <1>1, <1>3, <1>17 DEF ChunksFailed, MemoryInv, InUse, LoopFrees, Buffers, Reading, Forgotten,
     Untouched, Writing, Opening
<1>18. CASE UnfilterRow
  BY <1>1, <1>3, <1>18 DEF UnfilterRow, Unfiltering, MemoryInv, InUse, Leaked, Untouched, Writing, Opening
<1>19. CASE UnfilterGarbage
  BY <1>1, <1>3, <1>19 DEF UnfilterGarbage, Unfiltering, MemoryInv, InUse, Leaked, Untouched, Writing, Opening
<1>20. CASE UnknownFilter
  <2>1. allocated \subseteq {"pixel_data", "pixel_data_raw", "png_data"} \cup Leaked
    BY <1>1, <1>20 DEF UnknownFilter, Unfiltering, MemoryInv, InUse, Buffers
  <2>2. /\ allocated' = allocated \ {"png_data", "pixel_data"} /\ zlib' = zlib
        /\ result' = "PNG_UNKNOWN_FILTER" /\ returned' = "IMG_ERR_MALLOC_FAILED"
        /\ pc' = "returned" /\ user_pointer' = "none"
    BY <1>20 DEF UnknownFilter
  <2>3. Leaked' = Leaked
    BY <2>2 DEF Leaked
  <2>4. allocated' \subseteq {"pixel_data_raw"} \cup Leaked
    BY <2>1, <2>2
  <2>5. Forgotten' = {"pixel_data_raw"} \cup Leaked
    BY <2>2, <2>3 DEF Forgotten, Leaked
  <2> QED
    BY <2>2, <2>4, <2>5 DEF MemoryInv, InUse, Writing, Opening
<1>21. CASE UnfilterDone
  <2>1. /\ pc = "png_unfilter" /\ pc' = "convert" /\ zlib' = zlib /\ result' = result
        /\ allocated' = allocated \ {"png_data"}
    BY <1>21 DEF UnfilterDone
  <2>2. allocated' \subseteq Buffers \cup Leaked
    BY <1>1, <2>1 DEF MemoryInv, InUse
  <2>3. Leaked' = Leaked
    BY <2>1 DEF Leaked
  <2> QED
    BY <1>1, <1>3, <2>1, <2>2, <2>3 DEF MemoryInv, InUse, Writing, Opening
<1>22. CASE NullPointer
  <2>1. pc' = "killed" /\ allocated' = allocated
    BY <1>22 DEF NullPointer
  <2>2. allocated \subseteq Block
    BY DEF IInv, TypeOK
  <2> QED
    BY <2>1, <2>2 DEF MemoryInv, InUse, Writing, Opening
<1>23. CASE Convert
  <2>1. /\ pc = "convert" /\ pc' = "returned" /\ zlib' = zlib /\ result' = result
        /\ allocated' = allocated \ {"pixel_data_raw"}
        /\ returned' = "IMG_SUCCESS" /\ user_pointer' = "none"
    BY <1>23 DEF Convert
  <2>2. allocated \subseteq {"pixel_data", "pixel_data_raw"} \cup Leaked /\ result = "PNG_DONE"
    BY <1>1, <2>1 DEF MemoryInv, InUse, Buffers
  <2>3. allocated' \subseteq {"pixel_data"} \cup Leaked
    BY <2>1, <2>2
  <2>4. Leaked \subseteq Forgotten'
    BY <2>1 DEF Leaked, Forgotten
  <2> QED
    BY <2>1, <2>2, <2>3, <2>4 DEF MemoryInv, InUse, Writing, Opening
<1> QED
  BY <1>4, <1>5, <1>6, <1>7, <1>8, <1>9, <1>10, <1>11, <1>12, <1>13, <1>14, <1>15, <1>16, <1>17,
     <1>18, <1>19, <1>20, <1>21, <1>22, <1>23 DEF Next

(* What img_write() writes, and img_read() reads.                          *)
LEMMA WrittenStep ==
  ASSUME IInv, Next
  PROVE  WrittenInv' /\ FoundInv'
<1> USE DEF machine, file, stream, output, Kept, Chunk, Return
<1>1. MemoryInv /\ WrittenInv /\ FoundInv /\ shape \in Shapes /\ origin \in {"written", "found"}
  BY DEF IInv, TypeOK
<1>2. UNCHANGED machine
  BY Frame
<1>3. UNCHANGED <<origin, color_type, width, height, png_get_bpp, png_datalen>>
      /\ (Truecolor' <=> Truecolor)
  BY <1>2, SameShape
<1>4. png_datalen \in Nat /\ png_datalen > 0 /\ (RowLength + 1) * height = png_datalen
  BY <1>1, Sizes
<1>5. UNCHANGED picture => UNCHANGED Expected
  BY <1>3 DEF Expected, Shown, Pixels
<1>6. ASSUME origin = "found"
      PROVE  FoundInv'
  <2>1. disk = <<>> /\ pc \notin Writing
        /\ (pc \in Opening \cup {"png_get_data"} => picture = <<>>)
    BY <1>1, <1>6 DEF FoundInv
  <2>2. ~(OpenWrite \/ FilterRows \/ WriteHeader \/ WriteIdats \/ CloseWrite \/ ReadBack)
    BY <2>1 DEF OpenWrite, FilterRows, WriteHeader, WriteIdats, CloseWrite, ReadBack, Writing
  <2>3. UNCHANGED disk
    BY <2>2, Frame
  <2>4. pc' \notin Writing
    BY <2>1, <2>2 DEF Next, OpenFails, RefuseHeader, OpenRead, NotTruecolor, AllocatePixels,
       EndOfFile, OutOfMemory, InflateInitFails, RefuseIdat, Inflate, InflateExcess,
       InflateNothing, IendFound, SkipChunk, ChunksDone, ChunksFailed, UnfilterRow,
       UnfilterGarbage, UnknownFilter, UnfilterDone, NullPointer, Convert, Writing
  <2>5. pc' \in Opening \cup {"png_get_data"} =>
          pc \in Opening \cup {"png_get_data"} /\ UNCHANGED picture
    BY <2>2 DEF Next, OpenFails, RefuseHeader, OpenRead, NotTruecolor, AllocatePixels,
       EndOfFile, OutOfMemory, InflateInitFails, RefuseIdat, Inflate, InflateExcess,
       InflateNothing, IendFound, SkipChunk, ChunksDone, ChunksFailed, UnfilterRow, Unfiltering,
       UnfilterGarbage, UnknownFilter, UnfilterDone, NullPointer, Convert, Opening
  <2> QED
    BY <1>6, <2>1, <2>3, <2>4, <2>5 DEF FoundInv
<1>7. ASSUME origin = "written"
      PROVE  WrittenInv'
  <2>1. origin' = "written" /\ color_type' = "PNG_TRUECOLOR_ALPHA" /\ Truecolor' /\ Truecolor
    BY <1>1, <1>3, <1>7 DEF WrittenInv
  <2>2. UNCHANGED picture
    <3>1. CASE UnfilterRow
      BY <1>7, <3>1, RowUnfiltered
    <3> QED
      BY <3>1, Frame
  <2>3. Len(picture') = height'
    BY <1>1, <1>3, <1>7, <2>2 DEF WrittenInv
  <2>4. UNCHANGED Expected
    BY <1>5, <2>2
  <2> HIDE DEF machine
  <2> USE DEF Writing, Opening
  <2>5. /\ disk = picture \/ (disk = <<>> /\ pc \in {"img_write", "png_set_data", "returned", "killed"})
        /\ pc \in Writing => image = Expected
        /\ pc \in Writing \cup Opening => left = 2
        /\ pc = "returned" /\ result = "PNG_NO_ERROR" => left = 2
        /\ pc = "png_get_data" => Stage
        /\ pc \in {"png_unfilter", "convert"} => inflated = png_datalen
    BY <1>1, <1>7 DEF WrittenInv
  <2>6. CASE OpenWrite
    <3>1. result = "PNG_NO_ERROR"
      BY <1>1, <2>6 DEF MemoryInv, Untouched, OpenWrite
    <3> QED
      BY <2>1, <2>2, <2>3, <2>4, <2>5, <2>6, <3>1 DEF OpenWrite, WrittenInv, WrittenReadsBack
  <2>7. CASE FilterRows
    <3>1. pc' = "png_write_ihdr" => disk' = picture
      BY <2>7, RowsFiltered
    <3>2. UNCHANGED <<image, left, result>> /\ pc = "png_set_data"
          /\ (pc' = "png_write_ihdr" \/ (pc' = "killed" /\ disk' = disk))
      BY <2>7 DEF FilterRows
    <3> QED
      BY <2>1, <2>2, <2>3, <2>4, <2>5, <3>1, <3>2 DEF WrittenInv, WrittenReadsBack
  <2>8. CASE WriteHeader \/ WriteIdats \/ CloseWrite
    BY <2>1, <2>2, <2>3, <2>4, <2>5, <2>8
       DEF WriteHeader, WriteIdats, CloseWrite, WrittenInv, WrittenReadsBack
  <2>9. CASE ReadBack
    BY <2>1, <2>2, <2>3, <2>4, <2>5, <2>9 DEF ReadBack, WrittenInv, WrittenReadsBack
  <2>10. CASE OpenFails \/ RefuseHeader \/ OpenRead
    BY <2>1, <2>2, <2>3, <2>4, <2>5, <2>10
       DEF OpenFails, RefuseHeader, OpenRead, WrittenInv, WrittenReadsBack
  <2>11. CASE NotTruecolor
    BY <2>1, <2>11 DEF NotTruecolor
  <2>12. CASE AllocatePixels
    <3>1. result = "PNG_NO_ERROR" /\ inflated = 0
      BY <1>1, <2>12 DEF MemoryInv, Untouched, AllocatePixels
    <3>2. /\ pc = "opened" /\ pc' = "png_get_data"
          /\ UNCHANGED <<disk, left, inflated, result>>
      BY <2>12 DEF AllocatePixels
    <3>3. Stage'
      BY <2>5, <3>1, <3>2 DEF Stage
    <3> QED
      BY <2>1, <2>2, <2>3, <2>5, <3>2, <3>3 DEF WrittenInv, WrittenReadsBack
  <2>13. CASE EndOfFile \/ OutOfMemory \/ InflateInitFails \/ RefuseIdat
            \/ Inflate \/ InflateExcess \/ InflateNothing \/ IendFound \/ SkipChunk
    <3>1. pc = "png_get_data" /\ UNCHANGED <<pc, disk>> /\ result = "PNG_NO_ERROR"
      BY <2>13 DEF EndOfFile, OutOfMemory, InflateInitFails, RefuseIdat, Inflate, InflateExcess,
         InflateNothing, IendFound, SkipChunk
    <3>2. (left = 2 /\ inflated = 0) \/ (left = 1 /\ inflated = png_datalen)
      BY <2>5, <3>1 DEF Stage
    <3>3. Stage'
      <4>1. CASE OutOfMemory \/ InflateInitFails
        BY <4>1 DEF OutOfMemory, InflateInitFails, Stage
      <4>2. CASE Inflate
        <5>1. left = 2 /\ inflated' = inflated + png_datalen /\ left' = 1 /\ UNCHANGED result
          BY <1>7, <4>2 DEF Inflate
        <5>2. inflated' = png_datalen
          BY <1>4, <3>2, <5>1
        <5> QED
          BY <1>3, <3>1, <5>1, <5>2 DEF Stage
      <4>3. CASE IendFound
        <5>1. result' = "PNG_DONE" /\ inflated' = inflated /\ left = 1
          BY <1>7, <4>3 DEF IendFound
        <5> QED
          BY <1>3, <3>2, <5>1 DEF Stage
      <4>4. CASE EndOfFile \/ RefuseIdat
        <5>1. result' \in {"PNG_FILE_ERROR", "PNG_CRC_ERROR"}
          BY <1>7, <4>4 DEF EndOfFile, RefuseIdat
        <5> QED
          BY <5>1 DEF Stage
      <4>5. ~(InflateExcess \/ InflateNothing \/ SkipChunk)
        BY <1>7 DEF InflateExcess, InflateNothing, SkipChunk
      <4> QED
        BY <2>13, <4>1, <4>2, <4>3, <4>4, <4>5
    <3> QED
      BY <2>1, <2>2, <2>3, <2>5, <3>1, <3>3 DEF WrittenInv, WrittenReadsBack
  <2>14. CASE ChunksDone
    <3>1. /\ pc = "png_get_data" /\ result = "PNG_DONE" /\ pc' = "png_unfilter"
          /\ UNCHANGED <<disk, inflated, result>>
      BY <2>14 DEF ChunksDone
    <3>2. inflated' = png_datalen'
      BY <1>3, <2>5, <3>1 DEF Stage
    <3> QED
      BY <2>1, <2>2, <2>3, <2>5, <3>1, <3>2 DEF WrittenInv, WrittenReadsBack
  <2>15. CASE ChunksFailed
    <3>1. /\ pc = "png_get_data" /\ result \notin {"PNG_NO_ERROR", "PNG_DONE"} /\ pc' = "returned"
          /\ returned' = "IMG_ERR_MALLOC_FAILED"
          /\ UNCHANGED <<disk, zlib, result>>
      BY <2>15 DEF ChunksFailed
    <3>2. \/ result \in {"PNG_MEMORY_ERROR", "PNG_FILE_ERROR", "PNG_CRC_ERROR"}
          \/ result = "PNG_ZLIB_ERROR" /\ zlib = "not_initialised"
      BY <2>5, <3>1 DEF Stage
    <3> QED
      BY <2>1, <2>2, <2>3, <2>5, <3>1, <3>2 DEF WrittenInv, WrittenReadsBack
  <2>16. CASE UnfilterRow \/ UnfilterGarbage \/ UnfilterDone \/ NullPointer
    <3>1. /\ pc \in {"png_unfilter", "convert"} /\ pc' \in {"png_unfilter", "convert", "killed"}
          /\ UNCHANGED <<disk, inflated, result>>
      BY <2>16 DEF UnfilterRow, UnfilterGarbage, UnfilterDone, NullPointer, Unfiltering
    <3> QED
      BY <1>3, <2>1, <2>2, <2>3, <2>5, <3>1 DEF WrittenInv, WrittenReadsBack
  <2>17. CASE UnknownFilter
    BY <1>7, <2>17 DEF UnknownFilter
  <2>18. CASE Convert
    <3>1. /\ pc = "convert" /\ pc' = "returned" /\ returned' = "IMG_SUCCESS"
          /\ UNCHANGED <<disk, result>>
      BY <2>18 DEF Convert
    <3>2. image' = Expected'
      BY <2>4, <2>5, <2>18, <3>1, ImageConverted
    <3>3. result = "PNG_DONE"
      BY <1>1, <3>1 DEF MemoryInv
    <3> QED
      BY <2>1, <2>2, <2>3, <2>5, <3>1, <3>2, <3>3 DEF WrittenInv, WrittenReadsBack
  <2> QED
    BY <2>6, <2>7, <2>8, <2>9, <2>10, <2>11, <2>12, <2>13, <2>14, <2>15, <2>16, <2>17, <2>18 DEF Next
<1> QED
  BY <1>1, <1>3, <1>6, <1>7 DEF WrittenInv, FoundInv

(* The bytes of png_data that are initialised, and the rows made of them.  *)
LEMMA DataStep ==
  ASSUME IInv, Next
  PROVE  DataInv'
<1> USE DEF machine, file, stream, output, Kept, Chunk, Return
<1>1. TypeOK /\ MemoryInv /\ DataInv /\ shape \in Shapes
  BY DEF IInv, TypeOK
<1>2. UNCHANGED machine
  BY Frame
<1>3. UNCHANGED <<origin, color_type, width, height, png_get_bpp, RowLength, png_datalen>>
  BY <1>2, SameShape
<1>4. /\ png_datalen \in Nat /\ png_datalen > 0 /\ RowLength \in Nat /\ height \in Nat
      /\ (RowLength + 1) * height = png_datalen
      /\ Len(data) \in Nat /\ Len(picture) \in Nat /\ inflated \in Nat
  BY <1>1, Sizes, RowsAbove DEF TypeOK
<1> HIDE DEF machine
(* Before png_get_data() there is nothing to say.                          *)
<1>5. CASE OpenWrite \/ FilterRows \/ WriteHeader \/ WriteIdats \/ CloseWrite \/ ReadBack
            \/ OpenFails \/ RefuseHeader \/ OpenRead \/ NotTruecolor \/ AllocatePixels
  <2>1. /\ pc \in Writing \cup Opening \/ (pc = "returned" /\ result = "PNG_NO_ERROR")
        /\ UNCHANGED <<inflated, result>> /\ pc' \notin {"png_unfilter", "convert"}
    BY <1>5 DEF OpenWrite, FilterRows, WriteHeader, WriteIdats, CloseWrite, ReadBack,
       OpenFails, RefuseHeader, OpenRead, NotTruecolor, AllocatePixels, Writing, Opening
  <2>2. inflated' = 0 /\ result' # "PNG_DONE"
    BY <1>1, <2>1 DEF MemoryInv, Untouched
  <2> QED
    BY <1>4, <2>1, <2>2 DEF DataInv, ReadsThePicture
<1>6. CASE EndOfFile \/ OutOfMemory \/ InflateInitFails \/ RefuseIdat
            \/ Inflate \/ InflateExcess \/ InflateNothing \/ IendFound \/ SkipChunk
  <2>1. pc = "png_get_data" /\ pc' = pc
    BY <1>6 DEF EndOfFile, OutOfMemory, InflateInitFails, RefuseIdat, Inflate, InflateExcess,
       InflateNothing, IendFound, SkipChunk
  <2>2. inflated > 0 => "png_data" \in allocated
    BY <1>1, <2>1 DEF DataInv
  <2>3. "png_data" \in allocated' \/ (inflated' = inflated /\ "png_data" \notin allocated)
    <3>1. CASE OutOfMemory
      <4>1. \A k \in DOMAIN Needs : Needs[k] = "png_data" => Needs[k] # "readbuf"
        BY DEF Needs
      <4>2. PICK k \in DOMAIN Needs :
              /\ Needs[k] = "readbuf" \/ Needs[k] \notin allocated
              /\ allocated' = (allocated \cup {Needs[m] : m \in 1 .. (k - 1)}) \ {Needs[k]}
        BY <3>1 DEF OutOfMemory
      <4>3. inflated' = inflated
        BY <3>1 DEF OutOfMemory
      <4>4. "png_data" \in allocated => "png_data" \in allocated'
        BY <4>1, <4>2
      <4> QED
        BY <4>3, <4>4
    <3>2. CASE ~OutOfMemory
      BY <1>6, <3>2 DEF EndOfFile, InflateInitFails, RefuseIdat, Inflate, InflateExcess,
         InflateNothing, IendFound, SkipChunk, Reading
    <3> QED
      BY <3>1, <3>2
  <2>4. inflated' > 0 => "png_data" \in allocated'
    BY <2>2, <2>3
  <2> QED
    BY <2>1, <2>4 DEF DataInv, ReadsThePicture
<1>7. CASE ChunksDone
  <2>1. /\ pc = "png_get_data" /\ pc' = "png_unfilter" /\ UNCHANGED <<inflated, data, picture>>
        /\ allocated' = allocated \ LoopFrees
    BY <1>7 DEF ChunksDone
  <2>2. "png_data" \notin LoopFrees
    BY DEF LoopFrees
  <2>3. data = <<>> /\ (inflated > 0 => "png_data" \in allocated)
    BY <1>1, <2>1 DEF MemoryInv, DataInv
  <2>4. Len(data') = 0
    BY <2>1, <2>3
  <2>5. origin' = "found" => Len(picture') <= Len(data')
    <3>1. origin = "found" => picture = <<>>
      BY <2>1 DEF IInv, FoundInv
    <3> QED
      BY <1>3, <2>1, <2>4, <3>1
  <2>6. \A r \in 1 .. Len(data') : FALSE
    BY <2>4
  <2> QED
    BY <2>1, <2>2, <2>3, <2>5, <2>6 DEF DataInv, ReadsThePicture
<1>8. CASE ChunksFailed \/ UnknownFilter
  <2>1. pc' = "returned" /\ returned' # "IMG_SUCCESS"
    BY <1>8 DEF ChunksFailed, UnknownFilter
  <2> QED
    BY <2>1 DEF DataInv, ReadsThePicture
<1>9. CASE UnfilterRow
  <2>1. /\ pc = "png_unfilter" /\ pc' = "png_unfilter" /\ UNCHANGED <<inflated, allocated>>
    BY <1>9 DEF UnfilterRow, Unfiltering
  <2>2. PICK row \in RowBytes :
           /\ data' = Append(data, row)
           /\ origin = "written" =>
                 Len(data) + 1 <= Len(picture) /\ picture' = picture /\ row = picture[Len(data) + 1]
           /\ origin # "written" =>
                 Len(picture) = Len(data) /\ picture' = Append(picture, row)
    BY <1>9, RowUnfiltered
  <2>3. /\ picture \in Seq(RowBytes) /\ data \in Seq(RowBytes)
        /\ \A r \in 1 .. Len(data) :
             r * (RowLength + 1) <= inflated => r <= Len(picture) /\ data[r] = picture[r]
    BY <1>1, <2>1, RowsAbove DEF DataInv
  <2>4. /\ Len(data') = Len(data) + 1 /\ data'[Len(data) + 1] = row
        /\ \A r \in 1 .. Len(data) : data'[r] = data[r]
    <3> HIDE DEF RowBytes
    <3> QED
      BY <2>2, <2>3
  <2>5. /\ Len(data) + 1 <= Len(picture') /\ picture'[Len(data) + 1] = row
        /\ Len(picture) <= Len(picture') /\ \A r \in 1 .. Len(picture) : picture'[r] = picture[r]
        /\ origin # "written" => Len(picture') = Len(data')
    <3> HIDE DEF RowBytes
    <3>1. CASE origin = "written"
      BY <1>4, <2>2, <3>1
    <3>2. CASE origin # "written"
      <4>1. Len(picture) = Len(data) /\ picture' = Append(picture, row)
        BY <2>2, <3>2
      <4>2. /\ Len(picture') = Len(picture) + 1 /\ picture'[Len(picture) + 1] = row
            /\ \A r \in 1 .. Len(picture) : picture'[r] = picture[r]
        BY <2>2, <2>3, <4>1
      <4>3. Len(picture) \in Nat /\ Len(data) \in Nat
        BY <2>3
      <4> QED
        BY <2>4, <4>1, <4>2, <4>3
    <3> QED
      BY <3>1, <3>2
  <2>6. ASSUME NEW r \in 1 .. Len(data'), r * (RowLength + 1) <= inflated
        PROVE  r <= Len(picture') /\ data'[r] = picture'[r]
    <3>1. CASE r = Len(data) + 1
      BY <2>4, <2>5, <3>1
    <3>2. CASE r # Len(data) + 1
      <4>1. r \in 1 .. Len(data)
        BY <1>4, <2>4, <3>2
      <4>2. r <= Len(picture) /\ data[r] = picture[r]
        BY <2>3, <2>6, <4>1
      <4>3. r \in 1 .. Len(picture)
        BY <1>4, <4>1, <4>2
      <4>4. r <= Len(picture')
        BY <1>4, <2>5, <4>1, <4>3
      <4> QED
        BY <2>4, <2>5, <4>1, <4>2, <4>3, <4>4
    <3> QED
      BY <3>1, <3>2
  <2>7. origin' = "found" => Len(picture') <= Len(data')
    BY <1>3, <1>4, <2>4, <2>5
  <2>8. inflated' > 0 => "png_data" \in allocated'
    BY <1>1, <2>1 DEF DataInv
  <2>9. \A r \in 1 .. Len(data') :
           r * (RowLength' + 1) <= inflated' => r <= Len(picture') /\ data'[r] = picture'[r]
    BY <1>3, <2>1, <2>6
  <2> QED
    BY <2>1, <2>7, <2>8, <2>9 DEF DataInv, ReadsThePicture
<1>10. CASE UnfilterGarbage
  <2>1. /\ pc = "png_unfilter" /\ pc' = "png_unfilter" /\ UNCHANGED <<inflated, allocated, picture>>
        /\ inflated \in Nat /\ ~Initialised
    BY <1>4, <1>10 DEF UnfilterGarbage, Unfiltering
  <2>2. PICK row \in RowBytes : data' = Append(data, row)
    BY <1>10 DEF UnfilterGarbage, RowBytes
  <2>3. /\ data \in Seq(RowBytes)
        /\ \A r \in 1 .. Len(data) :
             r * (RowLength + 1) <= inflated => r <= Len(picture) /\ data[r] = picture[r]
        /\ origin = "found" => Len(picture) <= Len(data)
    BY <1>1, <2>1, RowsAbove DEF DataInv
  <2>4. /\ Len(data') = Len(data) + 1
        /\ \A r \in 1 .. Len(data) : data'[r] = data[r]
    <3> HIDE DEF RowBytes
    <3> QED
      BY <2>2, <2>3
  <2>5. ~((Len(data) + 1) * (RowLength + 1) <= inflated)
    <3>1. (Len(data) + 1) * (RowLength + 1) \in Nat
      BY <1>4
    <3> QED
      BY <2>1, <3>1 DEF Initialised, Row
  <2>6. \A r \in 1 .. Len(data') :
           r * (RowLength + 1) <= inflated => r <= Len(picture) /\ data'[r] = picture[r]
    <3>1. \A r \in 1 .. Len(data') : r = Len(data) + 1 \/ r \in 1 .. Len(data)
      BY <1>4, <2>4
    <3> QED
      BY <2>3, <2>4, <2>5, <3>1
  <2>7. origin' = "found" => Len(picture') <= Len(data')
    BY <1>3, <1>4, <2>1, <2>3, <2>4
  <2>8. inflated' > 0 => "png_data" \in allocated'
    BY <1>1, <2>1 DEF DataInv
  <2>9. \A r \in 1 .. Len(data') :
           r * (RowLength' + 1) <= inflated' => r <= Len(picture') /\ data'[r] = picture'[r]
    BY <1>3, <2>1, <2>6
  <2> QED
    BY <2>1, <2>7, <2>8, <2>9 DEF DataInv, ReadsThePicture
<1>11. CASE UnfilterDone
  <2>1. pc = "png_unfilter" /\ pc' = "convert" /\ UNCHANGED <<inflated, picture>>
    BY <1>11 DEF UnfilterDone
  <2>2. CASE "png_data" \in allocated
    <3>1. data' = data /\ Len(data) + 1 = height + 1
      BY <1>11, <2>2 DEF UnfilterDone, Row
    <3>2. Len(data) = height
      BY <1>4, <3>1
    <3>3. ASSUME inflated = png_datalen
          PROVE  \A r \in 1 .. height : r <= Len(picture) /\ data[r] = picture[r]
      <4>1. \A r \in 1 .. height : r * (RowLength + 1) <= inflated
        BY <1>1, <3>3, RowsFit
      <4> QED
        BY <1>1, <2>1, <3>2, <4>1 DEF DataInv
    <3>4. inflated = png_datalen => Len(picture) = height
      <4>1. Len(picture) <= height /\ height \in 1 .. height
        BY <1>1, Sizes DEF TypeOK
      <4> QED
        BY <1>4, <3>3, <4>1
    <3> QED
      BY <1>3, <2>1, <3>1, <3>2, <3>3, <3>4 DEF DataInv, ReadsThePicture
  <2>3. CASE "png_data" \notin allocated
    <3>1. data' \in [1 .. height -> [1 .. RowLength -> Byte]]
      BY <1>11, <2>3 DEF UnfilterDone, Rows
    <3>2. Len(data') = height
      BY <1>4, <3>1
    <3>3. inflated # png_datalen
      BY <1>1, <1>4, <2>1, <2>3 DEF DataInv
    <3> QED
      BY <1>3, <2>1, <3>2, <3>3 DEF DataInv, ReadsThePicture
  <2> QED
    BY <2>2, <2>3
<1>12. CASE NullPointer
  <2>1. pc' = "killed"
    BY <1>12 DEF NullPointer
  <2> QED
    BY <2>1 DEF DataInv, ReadsThePicture
<1>13. CASE Convert
  <2>1. pc' = "returned" /\ inflated' = inflated /\ picture' = picture
    BY <1>13 DEF Convert
  <2>2. inflated = png_datalen => image' = Expected
    BY <1>13, ImageConverted
  <2>3. Expected' = Expected
    BY <1>3, <2>1 DEF Expected, Shown, Pixels
  <2> QED
    BY <1>3, <2>1, <2>2, <2>3 DEF DataInv, ReadsThePicture
<1> QED
  BY <1>5, <1>6, <1>7, <1>8, <1>9, <1>10, <1>11, <1>12, <1>13 DEF Next

-----------------------------------------------------------------------------
LEMMA Stuttering ==
  ASSUME IInv, UNCHANGED vars
  PROVE  IInv'
<1>1. UNCHANGED machine
      /\ UNCHANGED <<picture, disk, damaged, pc, user_pointer, allocated, left, zlib, inflated,
                     result, data, image, returned>>
  BY DEF vars, file, stream, output
<1>2. /\ UNCHANGED <<little_endian, shape, origin>>
      /\ UNCHANGED <<width, height, color_type, depth, png_get_bpp, RowLength, png_datalen>>
      /\ UNCHANGED <<Target, Buffers>> /\ (Truecolor' <=> Truecolor)
  BY <1>1, SameShape
<1>3. UNCHANGED <<Expected, Words, Forgotten, Leaked>>
  BY <1>1, <1>2 DEF Expected, Shown, Pixels, Words, Forgotten, Leaked
<1>4. UNCHANGED InUse
  BY <1>1, <1>2, <1>3 DEF InUse
<1>5. TypeOK'
  BY <1>1, <1>2, <1>3 DEF IInv, TypeOK
<1>6. MemoryInv'
  BY <1>1, <1>2, <1>4 DEF IInv, MemoryInv, Untouched
<1>7. WrittenInv' /\ FoundInv'
  BY <1>1, <1>2, <1>3 DEF IInv, WrittenInv, FoundInv, WrittenReadsBack, Stage
<1>8. DataInv'
  BY <1>1, <1>2, <1>3 DEF IInv, DataInv, ReadsThePicture
<1> QED
  BY <1>5, <1>6, <1>7, <1>8 DEF IInv

(* The whole invariant, for every machine, shape, picture and file.        *)
THEOREM InductiveInvariant == Spec => []IInv
<1>1. Init => IInv
  BY InvariantInit
<1>2. IInv /\ [Next]_vars => IInv'
  <2>1. IInv /\ Next => IInv'
    BY TypeStep, MemoryStep, WrittenStep, DataStep DEF IInv
  <2> QED
    BY <2>1, Stuttering
<1> QED
  BY <1>1, <1>2, PTL DEF Spec

(* On return the memory and the file are given back on every path, but for *)
(* what three error paths forget.                                          *)
THEOREM GivenBackAlways == Spec => []GivenBack
<1>1. IInv => GivenBack
  <2> SUFFICES ASSUME IInv PROVE GivenBack
    OBVIOUS
  <2>1. TypeOK /\ MemoryInv
    BY DEF IInv
  <2> QED
    BY <2>1 DEF GivenBack, MemoryInv, InUse
<1> QED
  BY <1>1, InductiveInvariant, PTL

(* A file that has all its data shows its picture, whatever filters its    *)
(* rows use, in however many chunks the bytes come, on either machine.     *)
THEOREM ReadsThePictureAlways == Spec => []ReadsThePicture
<1>1. IInv => ReadsThePicture
  BY DEF IInv, DataInv
<1> QED
  BY <1>1, InductiveInvariant, PTL

(* What img_write() wrote without a failure, img_read() reads, pixel for   *)
(* pixel, unless it reports that memory ran out or that the file could not *)
(* be opened or read.                                                      *)
THEOREM WrittenReadsBackAlways == Spec => []WrittenReadsBack
<1>1. IInv => WrittenReadsBack
  BY DEF IInv, WrittenInv, WrittenReadsBack
<1> QED
  BY <1>1, InductiveInvariant, PTL

=============================================================================
