--------------------------- MODULE ImgProcProofs ---------------------------
(***************************************************************************)
(* Proofs about the image program, for images of any size and with either  *)
(* version of the transformations.  The invariant says of each iteration   *)
(* of a loop which places of the output have been drawn.                   *)
(***************************************************************************)
EXTENDS ImgProc, SequenceTheorems, WellFoundedInduction, TLAPS

-----------------------------------------------------------------------------
(* The iterations of the loops.  (row, col) comes before the present one.  *)
Before(row, col) == row < i \/ (row = i /\ col < j)

OW == OutWidth(transformation, width)
OH == OutHeight(transformation, height)

Right(c, r) == output[out(c, r)] = PixelAt(transformation, width, height, c, r)

(* The iteration that draws a position of a kaleidoscope from its quarter. *)
Lesser(a, b) == IF a <= b THEN a ELSE b
Greater(a, b) == IF a <= b THEN b ELSE a

InQuarter(c, r) == c < half /\ r < half

(* What has been drawn when the program is at the present iteration.       *)
DrawnBefore(c, r) ==
  \/ pc = "pixels" /\ transformation = "rgb" /\ Before(r % height, c % width)
  \/ pc = "pixels" /\ transformation # "rgb" /\ Before(r, c)
  \/ pc = "top_left" /\ InQuarter(c, r) /\ Before(Lesser(c, r), Greater(c, r))
  \/ pc = "mirror" /\ (InQuarter(c, r) \/ Before(Folded(width, r), Folded(width, c)))
  \/ pc = "wedge" /\ LET x == Folded(width, c)
                         y == Folded(width, r)
                     IN Before(Lesser(x, y), Greater(x, y))
  \/ pc \in {"return", "write"} /\ success

Quarters == {"top_left", "mirror", "wedge"}
Loops == {"pixels"} \cup Quarters

LoopInv ==
  /\ pc \in Loops => success
  /\ pc \in Loops \cup {"return"} => transformation \in Transformation
  /\ success => Drawable(transformation, width, height)
  /\ pc = "pixels" => transformation # "kaleidoscope" /\ i <= height /\ j < width
  /\ pc \in Quarters => transformation = "kaleidoscope" /\ i <= half
  /\ pc \in {"top_left", "wedge"} => i <= j /\ (i < half => j < half)
  /\ pc = "mirror" => j < half
  /\ pc = "wedge" => impl = "asm"
  /\ pc \in {"find", "return", "write"} \cup Loops =>
       /\ DOMAIN output = 0 .. (OW * OH - 1)
       /\ output = [k \in DOMAIN output |-> output[k]]

PictureInv ==
  /\ pc \in {"return", "write"} \cup Loops =>
       \A c \in 0 .. (OW - 1), r \in 0 .. (OH - 1) : DrawnBefore(c, r) => Right(c, r)
  /\ pc \in {"read", "create", "find"} => ~success /\ stray = {}
  /\ pc # "exit" => ~written /\ exit_status = -1

(* The epilogues pop as much as the prologue has pushed.                   *)
StackInv ==
  /\ pc \in Loops \cup {"return"} =>
       /\ impl = "c" => stack = <<"return">>
       /\ impl = "asm" => /\ Len(stack) = Len(Saves(transformation)) + 1
                          /\ stack[Len(stack)] = "return"
  /\ pc # "lost"

IInv ==
  /\ TypeOK
  /\ LoopInv
  /\ PictureInv
  /\ StackInv
  /\ StrayOnlyOdd
  /\ WritesThePicture

-----------------------------------------------------------------------------
(* Places of an image: rows of the same length, one after the other.       *)
LEMMA Products ==
  ASSUME NEW a \in Nat, NEW x \in Nat, NEW y \in Nat
  PROVE  /\ x * a \in Nat /\ (x + y) * a = (x * a) + (y * a)
         /\ x <= y => x * a <= y * a
         /\ x < y => (x * a) + a <= y * a
<1>1. x * a \in Nat /\ y * a \in Nat /\ (x + y) * a = (x * a) + (y * a)
  OBVIOUS
<1>2. ASSUME x <= y PROVE x * a <= y * a
  <2>1. y - x \in Nat /\ y = x + (y - x)
    BY <1>2
  <2>2. (y - x) * a \in Nat /\ (x + (y - x)) * a = (x * a) + ((y - x) * a)
    BY <2>1
  <2> QED
    BY <1>1, <2>1, <2>2
<1>3. ASSUME x < y PROVE (x * a) + a <= y * a
  <2>1. y - (x + 1) \in Nat /\ y = (x + 1) + (y - (x + 1))
    BY <1>3
  <2>2. /\ (y - (x + 1)) * a \in Nat
        /\ ((x + 1) + (y - (x + 1))) * a = ((x + 1) * a) + ((y - (x + 1)) * a)
        /\ (x + 1) * a = (x * a) + a
    BY <2>1
  <2> QED
    BY <1>1, <2>1, <2>2
<1> QED
  BY <1>1, <1>2, <1>3

LEMMA Division ==
  ASSUME NEW n \in Nat, NEW v \in Nat \ {0}
  PROVE  /\ n \div v \in Nat /\ n % v \in 0 .. (v - 1)
         /\ n = ((n \div v) * v) + (n % v)
  BY SMT

LEMMA DivisionUnique ==
  ASSUME NEW v \in Nat \ {0}, NEW q \in Nat, NEW r \in 0 .. (v - 1)
  PROVE  ((q * v) + r) \div v = q /\ ((q * v) + r) % v = r
<1> DEFINE n == (q * v) + r
           p == n \div v
           s == n % v
<1>1. n \in Nat /\ q * v \in Nat
  BY Products
<1>2. p \in Nat /\ s \in 0 .. (v - 1) /\ n = (p * v) + s
  BY <1>1, Division
<1> HIDE DEF p, s
<1>3. p * v \in Nat
  BY <1>2, Products
<1>4. ~(p < q)
  <2>1. p < q => (p * v) + v <= q * v
    BY <1>2, Products
  <2> QED
    BY <1>1, <1>2, <1>3, <2>1
<1>5. ~(q < p)
  <2>1. q < p => (q * v) + v <= p * v
    BY <1>2, Products
  <2> QED
    BY <1>1, <1>2, <1>3, <2>1
<1>6. p = q
  BY <1>2, <1>4, <1>5
<1>7. s = r
  BY <1>1, <1>2, <1>6
<1> QED
  BY <1>6, <1>7 DEF p, s

LEMMA Area ==
  ASSUME NEW w \in Nat \ {0}, NEW h \in Nat \ {0}
  PROVE  w * h = h * w /\ w * h \in Nat \ {0}
<1>1. 0 * w = 0 /\ 0 < h => (0 * w) + w <= h * w
  BY Products
<1> QED
  BY <1>1, Products

(* Each place of an image has one column and one row.                      *)
LEMMA PlaceOf ==
  ASSUME NEW w \in Nat \ {0}, NEW h \in Nat \ {0},
         NEW c \in 0 .. (w - 1), NEW r \in 0 .. (h - 1)
  PROVE  /\ compute_index(w, c, r) \in 0 .. (w * h - 1)
         /\ compute_index(w, c, r) % w = c
         /\ compute_index(w, c, r) \div w = r
<1>1. r \in Nat /\ h \in Nat /\ r < h
  OBVIOUS
<1>2. r * w \in Nat /\ (r * w) + w <= h * w
  BY <1>1, Products
<1>3. (r * w) + c \in 0 .. (w * h - 1)
  BY <1>2, Area
<1>4. ((r * w) + c) % w = c /\ ((r * w) + c) \div w = r
  BY <1>1, DivisionUnique
<1> QED
  BY <1>3, <1>4 DEF compute_index

LEMMA PlaceBack ==
  ASSUME NEW w \in Nat \ {0}, NEW h \in Nat \ {0}, NEW k \in 0 .. (w * h - 1)
  PROVE  /\ k % w \in 0 .. (w - 1) /\ k \div w \in 0 .. (h - 1)
         /\ compute_index(w, k % w, k \div w) = k
<1> DEFINE q == k \div w
           r == k % w
<1>1. k \in Nat /\ k < h * w
  BY Area
<1>2. q \in Nat /\ r \in 0 .. (w - 1) /\ k = (q * w) + r
  BY <1>1, Division
<1> HIDE DEF q, r
<1>3. q < h
  <2>1. h <= q => h * w <= q * w
    BY <1>2, Products
  <2>2. q * w \in Nat
    BY <1>2, Products
  <2> QED
    BY <1>1, <1>2, <2>1, <2>2
<1>4. q \in 0 .. (h - 1) /\ r \in 0 .. (w - 1) /\ compute_index(w, r, q) = k
  BY <1>2, <1>3 DEF compute_index
<1> QED
  BY <1>4 DEF q, r

(* Two places of a grid are the same only at the same column and row.      *)
LEMMA OnePlace ==
  ASSUME NEW w \in Nat \ {0}, NEW h \in Nat \ {0}
  PROVE  \A c, d \in 0 .. (w - 1), r, s \in 0 .. (h - 1) :
           compute_index(w, c, r) = compute_index(w, d, s) => c = d /\ r = s
<1>1. ASSUME NEW x \in 0 .. (w - 1), NEW y \in 0 .. (h - 1)
      PROVE  compute_index(w, x, y) % w = x /\ compute_index(w, x, y) \div w = y
  <2>1. y \in Nat
    OBVIOUS
  <2>2. ((y * w) + x) \div w = y /\ ((y * w) + x) % w = x
    BY <2>1, DivisionUnique
  <2> QED
    BY <2>2, Zenon DEF compute_index
<1> SUFFICES ASSUME NEW c \in 0 .. (w - 1), NEW d \in 0 .. (w - 1),
                    NEW r \in 0 .. (h - 1), NEW s \in 0 .. (h - 1),
                    compute_index(w, c, r) = compute_index(w, d, s)
             PROVE  c = d /\ r = s
  OBVIOUS
<1>2. /\ compute_index(w, c, r) % w = c /\ compute_index(w, c, r) \div w = r
      /\ compute_index(w, d, s) % w = d /\ compute_index(w, d, s) \div w = s
  BY <1>1, Zenon
<1> QED
  BY <1>2, Zenon

(* The brightness of a fade, in millionths, is from 0 to 1.                *)
LEMMA GradientBounds ==
  ASSUME NEW max \in Nat \ {0}, NEW x \in 0 .. (max - 1)
  PROVE  gradient(x, max) \in 0 .. Full
<1> DEFINE q == (2000 * x) \div max
           square == q - 1000
<1>1. 2000 * x \in Nat /\ q \in Nat /\ (2000 * x) % max \in Nat
      /\ 2000 * x = (q * max) + ((2000 * x) % max)
  BY Division
<1> HIDE DEF q
<1>2. q < 2000
  <2>1. 2000 <= q => 2000 * max <= q * max
    BY <1>1, Products
  <2>2. q * max \in Nat /\ 2000 * x < 2000 * max
    BY <1>1, Products
  <2> QED
    BY <1>1, <2>1, <2>2
<1>3. square \in Int /\ -1000 <= square /\ square <= 1000
  BY <1>1, <1>2
<1>4. ASSUME NEW s \in Nat, s <= 1000 PROVE s * s \in 0 .. Full
  <2>1. s * s <= 1000 * s /\ s * s \in Nat
    BY <1>4, Products
  <2>2. 1000 * s <= 1000 * 1000 /\ 1000 * 1000 = Full
    BY <1>4, SMT DEF Full
  <2>3. Full \in Nat
    BY SMT DEF Full
  <2> QED
    BY <1>4, <2>1, <2>2, <2>3
<1>5. square * square \in 0 .. Full
  <2>1. CASE square >= 0
    BY <1>3, <1>4, <2>1
  <2>2. CASE square < 0
    <3>1. -square \in Nat /\ -square <= 1000
      BY <1>3, <2>2
    <3>2. (-square) * (-square) = square * square
      BY <1>3
    <3> HIDE DEF square
    <3> QED
      BY <1>4, <3>1, <3>2
  <2> QED
    BY <1>3, <2>1, <2>2
<1>6. gradient(x, max) = Full - square * square
  BY SMT DEF gradient, q, Full
<1>7. Full \in Nat
  BY SMT DEF Full
<1> HIDE DEF square
<1> QED
  BY <1>5, <1>6, <1>7

-----------------------------------------------------------------------------
(* Sizes of the two images, and where their pixels are.                    *)
LEMMA SizesOfImages ==
  ASSUME TypeOK
  PROVE  /\ width \in Nat \ {0} /\ height \in Nat \ {0}
         /\ OW \in Nat \ {0} /\ OH \in Nat \ {0}
         /\ transformation = "rgb" => OW = 2 * width /\ OH = 2 * height
         /\ transformation # "rgb" => OW = width /\ OH = height
         /\ OW * OH \in Nat \ {0} /\ width * height \in Nat \ {0}
<1>1. width \in Nat \ {0} /\ height \in Nat \ {0}
  BY SizesAssumption DEF TypeOK
<1>2. /\ transformation = "rgb" => OW = 2 * width /\ OH = 2 * height
      /\ transformation # "rgb" => OW = width /\ OH = height
  BY DEF OW, OH, OutWidth, OutHeight
<1>3. OW \in Nat \ {0} /\ OH \in Nat \ {0}
  BY <1>1, <1>2
<1>4. OW * OH \in Nat \ {0} /\ width * height \in Nat \ {0}
  BY <1>1, <1>3, Area
<1> QED
  BY <1>1, <1>2, <1>3, <1>4

LEMMA OutputPlaces ==
  ASSUME TypeOK
  PROVE  /\ \A c \in 0 .. (OW - 1), r \in 0 .. (OH - 1) : out(c, r) \in 0 .. (OW * OH - 1)
         /\ \A c, d \in 0 .. (OW - 1), r, s \in 0 .. (OH - 1) :
              out(c, r) = out(d, s) => c = d /\ r = s
         /\ \A k \in 0 .. (OW * OH - 1) :
              k % OW \in 0 .. (OW - 1) /\ k \div OW \in 0 .. (OH - 1) /\ out(k % OW, k \div OW) = k
<1>1. OW \in Nat \ {0} /\ OH \in Nat \ {0}
  BY SizesOfImages
<1>2. ASSUME NEW c \in 0 .. (OW - 1), NEW r \in 0 .. (OH - 1)
      PROVE  compute_index(OW, c, r) \in 0 .. (OW * OH - 1)
  BY <1>1, PlaceOf, ZenonT(30)
<1>3. \A c, d \in 0 .. (OW - 1), r, s \in 0 .. (OH - 1) :
        compute_index(OW, c, r) = compute_index(OW, d, s) => c = d /\ r = s
  BY <1>1, OnePlace, ZenonT(30)
<1>4. ASSUME NEW k \in 0 .. (OW * OH - 1)
      PROVE  /\ k % OW \in 0 .. (OW - 1) /\ k \div OW \in 0 .. (OH - 1)
             /\ compute_index(OW, k % OW, k \div OW) = k
  BY <1>1, PlaceBack, ZenonT(30)
<1>5. \A c, r : out(c, r) = compute_index(OW, c, r)
  BY DEF out, OW
<1>6. \A c \in 0 .. (OW - 1), r \in 0 .. (OH - 1) : out(c, r) \in 0 .. (OW * OH - 1)
  BY <1>2, <1>5, ZenonT(30)
<1>7. \A c, d \in 0 .. (OW - 1), r, s \in 0 .. (OH - 1) :
        out(c, r) = out(d, s) => c = d /\ r = s
  BY <1>3, <1>5, ZenonT(30)
<1>8. ASSUME NEW k \in 0 .. (OW * OH - 1)
      PROVE  k % OW \in 0 .. (OW - 1) /\ k \div OW \in 0 .. (OH - 1) /\ out(k % OW, k \div OW) = k
  BY <1>4, <1>5, ZenonT(30)
<1> QED
  BY <1>6, <1>7, <1>8, ZenonT(30)

LEMMA SamePlace ==
  ASSUME TypeOK,
         NEW c \in 0 .. (OW - 1), NEW r \in 0 .. (OH - 1),
         NEW d \in 0 .. (OW - 1), NEW s \in 0 .. (OH - 1), out(c, r) = out(d, s)
  PROVE  c = d /\ r = s
BY OutputPlaces

LEMMA InputPlaces ==
  ASSUME TypeOK
  PROVE  \A c \in 0 .. (width - 1), r \in 0 .. (height - 1) : in(c, r) \in 0 .. (width * height - 1)
<1>1. width \in Nat \ {0} /\ height \in Nat \ {0}
  BY SizesOfImages
<1>2. ASSUME NEW c \in 0 .. (width - 1), NEW r \in 0 .. (height - 1)
      PROVE  compute_index(width, c, r) \in 0 .. (width * height - 1)
  BY <1>1, PlaceOf, ZenonT(30)
<1>3. \A c, r : in(c, r) = compute_index(width, c, r)
  BY DEF in
<1> QED
  BY <1>2, <1>3, ZenonT(30)

(* The middle of a kaleidoscope, and what is folded onto its quarter.      *)
LEMMA Middle ==
  ASSUME width \in Nat \ {0}
  PROVE  /\ half \in 1 .. width /\ last = 2 * half - 1
         /\ even => width = 2 * half
         /\ ~even => width = 2 * half - 1
         /\ \A c \in 0 .. (width - 1) :
              /\ Folded(width, c) \in 0 .. (half - 1)
              /\ c < half => Folded(width, c) = c
              /\ c >= half => Folded(width, c) = last - c
<1>1. even => width = 2 * half /\ last = 2 * half - 1
  BY DEF even, half, last, Padded
<1>2. ~even => width = 2 * half - 1 /\ last = 2 * half - 1
  BY DEF even, half, last, Padded
<1>3. half \in Int
  BY DEF half, Padded
<1>4. half \in 1 .. width
  BY <1>1, <1>2, <1>3
<1>5. ASSUME NEW c \in 0 .. (width - 1)
      PROVE  /\ Folded(width, c) \in 0 .. (half - 1)
             /\ c < half => Folded(width, c) = c
             /\ c >= half => Folded(width, c) = last - c
  <2>1. Folded(width, c) = IF c < last - c THEN c ELSE last - c
    BY DEF Folded, last
  <2> QED
    BY <1>1, <1>2, <1>4, <2>1
<1> QED
  BY <1>1, <1>2, <1>4, <1>5

-----------------------------------------------------------------------------
(* An iteration is the last thing drawn before the next one.               *)
LEMMA NextInRows ==
  ASSUME i \in Nat, j \in Nat, NEW cols \in Nat, j < cols, NextColumn(cols, FALSE)
  PROVE  /\ i' \in Nat /\ j' \in Nat /\ j' < cols /\ i' <= i + 1
         /\ \A row \in Nat, col \in 0 .. (cols - 1) :
              Before(row, col)' => Before(row, col) \/ (row = i /\ col = j)
BY DEF NextColumn, Before

LEMMA NextFromDiagonal ==
  ASSUME i \in Nat, j \in Nat, NEW cols \in Nat, i <= j, j < cols, NextColumn(cols, TRUE)
  PROVE  /\ i' \in Nat /\ j' \in Nat /\ i' <= i + 1 /\ i' <= j' /\ (i' < cols => j' < cols)
         /\ \A row \in Nat, col \in 0 .. (cols - 1) :
              row <= col /\ Before(row, col)' => Before(row, col) \/ (row = i /\ col = j)
BY DEF NextColumn, Before

(* What an iteration writes is right, and what it has to draw it writes.   *)
LEMMA StepDraws ==
  ASSUME TypeOK, LoopInv, PictureInv, pc \in Loops, Iterates, NEW pixels, Write(pixels),
         \A k \in DOMAIN pixels :
           pixels[k].from \in -1 .. (width * height - 1) /\ pixels[k].as \in Shade,
         \A c \in 0 .. (OW - 1), r \in 0 .. (OH - 1) : DrawnBefore(c, r)' =>
           \/ DrawnBefore(c, r) /\ out(c, r) \notin DOMAIN pixels
           \/ /\ out(c, r) \in DOMAIN pixels
              /\ pixels[out(c, r)] = PixelAt(transformation, width, height, c, r)
  PROVE  /\ PictureInv'
         /\ DOMAIN output' = DOMAIN output
         /\ \A k \in DOMAIN output' :
              output'[k].from \in -1 .. (width * height - 1) /\ output'[k].as \in Shade
         /\ stray' = stray \cup (DOMAIN pixels \ (0 .. (OW * OH - 1)))
<1>1. DOMAIN output = 0 .. (OW * OH - 1)
  BY DEF LoopInv
<1>2. /\ output' = [k \in DOMAIN output |-> IF k \in DOMAIN pixels THEN pixels[k] ELSE output[k]]
      /\ stray' = stray \cup (DOMAIN pixels \ DOMAIN output)
  BY DEF Write
<1>3. transformation' = transformation /\ width' = width /\ height' = height /\ pc' = pc
      /\ success' = success /\ written' = written /\ exit_status' = exit_status
  BY DEF Iterates, image
<1>4. OW' = OW /\ OH' = OH /\ \A c, r : out(c, r)' = out(c, r)
  BY <1>3 DEF OW, OH, out
<1>5. \A c \in 0 .. (OW - 1), r \in 0 .. (OH - 1) : out(c, r) \in DOMAIN output
  BY <1>1, OutputPlaces
<1>6. ASSUME NEW c \in 0 .. (OW - 1), NEW r \in 0 .. (OH - 1), DrawnBefore(c, r)'
      PROVE  output'[out(c, r)] = PixelAt(transformation, width, height, c, r)
  <2>1. out(c, r) \in DOMAIN output
    BY <1>5
  <2>2. CASE DrawnBefore(c, r) /\ out(c, r) \notin DOMAIN pixels
    <3>1. Right(c, r)
      BY <2>2 DEF PictureInv, Loops
    <3> QED
      BY <1>2, <2>1, <2>2, <3>1 DEF Right
  <2>3. CASE /\ out(c, r) \in DOMAIN pixels
             /\ pixels[out(c, r)] = PixelAt(transformation, width, height, c, r)
    BY <1>2, <2>1, <2>3
  <2> QED
    BY <1>6, <2>2, <2>3
<1>7. ASSUME NEW c \in 0 .. (OW' - 1), NEW r \in 0 .. (OH' - 1), DrawnBefore(c, r)'
      PROVE  Right(c, r)'
  BY <1>3, <1>4, <1>6, <1>7 DEF Right
<1>8. PictureInv'
  <2>1. pc \notin {"read", "create", "find", "exit"}
    BY DEF Loops, Quarters
  <2>2. ~written' /\ exit_status' = -1
    BY <1>3, <2>1 DEF PictureInv
  <2> QED
    BY <1>3, <1>7, <2>1, <2>2 DEF PictureInv
<1>9. \A k \in DOMAIN output' :
        output'[k].from \in -1 .. (width * height - 1) /\ output'[k].as \in Shade
  BY <1>2 DEF TypeOK
<1> QED
  BY <1>1, <1>2, <1>8, <1>9

-----------------------------------------------------------------------------
(* The loops of rgb, grayscale and fade.                                   *)
Draws(pixels) ==
  /\ \A k \in DOMAIN pixels :
       pixels[k].from \in -1 .. (width * height - 1) /\ pixels[k].as \in Shade
  /\ \A c \in 0 .. (OW - 1), r \in 0 .. (OH - 1) : DrawnBefore(c, r)' =>
       \/ DrawnBefore(c, r) /\ out(c, r) \notin DOMAIN pixels
       \/ /\ out(c, r) \in DOMAIN pixels
          /\ pixels[out(c, r)] = PixelAt(transformation, width, height, c, r)

Writes(pixels) == Draws(pixels) /\ DOMAIN pixels \subseteq 0 .. (OW * OH - 1)

(* The place of an rgb picture that is x by y away from the quadrant's     *)
(* upper left corner.                                                      *)
LEMMA Remainders ==
  ASSUME NEW w \in Nat \ {0}, NEW c \in 0 .. (2 * w - 1)
  PROVE  /\ c % w \in 0 .. (w - 1)
         /\ c >= w => c = w + (c % w)
         /\ c < w => c = c % w
<1>1. CASE c < w
  <2>1. ((0 * w) + c) % w = c
    BY <1>1, DivisionUnique
  <2>2. (0 * w) + c = c
    OBVIOUS
  <2>3. c % w = c
    BY <2>1, <2>2
  <2> QED
    BY <1>1, <2>3
<1>2. CASE c >= w
  <2>1. c - w \in 0 .. (w - 1)
    BY <1>2
  <2>2. ((1 * w) + (c - w)) % w = c - w
    BY <2>1, DivisionUnique
  <2>3. (1 * w) + (c - w) = c
    OBVIOUS
  <2>4. c % w = c - w
    BY <2>2, <2>3
  <2> QED
    BY <1>2, <2>1, <2>4
<1> QED
  BY <1>1, <1>2

LEMMA RgbWrites ==
  ASSUME TypeOK, LoopInv, pc = "pixels", i < height, transformation = "rgb",
         NextColumn(width, FALSE), Iterates
  PROVE  Writes(RgbPixels(in(j, i)))
<1> DEFINE p == in(j, i)
           P == RgbPixels(p)
           w == width
           h == height
<1>1. /\ w \in Nat \ {0} /\ h \in Nat \ {0} /\ OW = 2 * w /\ OH = 2 * h
      /\ i \in 0 .. (h - 1) /\ j \in 0 .. (w - 1)
  <2>1. w \in Nat \ {0} /\ h \in Nat \ {0} /\ OW = 2 * w /\ OH = 2 * h
    BY SizesOfImages
  <2>2. i \in Nat /\ j \in Nat /\ j < w
    BY DEF TypeOK, LoopInv
  <2> QED
    BY <2>1, <2>2
<1>2. p \in 0 .. (w * h - 1)
  BY <1>1, InputPlaces
<1>3. /\ j \in 0 .. (OW - 1) /\ w + j \in 0 .. (OW - 1)
      /\ i \in 0 .. (OH - 1) /\ h + i \in 0 .. (OH - 1)
      /\ j # w + j /\ i # h + i
  BY <1>1
<1> DEFINE a == out(j, i)
           b == out(w + j, i)
           c0 == out(j, h + i)
           d == out(w + j, h + i)
<1>4. /\ a # b /\ a # c0 /\ a # d /\ b # c0 /\ b # d /\ c0 # d
      /\ {a, b, c0, d} \subseteq 0 .. (OW * OH - 1)
  <2>1. a # b /\ a # c0 /\ a # d
    BY <1>3, OutputPlaces
  <2>2. b # c0 /\ b # d /\ c0 # d
    BY <1>3, OutputPlaces
  <2>3. {a, b, c0, d} \subseteq 0 .. (OW * OH - 1)
    BY <1>3, OutputPlaces
  <2> QED
    BY <2>1, <2>2, <2>3
<1>5. P = [k \in {a, b, c0, d} |-> CASE k = a -> Pixel(p, <<"copy">>)
                                     [] k = b -> Pixel(p, <<"red">>)
                                     [] k = c0 -> Pixel(p, <<"green">>)
                                     [] k = d -> Pixel(p, <<"blue">>)]
  BY DEF RgbPixels
<1> HIDE DEF P, a, b, c0, d, p
<1>6. /\ DOMAIN P = {a, b, c0, d}
      /\ P[a] = Pixel(p, <<"copy">>) /\ P[b] = Pixel(p, <<"red">>)
      /\ P[c0] = Pixel(p, <<"green">>) /\ P[d] = Pixel(p, <<"blue">>)
  BY <1>4, <1>5
<1>7. /\ DOMAIN P \subseteq 0 .. (OW * OH - 1)
      /\ \A k \in DOMAIN P : P[k].from \in -1 .. (w * h - 1) /\ P[k].as \in Shade
  <2>1. \A shade \in Shade : Pixel(p, shade).from = p /\ Pixel(p, shade).as = shade
    BY DEF Pixel
  <2>2. {<<"copy">>, <<"red">>, <<"green">>, <<"blue">>} \subseteq Shade
    BY DEF Shade
  <2>3. w * h \in Nat
    BY SizesOfImages
  <2> QED
    BY <1>2, <1>4, <1>6, <2>1, <2>2, <2>3
<1>8. ASSUME NEW c \in 0 .. (OW - 1), NEW r \in 0 .. (OH - 1)
      PROVE  /\ c % w \in 0 .. (w - 1) /\ (c >= w => c = w + (c % w)) /\ (c < w => c = c % w)
             /\ r % h \in 0 .. (h - 1) /\ (r >= h => r = h + (r % h)) /\ (r < h => r = r % h)
  <2>1. c \in 0 .. (2 * w - 1) /\ r \in 0 .. (2 * h - 1)
    BY <1>1
  <2> QED
    BY <1>1, <2>1, Remainders
<1>9. ASSUME NEW c \in 0 .. (OW - 1), NEW r \in 0 .. (OH - 1), r % h = i, c % w = j
      PROVE  out(c, r) \in DOMAIN P /\ P[out(c, r)] = PixelAt(transformation, w, h, c, r)
  <2>1. PixelAt(transformation, w, h, c, r) = Pixel(p, <<Quadrant(c >= w, r >= h)>>)
    BY <1>9 DEF PixelAt, p, in
  <2>2. /\ c >= w /\ r >= h => out(c, r) = d
        /\ c >= w /\ ~(r >= h) => out(c, r) = b
        /\ ~(c >= w) /\ r >= h => out(c, r) = c0
        /\ ~(c >= w) /\ ~(r >= h) => out(c, r) = a
    <3>1. c \in Int /\ r \in Int /\ w \in Int /\ h \in Int
      BY <1>1
    <3>2. (c >= w => c = w + (c % w)) /\ (c < w => c = c % w)
      BY <1>8
    <3>3. (r >= h => r = h + (r % h)) /\ (r < h => r = r % h)
      BY <1>8
    <3>4. (c >= w => c = w + j) /\ (~(c >= w) => c = j)
      BY <1>9, <3>1, <3>2
    <3>5. (r >= h => r = h + i) /\ (~(r >= h) => r = i)
      BY <1>9, <3>1, <3>3
    <3> QED
      BY <3>4, <3>5 DEF a, b, c0, d
  <2> QED
    BY <1>6, <2>1, <2>2 DEF Quadrant
<1>10. ASSUME NEW c \in 0 .. (OW - 1), NEW r \in 0 .. (OH - 1), out(c, r) \in DOMAIN P
       PROVE  r % h = i /\ c % w = j
  <2>1. \/ out(c, r) = out(j, i) \/ out(c, r) = out(w + j, i)
        \/ out(c, r) = out(j, h + i) \/ out(c, r) = out(w + j, h + i)
    BY <1>6, <1>10 DEF a, b, c0, d
  <2>2. (c = j \/ c = w + j) /\ (r = i \/ r = h + i)
    BY <1>3, <2>1, SamePlace
  <2> QED
    BY <1>1, <1>8, <2>2
<1>11. ASSUME NEW c \in 0 .. (OW - 1), NEW r \in 0 .. (OH - 1), DrawnBefore(c, r)'
       PROVE  DrawnBefore(c, r) \/ (r % h = i /\ c % w = j)
  <2>1. Before(r % h, c % w)'
    BY <1>11 DEF DrawnBefore, Iterates, image
  <2>2. \A row \in Nat, col \in 0 .. (w - 1) :
          Before(row, col)' => Before(row, col) \/ (row = i /\ col = j)
    <3>1. i \in Nat /\ j \in Nat /\ w \in Nat /\ j < w
      BY <1>1
    <3> QED
      BY <3>1, NextInRows
  <2>3. Before(r % h, c % w) <=> Before(r % height, c % width)
    OBVIOUS
  <2>4. r % h \in Nat /\ c % w \in 0 .. (w - 1)
    BY <1>8
  <2>5. Before(r % h, c % w) \/ (r % h = i /\ c % w = j)
    <3> DEFINE row == r % h
               col == c % w
    <3>1. row \in Nat /\ col \in 0 .. (w - 1) /\ h' = h /\ w' = w
      BY <2>4 DEF Iterates, image
    <3>2. Before(row, col)'
      BY <2>1
    <3>3. r % h' = r % h /\ c % w' = c % w
      BY <3>1
    <3> QED
      BY <2>1, <2>2, <3>1, <3>3 DEF Before
  <2> QED
    BY <2>5 DEF DrawnBefore
<1> QED
  BY <1>7, <1>9, <1>10, <1>11 DEF Writes, Draws, P, p

LEMMA PlainWrites ==
  ASSUME TypeOK, LoopInv, pc = "pixels", i < height, transformation # "rgb",
         NextColumn(width, FALSE), Iterates,
         NEW shade \in Shade,
         PixelAt(transformation, width, height, j, i) = Pixel(in(j, i), shade)
  PROVE  Writes([k \in {in(j, i)} |-> Pixel(in(j, i), shade)])
<1> DEFINE p == in(j, i)
           P == [k \in {p} |-> Pixel(p, shade)]
<1>1. /\ width \in Nat \ {0} /\ height \in Nat \ {0} /\ OW = width /\ OH = height
      /\ i \in 0 .. (height - 1) /\ j \in 0 .. (width - 1)
  BY SizesOfImages DEF TypeOK, LoopInv
<1>2. p \in 0 .. (width * height - 1) /\ p = out(j, i)
  BY <1>1, InputPlaces DEF in, out, OW
<1> HIDE DEF p
<1>3. /\ \A k \in DOMAIN P : P[k].from \in -1 .. (width * height - 1) /\ P[k].as \in Shade
      /\ DOMAIN P \subseteq 0 .. (OW * OH - 1)
  BY <1>1, <1>2 DEF Pixel
<1>4. ASSUME NEW c \in 0 .. (OW - 1), NEW r \in 0 .. (OH - 1), out(c, r) \in DOMAIN P
      PROVE  P[out(c, r)] = PixelAt(transformation, width, height, c, r)
  <2>1. out(c, r) = out(j, i) /\ j \in 0 .. (OW - 1) /\ i \in 0 .. (OH - 1)
    BY <1>1, <1>2, <1>4
  <2>2. c = j /\ r = i
    BY <2>1, SamePlace
  <2> QED
    BY <1>4, <2>2 DEF p
<1>5. ASSUME NEW c \in 0 .. (OW - 1), NEW r \in 0 .. (OH - 1), DrawnBefore(c, r)'
      PROVE  DrawnBefore(c, r) \/ out(c, r) \in DOMAIN P
  <2>1. Before(r, c)'
    BY <1>5 DEF DrawnBefore, Iterates, image
  <2>2. \A row \in Nat, col \in 0 .. (width - 1) :
          Before(row, col)' => Before(row, col) \/ (row = i /\ col = j)
    <3>1. i \in Nat /\ j \in Nat /\ width \in Nat /\ j < width
      BY <1>1
    <3> QED
      BY <3>1, NextInRows
  <2>3. Before(r, c) \/ (r = i /\ c = j)
    BY <1>1, <2>1, <2>2
  <2> QED
    BY <1>2, <2>3 DEF DrawnBefore
<1> QED
  BY <1>3, <1>4, <1>5 DEF Writes, Draws, p

-----------------------------------------------------------------------------
(* The loops of the two kaleidoscopes.                                     *)
LEMMA Kaleidoscope ==
  ASSUME TypeOK, LoopInv, pc \in Quarters
  PROVE  /\ width \in Nat \ {0} /\ height = width /\ OW = width /\ OH = width
         /\ half \in 1 .. width /\ last = 2 * half - 1
         /\ width = IF even THEN 2 * half ELSE 2 * half - 1
         /\ i \in Nat /\ j \in Nat /\ i <= half
         /\ \A c, r \in 0 .. (width - 1) :
              LET x == Folded(width, c)
                  y == Folded(width, r)
              IN  /\ x \in 0 .. (half - 1) /\ y \in 0 .. (half - 1)
                  /\ PixelAt(transformation, width, height, c, r)
                       = Pixel(in(Greater(x, y), Lesser(x, y)), <<"copy">>)
<1>1. transformation = "kaleidoscope" /\ success /\ height = width /\ i <= half
  BY DEF LoopInv, Loops, Drawable
<1>2. width \in Nat \ {0} /\ OW = width /\ OH = width /\ i \in Nat /\ j \in Nat
  BY <1>1, SizesOfImages DEF TypeOK
<1>3. /\ half \in 1 .. width /\ last = 2 * half - 1
      /\ even => width = 2 * half
      /\ ~even => width = 2 * half - 1
      /\ \A c \in 0 .. (width - 1) : Folded(width, c) \in 0 .. (half - 1)
  BY <1>2, Middle
<1>4. ASSUME NEW c \in 0 .. (width - 1), NEW r \in 0 .. (width - 1)
      PROVE  PixelAt(transformation, width, height, c, r)
               = Pixel(in(Greater(Folded(width, c), Folded(width, r)),
                          Lesser(Folded(width, c), Folded(width, r))), <<"copy">>)
  <2> DEFINE x == Folded(width, c)
             y == Folded(width, r)
  <2>1. x \in Int /\ y \in Int
    BY <1>3
  <2>2. PixelAt(transformation, width, height, c, r)
          = IF y <= x THEN Pixel(compute_index(width, x, y), <<"copy">>)
                      ELSE Pixel(compute_index(width, y, x), <<"copy">>)
    BY <1>1 DEF PixelAt
  <2> HIDE DEF x, y
  <2>3. CASE y <= x
    <3>1. Greater(x, y) = x /\ Lesser(x, y) = y
      BY <2>1, <2>3 DEF Greater, Lesser
    <3> QED
      BY <2>2, <2>3, <3>1 DEF in, x, y
  <2>4. CASE ~(y <= x)
    <3>1. Greater(x, y) = y /\ Lesser(x, y) = x
      BY <2>1, <2>4 DEF Greater, Lesser
    <3> QED
      BY <2>2, <2>4, <3>1 DEF in, x, y
  <2> QED
    BY <2>3, <2>4
<1> QED
  BY <1>1, <1>2, <1>3, <1>4

(* An iteration that copies the input at (j, i), j being to the right of   *)
(* i, to places that fold onto (j, i) or (i, j) writes what is right.      *)
LEMMA Copied ==
  ASSUME TypeOK, LoopInv, pc \in Quarters, i <= j, j < half,
         NEW c \in 0 .. (width - 1), NEW r \in 0 .. (width - 1),
         \/ Folded(width, c) = j /\ Folded(width, r) = i
         \/ Folded(width, c) = i /\ Folded(width, r) = j
  PROVE  Pixel(in(j, i), <<"copy">>) = PixelAt(transformation, width, height, c, r)
<1> DEFINE x == Folded(width, c)
           y == Folded(width, r)
<1>1. Greater(x, y) = j /\ Lesser(x, y) = i
  BY Kaleidoscope DEF Greater, Lesser
<1>2. PixelAt(transformation, width, height, c, r)
        = Pixel(in(Greater(x, y), Lesser(x, y)), <<"copy">>)
  BY Kaleidoscope
<1> QED
  BY <1>1, <1>2

LEMMA CopyTyped ==
  ASSUME TypeOK, LoopInv, pc \in Quarters, i < half, j < half
  PROVE  /\ Pixel(in(j, i), <<"copy">>).from \in -1 .. (width * height - 1)
         /\ Pixel(in(j, i), <<"copy">>).as \in Shade
<1>1. i \in 0 .. (height - 1) /\ j \in 0 .. (width - 1)
  BY Kaleidoscope
<1>2. in(j, i) \in 0 .. (width * height - 1)
  BY <1>1, InputPlaces
<1>3. <<"copy">> \in Shade
  BY DEF Shade
<1> QED
  BY <1>2, <1>3 DEF Pixel

LEMMA TopLeftWrites ==
  ASSUME TypeOK, LoopInv, pc = "top_left", i < half, NextColumn(half, TRUE), Iterates
  PROVE  Writes([k \in {out(j, i), out(i, j)} |-> Pixel(in(j, i), <<"copy">>)])
<1> DEFINE v == Pixel(in(j, i), <<"copy">>)
           P == [k \in {out(j, i), out(i, j)} |-> v]
<1>1. pc \in Quarters /\ i <= j /\ j < half /\ half <= width
      /\ i \in Nat /\ j \in Nat /\ half \in Nat /\ width \in Nat \ {0}
      /\ OW = width /\ OH = width
  BY Kaleidoscope DEF Quarters, LoopInv
<1>2. v.from \in -1 .. (width * height - 1) /\ v.as \in Shade
  BY <1>1, CopyTyped
<1> HIDE DEF v
<1>3. DOMAIN P \subseteq 0 .. (OW * OH - 1)
  <2>1. i \in 0 .. (OW - 1) /\ j \in 0 .. (OW - 1) /\ i \in 0 .. (OH - 1) /\ j \in 0 .. (OH - 1)
    BY <1>1
  <2> QED
    BY <2>1, OutputPlaces
<1>4. ASSUME NEW c \in 0 .. (OW - 1), NEW r \in 0 .. (OH - 1), out(c, r) \in DOMAIN P
      PROVE  P[out(c, r)] = PixelAt(transformation, width, height, c, r)
  <2>1. i \in 0 .. (OW - 1) /\ j \in 0 .. (OW - 1) /\ i \in 0 .. (OH - 1) /\ j \in 0 .. (OH - 1)
    BY <1>1
  <2>2. (c = j /\ r = i) \/ (c = i /\ r = j)
    <3>1. CASE out(c, r) = out(j, i)
      BY <2>1, <3>1, SamePlace
    <3>2. CASE out(c, r) = out(i, j)
      BY <2>1, <3>2, SamePlace
    <3> QED
      BY <1>4, <3>1, <3>2
  <2>3. Folded(width, i) = i /\ Folded(width, j) = j
    BY <1>1, Middle
  <2>4. v = PixelAt(transformation, width, height, c, r)
    BY <1>1, <2>2, <2>3, Copied DEF v
  <2> QED
    BY <1>4, <2>4
<1>5. ASSUME NEW c \in 0 .. (OW - 1), NEW r \in 0 .. (OH - 1), DrawnBefore(c, r)'
      PROVE  DrawnBefore(c, r) \/ out(c, r) \in DOMAIN P
  <2>1. InQuarter(c, r) /\ Before(Lesser(c, r), Greater(c, r))'
    BY <1>5 DEF DrawnBefore, Iterates, image, InQuarter, half
  <2>2. \A row \in Nat, col \in 0 .. (half - 1) :
          row <= col /\ Before(row, col)' => Before(row, col) \/ (row = i /\ col = j)
    BY <1>1, NextFromDiagonal
  <2>3. Lesser(c, r) \in Nat /\ Greater(c, r) \in 0 .. (half - 1) /\ Lesser(c, r) <= Greater(c, r)
    BY <1>1, <2>1 DEF InQuarter, Lesser, Greater
  <2>4. \/ Before(Lesser(c, r), Greater(c, r))
        \/ Lesser(c, r) = i /\ Greater(c, r) = j
    BY <2>1, <2>2, <2>3
  <2>5. Lesser(c, r) = i /\ Greater(c, r) = j => (c = j /\ r = i) \/ (c = i /\ r = j)
    BY DEF Lesser, Greater
  <2> QED
    BY <2>1, <2>4, <2>5 DEF DrawnBefore
<1> QED
  BY <1>2, <1>3, <1>4, <1>5 DEF Writes, Draws, v

LEMMA MirrorWrites ==
  ASSUME TypeOK, LoopInv, PictureInv, pc = "mirror", i < half, NextColumn(half, FALSE), Iterates
  PROVE  Writes([k \in Mirrors |-> output[out(j, i)]])
<1> DEFINE v == output[out(j, i)]
           P == [k \in Mirrors |-> v]
           Grid == 0 .. (width - 1)
           Reached(c, r) == /\ c \in Grid /\ r \in Grid
                            /\ c \in {j, last - j} /\ r \in {i, last - i}
<1>1. /\ pc \in Quarters /\ j < half /\ half <= width /\ last = 2 * half - 1
      /\ i \in Nat /\ j \in Nat /\ half \in Nat /\ width \in Nat \ {0}
      /\ OW = width /\ OH = width /\ height = width
  BY Kaleidoscope DEF Quarters, LoopInv
<1>2. width = IF even THEN 2 * half ELSE 2 * half - 1
  BY <1>1, Kaleidoscope
<1>3. i \in Grid /\ j \in Grid /\ last - j \in Nat /\ last - i \in Nat
  BY <1>1
<1>4. \A c \in Grid : /\ Folded(width, c) \in 0 .. (half - 1)
                      /\ c < half => Folded(width, c) = c
                      /\ c >= half => Folded(width, c) = last - c
  BY <1>1, Middle
(* The pixel that is mirrored was drawn before.                            *)
<1>5. v = PixelAt(transformation, width, height, j, i)
  <2>1. DrawnBefore(j, i)
    BY <1>1 DEF DrawnBefore, InQuarter
  <2>2. Right(j, i)
    BY <1>1, <1>3, <2>1 DEF PictureInv, Loops
  <2> QED
    BY <2>2 DEF Right
<1>6. v.from \in -1 .. (width * height - 1) /\ v.as \in Shade
  <2>1. out(j, i) \in DOMAIN output
    BY <1>1, <1>3, OutputPlaces DEF LoopInv, Loops
  <2> QED
    BY <2>1 DEF TypeOK
<1> HIDE DEF v
<1>7. \A k \in Mirrors : \E c, r \in Grid : Reached(c, r) /\ k = out(c, r)
  <2>1. ASSUME even \/ j > 0 PROVE Reached(last - j, i)
    BY <1>1, <1>2, <1>3, <2>1
  <2>2. ASSUME even \/ i > 0 PROVE Reached(j, last - i)
    BY <1>1, <1>2, <1>3, <2>2
  <2>3. ASSUME even \/ (i > 0 /\ j > 0) PROVE Reached(last - j, last - i)
    BY <1>1, <1>2, <1>3, <2>3
  <2> HIDE DEF Grid
  <2>4. Reached(last - j, i) => last - j \in Grid /\ i \in Grid
    OBVIOUS
  <2>5. Reached(j, last - i) => j \in Grid /\ last - i \in Grid
    OBVIOUS
  <2>6. Reached(last - j, last - i) => last - j \in Grid /\ last - i \in Grid
    OBVIOUS
  <2> HIDE DEF Reached
  <2> QED
    BY <2>1, <2>2, <2>3, <2>4, <2>5, <2>6 DEF Mirrors
<1>8. \A c, r \in Grid : Reached(c, r) => Folded(width, c) = j /\ Folded(width, r) = i
  <2> SUFFICES ASSUME NEW c \in Grid, NEW r \in Grid, Reached(c, r)
               PROVE  Folded(width, c) = j /\ Folded(width, r) = i
    OBVIOUS
  <2>1. Folded(width, c) = j
    BY <1>1, <1>4
  <2>2. Folded(width, r) = i
    BY <1>1, <1>4
  <2> QED
    BY <2>1, <2>2
<1>9. DOMAIN P \subseteq 0 .. (OW * OH - 1)
  <2>1. \A c, r \in Grid : out(c, r) \in 0 .. (OW * OH - 1)
    BY <1>1, OutputPlaces
  <2> HIDE DEF Grid, Reached
  <2> QED
    BY <1>7, <2>1
<1>10. ASSUME NEW c \in 0 .. (OW - 1), NEW r \in 0 .. (OH - 1), out(c, r) \in DOMAIN P
       PROVE  P[out(c, r)] = PixelAt(transformation, width, height, c, r)
  <2>1. PICK d \in Grid, s \in Grid : Reached(d, s) /\ out(c, r) = out(d, s)
    BY <1>7, <1>10
  <2>2. c = d /\ r = s
    BY <1>1, <2>1, SamePlace
  <2>3. Folded(width, c) = j /\ Folded(width, r) = i /\ Folded(width, j) = j /\ Folded(width, i) = i
    BY <1>1, <1>3, <1>4, <1>8, <2>1, <2>2
  <2>4. c \in Grid /\ r \in Grid
    BY <2>1, <2>2
  <2> HIDE DEF Grid
  <2>5. PixelAt(transformation, width, height, c, r) = PixelAt(transformation, width, height, j, i)
    BY <1>1, <1>3, <2>3, <2>4, Kaleidoscope DEF Grid
  <2> QED
    BY <1>5, <1>10, <2>5
<1>11. ASSUME NEW c \in 0 .. (OW - 1), NEW r \in 0 .. (OH - 1), DrawnBefore(c, r)'
       PROVE  DrawnBefore(c, r) \/ out(c, r) \in DOMAIN P
  <2> DEFINE x == Folded(width, c)
             y == Folded(width, r)
  <2>1. InQuarter(c, r) \/ y < i' \/ (y = i' /\ x < j')
    BY <1>11 DEF DrawnBefore, Before, Iterates, image, InQuarter, half
  <2>2. \A row \in Nat, col \in 0 .. (half - 1) :
          row < i' \/ (row = i' /\ col < j') => Before(row, col) \/ (row = i /\ col = j)
    BY <1>1, NextInRows DEF Before
  <2>3. x \in 0 .. (half - 1) /\ y \in 0 .. (half - 1)
    BY <1>1, <1>4
  <2>4. (x = c \/ x = last - c) /\ (y = r \/ y = last - r)
    BY <1>1, <1>4
  <2> HIDE DEF x, y
  <2>5. InQuarter(c, r) \/ Before(y, x) \/ (y = i /\ x = j)
    BY <2>1, <2>2, <2>3
  <2>6. CASE y = i /\ x = j
    <3>1. c \in {j, last - j} /\ r \in {i, last - i}
      BY <1>1, <2>4, <2>6
    <3>2. c = j /\ r = i => InQuarter(c, r)
      BY <1>1, <2>6 DEF InQuarter
    <3>3. c = last - j => even \/ j > 0
      BY <1>1, <1>2
    <3>4. r = last - i => even \/ i > 0
      BY <1>1, <1>2
    <3> QED
      BY <1>1, <3>1, <3>2, <3>3, <3>4 DEF DrawnBefore, Mirrors
  <2> QED
    BY <1>1, <2>5, <2>6 DEF DrawnBefore, x, y
<1> QED
  BY <1>6, <1>9, <1>10, <1>11 DEF Writes, Draws, v

(* The first place of an odd kaleidoscope is written twice too often: on   *)
(* the first place of the second row, and after the image.                 *)
LEMMA FirstWedge ==
  ASSUME TypeOK, LoopInv, pc = "wedge", i = 0, j = 0, ~even
  PROVE  /\ Wedges = {out(0, 0), out(width, 0), out(0, width)}
         /\ out(width, 0) = out(0, 1) /\ out(0, width) = width * height
         /\ width = 1 => out(0, 1) = width * height
<1>1. width \in Nat \ {0} /\ height = width /\ OW = width
  BY Kaleidoscope DEF Quarters
<1>2. Wedges = {out(0, 0), out(width, 0), out(0, width)}
  BY <1>1 DEF Wedges, OddFirstRow
<1>3. \A c, r : out(c, r) = r * width + c
  BY <1>1 DEF out, compute_index, OW
<1>4. out(width, 0) = out(0, 1)
  BY <1>1, <1>3
<1>5. out(0, width) = width * height
  BY <1>1, <1>3
<1>6. width = 1 => out(0, 1) = width * height
  BY <1>1, <1>3
<1> QED
  BY <1>2, <1>4, <1>5, <1>6

LEMMA WedgeWrites ==
  ASSUME TypeOK, LoopInv, pc = "wedge", i < half, NextColumn(half, TRUE), Iterates
  PROVE  LET pixels == [k \in Wedges |-> Pixel(in(j, i), <<"copy">>)]
         IN  /\ Draws(pixels)
             /\ DOMAIN pixels \ (0 .. (OW * OH - 1)) \subseteq {width * height}
             /\ even => DOMAIN pixels \subseteq 0 .. (OW * OH - 1)
<1> DEFINE v == Pixel(in(j, i), <<"copy">>)
           P == [k \in Wedges |-> v]
           Grid == 0 .. (width - 1)
           Ring(c, r) == \/ c \in {j, last - j} /\ r \in {i, last - i}
                         \/ c \in {i, last - i} /\ r \in {j, last - j}
           First == ~even /\ i = 0 /\ j = 0
<1>1. /\ pc \in Quarters /\ i <= j /\ j < half /\ half <= width /\ last = 2 * half - 1
      /\ i \in Nat /\ j \in Nat /\ half \in Nat /\ width \in Nat \ {0}
      /\ OW = width /\ OH = width /\ height = width
  BY Kaleidoscope DEF Quarters, LoopInv
<1>2. width = IF even THEN 2 * half ELSE 2 * half - 1
  BY <1>1, Kaleidoscope
<1>3. i \in Grid /\ j \in Grid
  BY <1>1
<1>4. \A c \in Grid : /\ Folded(width, c) \in 0 .. (half - 1)
                      /\ c < half => Folded(width, c) = c
                      /\ c >= half => Folded(width, c) = last - c
  BY <1>1, Middle
<1>5. v.from \in -1 .. (width * height - 1) /\ v.as \in Shade
  BY <1>1, CopyTyped
<1> HIDE DEF v
<1>6. ASSUME ~First
      PROVE  \A k \in Wedges : \E c, r \in Grid : Ring(c, r) /\ k = out(c, r)
  <2>1. CASE even \/ i > 0
    <3>1. last - i \in Grid /\ last - j \in Grid
      BY <1>1, <1>2, <2>1
    <3>2. Wedges = {out(j, i), out(i, j), out(last - j, i), out(last - i, j),
                    out(j, last - i), out(i, last - j), out(last - j, last - i), out(last - i, last - j)}
      <4>1. even => width - 1 = last
        BY <1>1, <1>2
      <4>2. ~even => width = last
        BY <1>1, <1>2
      <4> QED
        BY <2>1, <4>1, <4>2 DEF Wedges, EvenWedges, OddWedges, EightWedges
    <3> HIDE DEF Grid
    <3> QED
      BY <1>3, <3>1, <3>2
  <2>2. CASE ~even /\ i = 0 /\ j > 0
    <3>1. last - j \in Grid /\ width = last
      BY <1>1, <1>2, <2>2
    <3>2. Wedges = {out(j, i), out(i, j), out(last - j, i), out(i, last - j)}
      BY <2>2, <3>1 DEF Wedges, OddFirstRow
    <3> HIDE DEF Grid
    <3> QED
      BY <1>3, <3>1, <3>2
  <2> QED
    BY <1>1, <1>6, <2>1, <2>2
<1>7. \A c, r \in Grid : Ring(c, r) =>
        \/ Folded(width, c) = j /\ Folded(width, r) = i
        \/ Folded(width, c) = i /\ Folded(width, r) = j
  <2>1. \A c \in Grid : c \in {j, last - j} => Folded(width, c) = j
    BY <1>1, <1>4
  <2>2. \A c \in Grid : c \in {i, last - i} => Folded(width, c) = i
    BY <1>1, <1>4
  <2> HIDE DEF Grid
  <2> QED
    BY <2>1, <2>2
<1>8. \A c, r \in Grid : out(c, r) \in 0 .. (OW * OH - 1)
  BY <1>1, OutputPlaces
(* What is written at a place of the ring is right.                        *)
<1>9. ASSUME NEW c \in Grid, NEW r \in Grid, Ring(c, r)
      PROVE  v = PixelAt(transformation, width, height, c, r)
  <2>1. \/ Folded(width, c) = j /\ Folded(width, r) = i
        \/ Folded(width, c) = i /\ Folded(width, r) = j
    BY <1>7, <1>9
  <2> QED
    BY <1>1, <2>1, Copied DEF v
(* What has to be drawn is in the ring, and the ring is written.           *)
<1>10. ASSUME NEW c \in Grid, NEW r \in Grid, DrawnBefore(c, r)'
       PROVE  DrawnBefore(c, r) \/ Ring(c, r)
  <2> DEFINE x == Folded(width, c)
             y == Folded(width, r)
             row == Lesser(x, y)
             col == Greater(x, y)
  <2>1. row < i' \/ (row = i' /\ col < j')
    BY <1>10 DEF DrawnBefore, Before, Iterates, image
  <2>2. \A rw \in Nat, cl \in 0 .. (half - 1) :
          rw <= cl /\ (rw < i' \/ (rw = i' /\ cl < j')) => Before(rw, cl) \/ (rw = i /\ cl = j)
    BY <1>1, NextFromDiagonal DEF Before
  <2>3. x \in 0 .. (half - 1) /\ y \in 0 .. (half - 1)
    BY <1>4
  <2>4. (x = c \/ c = last - x) /\ (y = r \/ r = last - y)
    BY <1>1, <1>4
  <2> HIDE DEF x, y
  <2>5. row \in Nat /\ col \in 0 .. (half - 1) /\ row <= col
    BY <1>1, <2>3 DEF Lesser, Greater
  <2>6. row = i /\ col = j => (x = j /\ y = i) \/ (x = i /\ y = j)
    BY DEF Lesser, Greater
  <2>7. row = i /\ col = j => Ring(c, r)
    BY <2>4, <2>6
  <2> HIDE DEF row, col
  <2>8. Before(row, col) \/ (row = i /\ col = j)
    BY <2>1, <2>2, <2>5
  <2> QED
    BY <2>7, <2>8 DEF DrawnBefore, row, col, x, y
<1>11. ASSUME NEW c \in Grid, NEW r \in Grid, Ring(c, r)
       PROVE  out(c, r) \in Wedges
  <2>1. CASE even \/ i > 0
    <3>1. Wedges = {out(j, i), out(i, j), out(last - j, i), out(last - i, j),
                    out(j, last - i), out(i, last - j), out(last - j, last - i), out(last - i, last - j)}
      <4>1. even => width - 1 = last
        BY <1>1, <1>2
      <4>2. ~even => width = last
        BY <1>1, <1>2
      <4> QED
        BY <2>1, <4>1, <4>2 DEF Wedges, EvenWedges, OddWedges, EightWedges
    <3> QED
      BY <1>11, <3>1
  <2>2. CASE ~even /\ i = 0
    <3>1. width = last /\ c # last /\ r # last
      BY <1>1, <1>2, <2>2
    <3>2. last - i = last
      BY <1>1, <2>2
    <3>3. \/ c \in {j, last - j} /\ r = i
          \/ c = i /\ r \in {j, last - j}
      BY <1>11, <3>1, <3>2
    <3>4. Wedges = {out(j, i), out(i, j), out(last - j, i), out(i, last - j)}
      BY <2>2, <3>1 DEF Wedges, OddFirstRow
    <3> QED
      BY <3>3, <3>4
  <2> QED
    BY <1>1, <2>1, <2>2
<1>12. ASSUME First, NEW c \in Grid, NEW r \in Grid, DrawnBefore(c, r)', out(c, r) \in Wedges
       PROVE  Ring(c, r)
  <2>1. out(c, r) \in {out(0, 0), out(0, 1), width * height}
    BY <1>1, <1>12, FirstWedge
  <2>2. out(c, r) \in 0 .. (width * height - 1) /\ width * height \in Nat
    BY <1>1, <1>8, SizesOfImages
  <2>3. CASE out(c, r) = out(0, 0)
    <3>1. c = 0 /\ r = 0
      BY <1>1, <2>3, SamePlace
    <3> QED
      BY <1>12, <3>1
  <2>4. CASE out(c, r) = out(0, 1)
    <3>1. width # 1
      BY <1>1, <1>12, <2>2, <2>4, FirstWedge
    <3>2. c = 0 /\ r = 1
      BY <1>1, <2>4, <3>1, SamePlace
    <3>3. half > 1
      <4>1. width = 2 * half - 1
        BY <1>2, <1>12
      <4> QED
        BY <1>1, <3>1, <4>1
    <3>4. Folded(width, c) = 0 /\ Folded(width, r) = 1
      BY <1>1, <1>4, <3>1, <3>2, <3>3
    <3>5. Lesser(Folded(width, c), Folded(width, r)) = 0 /\ Greater(Folded(width, c), Folded(width, r)) = 1
      BY <3>4 DEF Lesser, Greater
    <3>6. i' = 0 /\ j' = 1
      BY <1>1, <1>12, <3>3 DEF NextColumn
    <3>7. ~DrawnBefore(c, r)'
      BY <3>5, <3>6 DEF DrawnBefore, Before, Iterates, image
    <3> QED
      BY <1>12, <3>7
  <2> QED
    BY <2>1, <2>2, <2>3, <2>4
<1>13. ASSUME NEW c \in Grid, NEW r \in Grid, DrawnBefore(c, r)'
       PROVE  \/ DrawnBefore(c, r) /\ out(c, r) \notin DOMAIN P
              \/ /\ out(c, r) \in DOMAIN P
                 /\ P[out(c, r)] = PixelAt(transformation, width, height, c, r)
  <2>1. CASE Ring(c, r)
    BY <1>9, <1>11, <2>1
  <2>2. CASE ~Ring(c, r)
    <3>1. DrawnBefore(c, r)
      BY <1>10, <1>13, <2>2
    <3>2. ASSUME out(c, r) \in Wedges PROVE FALSE
      <4>1. ~First
        BY <1>12, <1>13, <2>2, <3>2
      <4>2. PICK d \in Grid, s \in Grid : Ring(d, s) /\ out(c, r) = out(d, s)
        BY <1>6, <3>2, <4>1
      <4>3. c = d /\ r = s
        BY <1>1, <4>2, SamePlace
      <4> QED
        BY <2>2, <4>2, <4>3
    <3> QED
      BY <3>1, <3>2
  <2> QED
    BY <2>1, <2>2
<1>14. DOMAIN P \ (0 .. (OW * OH - 1)) \subseteq {width * height}
       /\ (even => DOMAIN P \subseteq 0 .. (OW * OH - 1))
  <2>1. CASE First
    <3>1. out(0, 0) \in 0 .. (OW * OH - 1)
      BY <1>1, <1>8
    <3>2. width > 1 => out(0, 1) \in 0 .. (OW * OH - 1)
      BY <1>1, <1>8
    <3>3. Wedges \subseteq {out(0, 0), out(0, 1), width * height}
          /\ (width = 1 => out(0, 1) = width * height)
      BY <2>1, FirstWedge
    <3>4. width = 1 \/ width > 1
      BY <1>1
    <3> QED
      BY <2>1, <3>1, <3>2, <3>3, <3>4
  <2>2. CASE ~First
    <3> HIDE DEF Grid, Ring
    <3> QED
      BY <1>6, <1>8, <2>2
  <2> QED
    BY <2>1, <2>2
<1>15. Draws(P)
  BY <1>1, <1>5, <1>13 DEF Draws
<1> QED
  BY <1>14, <1>15 DEF v

-----------------------------------------------------------------------------
(* What an iteration of any of the loops keeps, if it stays in the loop.   *)
LEMMA IterationStep ==
  ASSUME IInv, pc \in Loops, Iterates, i' \in Nat, j' \in Nat,
         NEW pixels, Write(pixels), Draws(pixels),
         pc = "pixels" => i' <= height /\ j' < width,
         pc \in Quarters => i' <= half,
         pc \in {"top_left", "wedge"} => i' <= j' /\ (i' < half => j' < half),
         pc = "mirror" => j' < half,
         DOMAIN pixels \ (0 .. (OW * OH - 1)) \subseteq {width * height},
         \/ DOMAIN pixels \subseteq 0 .. (OW * OH - 1)
         \/ impl = "asm" /\ transformation = "kaleidoscope" /\ ~even
  PROVE  IInv'
<1>1. TypeOK /\ LoopInv /\ PictureInv /\ StackInv /\ StrayOnlyOdd /\ WritesThePicture
  BY DEF IInv
<1>2. /\ impl' = impl /\ transformation' = transformation /\ width' = width /\ height' = height
      /\ regs' = regs /\ stack' = stack /\ pc' = pc
      /\ success' = success /\ written' = written /\ exit_status' = exit_status
  BY DEF Iterates, image, machine
<1>3. /\ PictureInv'
      /\ DOMAIN output' = DOMAIN output
      /\ \A k \in DOMAIN output' :
           output'[k].from \in -1 .. (width * height - 1) /\ output'[k].as \in Shade
      /\ stray' = stray \cup (DOMAIN pixels \ (0 .. (OW * OH - 1)))
  BY <1>1, StepDraws DEF Draws
<1>4. OW' = OW /\ OH' = OH /\ half' = half /\ even' = even
  BY <1>2 DEF OW, OH, half, even
<1>5. width * height \in Nat
  BY <1>1, SizesOfImages
<1>6. stray' \subseteq stray \cup {width * height}
  BY <1>3
<1>7. TypeOK'
  <2>1. stray' \subseteq Int
    BY <1>1, <1>5, <1>6 DEF TypeOK
  <2>2. (\A k \in DOMAIN output :
           output[k].from \in -1 .. (width * height - 1) /\ output[k].as \in Shade)'
    BY <1>2, <1>3
  <2> QED
    BY <1>1, <1>2, <2>1, <2>2 DEF TypeOK
<1>8. LoopInv'
  <2>1. ASSUME pc \in {"find", "return", "write"} \cup Loops
        PROVE  DOMAIN output' = 0 .. (OW * OH - 1)
    BY <1>1, <1>3 DEF LoopInv
  <2>2. output' = [k \in DOMAIN output' |-> output'[k]]
    BY DEF Write
  <2> QED
    BY <1>1, <1>2, <1>4, <2>1, <2>2 DEF LoopInv, Loops, Quarters, Drawable
<1>9. StackInv'
  BY <1>1, <1>2 DEF StackInv, Saves
<1>10. StrayOnlyOdd'
  BY <1>1, <1>2, <1>3, <1>4, <1>6 DEF StrayOnlyOdd
<1>11. WritesThePicture'
  <2>1. pc # "exit"
    BY DEF Loops, Quarters
  <2>2. ~written /\ exit_status = -1
    BY <1>1, <2>1 DEF PictureInv
  <2> QED
    BY <1>2, <2>1, <2>2 DEF WritesThePicture
<1> QED
  BY <1>3, <1>7, <1>8, <1>9, <1>10, <1>11 DEF IInv

LEMMA EachPixelStep ==
  ASSUME IInv, EachPixel
  PROVE  IInv'
<1>1. TypeOK /\ LoopInv /\ pc = "pixels" /\ i < height
      /\ NextColumn(width, FALSE) /\ Iterates
  BY DEF IInv, EachPixel
<1>2. width \in Nat \ {0} /\ height \in Nat \ {0}
  BY <1>1, SizesOfImages
<1>3. i \in Nat /\ j \in Nat /\ j < width
  BY <1>1 DEF TypeOK, LoopInv
<1>4. i \in 0 .. (height - 1) /\ j \in 0 .. (width - 1)
  BY <1>1, <1>2, <1>3
<1>5. i' \in Nat /\ j' \in Nat /\ i' <= i + 1 /\ j' < width
  BY <1>1, <1>2, <1>3, NextInRows
<1>6. i' <= height
  BY <1>2, <1>4, <1>5
<1>7. pc \in Loops /\ pc \notin Quarters
  BY <1>1 DEF Loops, Quarters
<1>8. ASSUME NEW pixels, Write(pixels), Writes(pixels)
      PROVE  IInv'
  BY <1>1, <1>7, <1>8, <1>5, <1>6, IterationStep DEF Writes, Quarters
<1>9. CASE transformation = "rgb" /\ Write(RgbPixels(in(j, i)))
  BY <1>1, <1>8, <1>9, RgbWrites
<1>10. CASE transformation = "grayscale" /\ Write(GrayscalePixel(in(j, i)))
  <2>1. <<"grey">> \in Shade
    BY DEF Shade
  <2>2. PixelAt(transformation, width, height, j, i) = Pixel(in(j, i), <<"grey">>)
    BY <1>10 DEF PixelAt, in
  <2>3. Writes(GrayscalePixel(in(j, i)))
    BY <1>1, <1>10, <2>1, <2>2, PlainWrites DEF GrayscalePixel
  <2> QED
    BY <1>8, <1>10, <2>3
<1>11. CASE transformation = "fade" /\ Write(FadedPixel(in(j, i)))
  <2> DEFINE shade == <<"faded", gradient(i, height), gradient(j, width)>>
  <2>1. gradient(i, height) \in 0 .. Full /\ gradient(j, width) \in 0 .. Full
    BY <1>2, <1>4, GradientBounds
  <2>2. shade \in Shade
    BY <2>1 DEF Shade
  <2>3. PixelAt(transformation, width, height, j, i) = Pixel(in(j, i), shade)
    BY <1>11 DEF PixelAt, in
  <2>4. FadedPixel(in(j, i)) = [k \in {in(j, i)} |-> Pixel(in(j, i), shade)]
    BY DEF FadedPixel
  <2> HIDE DEF shade
  <2>5. Writes(FadedPixel(in(j, i)))
    BY <1>1, <1>11, <2>2, <2>3, <2>4, PlainWrites
  <2> QED
    BY <1>8, <1>11, <2>5
<1> QED
  BY <1>9, <1>10, <1>11 DEF EachPixel

(* One iteration of the loops of the kaleidoscopes.                        *)
LEMMA TopLeftStep ==
  ASSUME IInv, TopLeft
  PROVE  IInv'
<1>1. TypeOK /\ LoopInv /\ pc = "top_left" /\ i < half /\ NextColumn(half, TRUE) /\ Iterates
  BY DEF IInv, TopLeft
<1>2. pc \in Loops /\ pc \in Quarters
  BY <1>1 DEF Loops, Quarters
<1>3. /\ i \in Nat /\ j \in Nat /\ half \in Nat /\ i <= j /\ j < half
  BY <1>1, <1>2, Kaleidoscope DEF LoopInv
<1>4. i' \in Nat /\ j' \in Nat /\ i' <= i + 1 /\ i' <= j' /\ (i' < half => j' < half)
  BY <1>1, <1>3, NextFromDiagonal
<1>5. i' <= half
  BY <1>1, <1>3, <1>4
<1> DEFINE P == [k \in {out(j, i), out(i, j)} |-> Pixel(in(j, i), <<"copy">>)]
<1>6. Draws(P) /\ DOMAIN P \subseteq 0 .. (OW * OH - 1)
  BY <1>1, TopLeftWrites DEF Writes
<1>7. Write(P)
  BY DEF TopLeft
<1> HIDE DEF P
<1> QED
  BY <1>1, <1>2, <1>4, <1>5, <1>6, <1>7, IterationStep

LEMMA MirrorStep ==
  ASSUME IInv, Mirror
  PROVE  IInv'
<1>1. /\ TypeOK /\ LoopInv /\ PictureInv /\ pc = "mirror" /\ i < half
      /\ NextColumn(half, FALSE) /\ Iterates
  BY DEF IInv, Mirror
<1>2. pc \in Loops /\ pc \in Quarters
  BY <1>1 DEF Loops, Quarters
<1>3. /\ i \in Nat /\ j \in Nat /\ half \in Nat /\ j < half
  BY <1>1, <1>2, Kaleidoscope DEF LoopInv
<1>4. i' \in Nat /\ j' \in Nat /\ i' <= i + 1 /\ j' < half
  BY <1>1, <1>3, NextInRows
<1>5. i' <= half
  BY <1>1, <1>3, <1>4
<1> DEFINE P == [k \in Mirrors |-> output[out(j, i)]]
<1>6. Draws(P) /\ DOMAIN P \subseteq 0 .. (OW * OH - 1)
  BY <1>1, MirrorWrites DEF Writes
<1>7. Write(P)
  BY DEF Mirror
<1> HIDE DEF P
<1> QED
  BY <1>1, <1>2, <1>4, <1>5, <1>6, <1>7, IterationStep

LEMMA WedgeStep ==
  ASSUME IInv, Wedge
  PROVE  IInv'
<1>1. TypeOK /\ LoopInv /\ pc = "wedge" /\ i < half /\ NextColumn(half, TRUE) /\ Iterates
  BY DEF IInv, Wedge
<1>2. pc \in Loops /\ pc \in Quarters
  BY <1>1 DEF Loops, Quarters
<1>3. /\ i \in Nat /\ j \in Nat /\ half \in Nat /\ i <= j /\ j < half
  BY <1>1, <1>2, Kaleidoscope DEF LoopInv
<1>4. i' \in Nat /\ j' \in Nat /\ i' <= i + 1 /\ i' <= j' /\ (i' < half => j' < half)
  BY <1>1, <1>3, NextFromDiagonal
<1>5. i' <= half
  BY <1>1, <1>3, <1>4
<1> DEFINE P == [k \in Wedges |-> Pixel(in(j, i), <<"copy">>)]
<1>6. /\ Draws(P) /\ DOMAIN P \ (0 .. (OW * OH - 1)) \subseteq {width * height}
      /\ (even => DOMAIN P \subseteq 0 .. (OW * OH - 1))
  BY <1>1, WedgeWrites
<1>7. Write(P)
  BY DEF Wedge
<1>8. impl = "asm" /\ transformation = "kaleidoscope"
  BY <1>1, <1>2 DEF LoopInv
<1> HIDE DEF P
<1> QED
  BY <1>1, <1>2, <1>4, <1>5, <1>6, <1>7, <1>8, IterationStep

-----------------------------------------------------------------------------
(* The quarter is complete: what has been drawn is what mirror starts from.*)
LEMMA TopLeftDoneStep ==
  ASSUME IInv, TopLeftDone
  PROVE  IInv'
<1>1. TypeOK /\ LoopInv /\ PictureInv /\ StackInv /\ StrayOnlyOdd /\ WritesThePicture
      /\ pc = "top_left" /\ i = half
  BY DEF IInv, TopLeftDone
<1>2. /\ impl' = impl /\ transformation' = transformation /\ width' = width /\ height' = height
      /\ output' = output /\ stray' = stray /\ regs' = regs /\ stack' = stack
      /\ success' = success /\ written' = written /\ exit_status' = exit_status
      /\ pc' = "mirror" /\ i' = 0 /\ j' = 0
  BY DEF TopLeftDone, image, machine
<1>3. OW' = OW /\ OH' = OH /\ half' = half /\ even' = even /\ \A c, r : Right(c, r)' = Right(c, r)
  BY <1>2 DEF OW, OH, half, even, Right, out
<1>4. /\ pc \in Loops /\ pc \in Quarters /\ pc' \in Loops /\ pc' \in Quarters
      /\ pc' \notin {"exit", "lost"}
  BY <1>1, <1>2 DEF Loops, Quarters
<1>5. half \in 1 .. width /\ width \in Nat /\ OW = width /\ OH = width
  BY <1>1, <1>4, Kaleidoscope
<1>6. TypeOK'
  BY <1>1, <1>2 DEF TypeOK
<1>7. LoopInv'
  BY <1>1, <1>2, <1>3, <1>4, <1>5 DEF LoopInv, Quarters
<1>8. ASSUME NEW c \in 0 .. (OW - 1), NEW r \in 0 .. (OH - 1), DrawnBefore(c, r)'
      PROVE  Right(c, r)
  <2>1. Folded(width, r) \in 0 .. (half - 1)
    BY <1>1, <1>4, <1>5, Kaleidoscope
  <2>2. InQuarter(c, r)
    <3>1. \/ InQuarter(c, r)'
          \/ Folded(width', r) < i' \/ (Folded(width', r) = i' /\ Folded(width', c) < j')
      BY <1>2, <1>8 DEF DrawnBefore, Before
    <3>2. ~(Folded(width, r) < 0)
      BY <2>1
    <3>3. Folded(width, c) \in 0 .. (half - 1)
      BY <1>1, <1>4, <1>5, Kaleidoscope
    <3>4. ~(Folded(width, c) < 0)
      BY <3>3
    <3>5. InQuarter(c, r)' = InQuarter(c, r)
      BY <1>3 DEF InQuarter
    <3> QED
      BY <1>2, <3>1, <3>2, <3>4, <3>5
  <2>3. Before(Lesser(c, r), Greater(c, r))
    BY <1>1, <1>5, <2>2 DEF InQuarter, Before, Lesser
  <2>4. DrawnBefore(c, r)
    BY <1>1, <2>2, <2>3 DEF DrawnBefore
  <2> QED
    BY <1>1, <1>4, <2>4 DEF PictureInv
<1>9. PictureInv'
  <2>1. ASSUME NEW c \in 0 .. (OW' - 1), NEW r \in 0 .. (OH' - 1), DrawnBefore(c, r)'
        PROVE  Right(c, r)'
    BY <1>3, <1>8, <2>1
  <2> QED
    BY <1>1, <1>2, <2>1 DEF PictureInv
<1>10. StackInv'
  BY <1>1, <1>2, <1>4 DEF StackInv, Saves
<1>11. StrayOnlyOdd'
  BY <1>1, <1>2, <1>3 DEF StrayOnlyOdd
<1>12. WritesThePicture'
  BY <1>1, <1>2, <1>4 DEF WritesThePicture, PictureInv
<1> QED
  BY <1>6, <1>7, <1>9, <1>10, <1>11, <1>12 DEF IInv

(* The loops of a transformation have drawn all of the picture.            *)
LEMMA LoopsEndStep ==
  ASSUME IInv, LoopsEnd
  PROVE  IInv'
<1>1. TypeOK /\ LoopInv /\ PictureInv /\ StackInv /\ StrayOnlyOdd /\ WritesThePicture
  BY DEF IInv
<1>2. /\ impl' = impl /\ transformation' = transformation /\ width' = width /\ height' = height
      /\ output' = output /\ stray' = stray /\ regs' = regs /\ stack' = stack
      /\ success' = success /\ written' = written /\ exit_status' = exit_status
      /\ pc' = "return" /\ i' = i /\ j' = j
  BY DEF LoopsEnd, image, drawing, machine
<1>3. OW' = OW /\ OH' = OH /\ half' = half /\ even' = even /\ \A c, r : Right(c, r)' = Right(c, r)
  BY <1>2 DEF OW, OH, half, even, Right, out
<1>4. pc \in Loops /\ success
  BY <1>1 DEF LoopsEnd, Loops, Quarters, LoopInv
<1>5. ASSUME NEW c \in 0 .. (OW - 1), NEW r \in 0 .. (OH - 1)
      PROVE  DrawnBefore(c, r)
  <2>1. CASE pc = "pixels" /\ transformation = "rgb"
    <3>1. i = height /\ OH = 2 * height /\ height \in Nat \ {0}
      BY <1>1, <2>1, SizesOfImages DEF LoopsEnd
    <3>2. r % height \in 0 .. (height - 1)
      BY <3>1, Remainders
    <3> QED
      BY <2>1, <3>1, <3>2 DEF DrawnBefore, Before
  <2>2. CASE pc = "pixels" /\ transformation # "rgb"
    <3>1. i = height /\ OH = height /\ height \in Nat \ {0}
      BY <1>1, <2>2, SizesOfImages DEF LoopsEnd
    <3> QED
      BY <2>2, <3>1 DEF DrawnBefore, Before
  <2>3. CASE pc \in {"mirror", "wedge"}
    <3>1. pc \in Quarters /\ i = half
      BY <2>3 DEF Quarters, LoopsEnd
    <3>2. half \in Nat /\ OW = width /\ OH = width
      BY <1>1, <3>1, Kaleidoscope
    <3>3. Folded(width, c) \in 0 .. (half - 1) /\ Folded(width, r) \in 0 .. (half - 1)
      BY <1>1, <3>1, <3>2, Kaleidoscope
    <3>4. Lesser(Folded(width, c), Folded(width, r)) < half /\ Folded(width, r) < half
      BY <3>2, <3>3 DEF Lesser
    <3> QED
      BY <2>3, <3>1, <3>4 DEF DrawnBefore, Before
  <2> QED
    BY <2>1, <2>2, <2>3 DEF LoopsEnd
<1>6. TypeOK'
  BY <1>1, <1>2 DEF TypeOK
<1>7. LoopInv'
  BY <1>1, <1>2, <1>3, <1>4 DEF LoopInv, Loops, Quarters
<1>8. PictureInv'
  <2>1. ASSUME NEW c \in 0 .. (OW' - 1), NEW r \in 0 .. (OH' - 1)
        PROVE  Right(c, r)'
    BY <1>1, <1>3, <1>4, <1>5, <2>1 DEF PictureInv
  <2>2. pc # "exit"
    BY <1>4 DEF Loops, Quarters
  <2> QED
    BY <1>1, <1>2, <2>1, <2>2 DEF PictureInv
<1>9. StackInv'
  BY <1>1, <1>2, <1>4 DEF StackInv, Saves
<1>10. StrayOnlyOdd'
  BY <1>1, <1>2, <1>3 DEF StrayOnlyOdd
<1>11. WritesThePicture'
  <2>1. ~written /\ exit_status = -1
    BY <1>1, <1>4 DEF PictureInv, Loops, Quarters
  <2> QED
    BY <1>2, <2>1 DEF WritesThePicture
<1> QED
  BY <1>6, <1>7, <1>8, <1>9, <1>10, <1>11 DEF IInv

-----------------------------------------------------------------------------
(* Before the transformation.                                              *)
LEMMA ReadInputStep ==
  ASSUME IInv, ReadInput
  PROVE  IInv'
<1>1. TypeOK /\ LoopInv /\ PictureInv /\ StackInv /\ StrayOnlyOdd /\ WritesThePicture
      /\ ~success /\ stray = {} /\ ~written /\ exit_status = -1
  BY DEF IInv, ReadInput, PictureInv
<1>2. /\ impl' = impl /\ transformation' = transformation /\ width' = width /\ height' = height
      /\ output' = output /\ stray' = stray /\ regs' = regs /\ stack' = stack
      /\ success' = success /\ written' = written /\ i' = i /\ j' = j
  BY DEF ReadInput, image, drawing, machine
<1>3. \/ pc' = "create" /\ exit_status' = exit_status
      \/ pc' = "exit" /\ exit_status' = 1
      \/ pc' = "killed" /\ exit_status' = exit_status
  BY DEF ReadInput, Exit
<1>4. exit_status' \in {-1, 1} /\ pc' \in {"create", "exit", "killed"}
  BY <1>1, <1>3
<1>5. TypeOK'
  BY <1>1, <1>2, <1>4 DEF TypeOK
<1>6. LoopInv'
  BY <1>1, <1>2, <1>4 DEF LoopInv, Loops, Quarters
<1>7. PictureInv'
  BY <1>1, <1>2, <1>3 DEF PictureInv, Loops, Quarters
<1>8. StackInv'
  BY <1>4 DEF StackInv, Loops, Quarters
<1>9. StrayOnlyOdd' /\ WritesThePicture'
  BY <1>1, <1>2, <1>4 DEF StrayOnlyOdd, WritesThePicture
<1> QED
  BY <1>5, <1>6, <1>7, <1>8, <1>9 DEF IInv

LEMMA CreateOutputStep ==
  ASSUME IInv, CreateOutput
  PROVE  IInv'
<1>1. TypeOK /\ LoopInv /\ PictureInv /\ StackInv /\ StrayOnlyOdd /\ WritesThePicture
      /\ ~success /\ stray = {} /\ ~written /\ exit_status = -1
  BY DEF IInv, CreateOutput, PictureInv
<1>2. /\ impl' = impl /\ transformation' = transformation /\ width' = width /\ height' = height
      /\ stray' = stray /\ regs' = regs /\ stack' = stack
      /\ success' = success /\ written' = written /\ i' = i /\ j' = j
  BY DEF CreateOutput, image, machine
<1>3. OW' = OW /\ OH' = OH /\ half' = half
  BY <1>2 DEF OW, OH, half
<1>4. \/ /\ output' = [k \in 0 .. (OW * OH - 1) |-> Black]
         /\ pc' = "find" /\ exit_status' = exit_status
      \/ output' = output /\ pc' = "exit" /\ exit_status' = 1
  BY DEF CreateOutput, Exit, OW, OH
<1>5. exit_status' \in {-1, 1} /\ pc' \in {"find", "exit"}
  BY <1>1, <1>4
<1>6. \A k \in DOMAIN output' :
        output'[k].from \in -1 .. (width * height - 1) /\ output'[k].as \in Shade
  <2>1. Black.from = -1 /\ Black.as = <<"black">>
    BY DEF Black, Pixel
  <2>2. Black.as \in Shade
    BY <2>1 DEF Shade
  <2>3. Black.from \in -1 .. (width * height - 1)
    BY <1>1, <2>1, SizesOfImages
  <2> QED
    BY <1>1, <1>4, <2>2, <2>3 DEF TypeOK
<1>7. TypeOK'
  BY <1>1, <1>2, <1>5, <1>6 DEF TypeOK
<1>8. LoopInv'
  BY <1>1, <1>2, <1>3, <1>4 DEF LoopInv, Loops, Quarters
<1>9. PictureInv'
  BY <1>1, <1>2, <1>4 DEF PictureInv, Loops, Quarters
<1>10. StackInv'
  BY <1>5 DEF StackInv, Loops, Quarters
<1>11. StrayOnlyOdd' /\ WritesThePicture'
  BY <1>1, <1>2, <1>5 DEF StrayOnlyOdd, WritesThePicture
<1> QED
  BY <1>7, <1>8, <1>9, <1>10, <1>11 DEF IInv

LEMMA UnknownTransformationStep ==
  ASSUME IInv, UnknownTransformation
  PROVE  IInv'
<1>1. TypeOK /\ LoopInv /\ PictureInv /\ StackInv /\ StrayOnlyOdd /\ WritesThePicture
      /\ ~success /\ stray = {} /\ ~written
  BY DEF IInv, UnknownTransformation, PictureInv
<1>2. /\ impl' = impl /\ transformation' = transformation /\ width' = width /\ height' = height
      /\ output' = output /\ stray' = stray /\ regs' = regs /\ stack' = stack
      /\ success' = success /\ written' = written /\ i' = i /\ j' = j
      /\ pc' = "exit" /\ exit_status' = 1
  BY DEF UnknownTransformation, image, drawing, machine, Exit
<1>3. TypeOK'
  BY <1>1, <1>2 DEF TypeOK
<1>4. LoopInv' /\ PictureInv' /\ StackInv'
  BY <1>1, <1>2 DEF LoopInv, PictureInv, StackInv, Loops, Quarters
<1>5. StrayOnlyOdd' /\ WritesThePicture'
  BY <1>1, <1>2 DEF StrayOnlyOdd, WritesThePicture
<1> QED
  BY <1>3, <1>4, <1>5 DEF IInv

-----------------------------------------------------------------------------
(* The prologues and the epilogues.                                        *)
Values == Register \cup {"scratch", "return"}

LEMMA PrologueTyped ==
  ASSUME NEW t \in Transformation
  PROVE  Saves(t) \in Seq(Register \cup {Local})
<1>1. /\ SavesRgb \in Seq(Register \cup {Local})
      /\ SavesGrayscale \in Seq(Register \cup {Local})
      /\ SavesFade \in Seq(Register \cup {Local})
  BY DEF SavesRgb, SavesGrayscale, SavesFade, Register, CalleeSaved
<1>2. SavesKaleidoscope \in Seq(Register \cup {Local})
  <2>1. /\ <<"rbp", "r12", "r13">> \in Seq(Register \cup {Local})
        /\ FourLocals \in Seq(Register \cup {Local})
        /\ <<"r14", "r10", "r11", "r15">> \in Seq(Register \cup {Local})
    BY DEF FourLocals, Register, CalleeSaved
  <2> QED
    BY <2>1, ConcatProperties DEF SavesKaleidoscope
<1> QED
  BY <1>1, <1>2 DEF Saves, Transformation

LEMMA SameLength ==
  ASSUME NEW t \in Transformation, NEW drawn \in BOOLEAN
  PROVE  Len(Restores(t, drawn)) = Len(Saves(t))
<1>1. /\ Len(SavesRgb) = Len(RestoresRgb)
      /\ Len(SavesGrayscale) = Len(RestoresGrayscale)
      /\ Len(SavesFade) = Len(RestoresFade)
  BY DEF SavesRgb, SavesGrayscale, SavesFade, RestoresRgb, RestoresGrayscale, RestoresFade
<1>2. /\ Len(SavesKaleidoscope) = 11
      /\ Len(RestoresEven) = 11 /\ Len(RestoresOdd) = 11 /\ Len(RestoresRefused) = 11
  <2> DEFINE All == Register \cup {Local}
  <2>1. FourLocals \in Seq(All) /\ Len(FourLocals) = 4
    BY DEF FourLocals
  <2> HIDE DEF All
  <2>2. ASSUME NEW a \in Seq(All), NEW b \in Seq(All)
        PROVE  Len((a \o FourLocals) \o b) = Len(a) + 4 + Len(b)
    <3>1. a \o FourLocals \in Seq(All)
      BY <2>1, ConcatProperties
    <3>2. Len(a \o FourLocals) = Len(a) + Len(FourLocals)
      BY <2>1, ConcatProperties
    <3>3. Len((a \o FourLocals) \o b) = Len(a \o FourLocals) + Len(b)
      BY <3>1, ConcatProperties
    <3> QED
      BY <2>1, <3>2, <3>3
  <2>3. /\ <<"rbp", "r12", "r13">> \in Seq(All) /\ <<"r14", "r10", "r11", "r15">> \in Seq(All)
        /\ <<"rbp">> \in Seq(All)
        /\ <<"r11", "r10", "r15", "r14", "r13", "r12">> \in Seq(All)
        /\ <<"r11", "r12", "r10", "r15", "r13", "r14">> \in Seq(All)
        /\ <<"r11", "r15", "r10", "r13", "r12", "r14">> \in Seq(All)
    BY DEF All, Register, CalleeSaved
  <2>4. /\ Len(<<"rbp", "r12", "r13">>) = 3 /\ Len(<<"r14", "r10", "r11", "r15">>) = 4
        /\ Len(<<"rbp">>) = 1
        /\ Len(<<"r11", "r10", "r15", "r14", "r13", "r12">>) = 6
        /\ Len(<<"r11", "r12", "r10", "r15", "r13", "r14">>) = 6
        /\ Len(<<"r11", "r15", "r10", "r13", "r12", "r14">>) = 6
    OBVIOUS
  <2>5. Len(SavesKaleidoscope) = 11
    <3>1. SavesKaleidoscope = (<<"rbp", "r12", "r13">> \o FourLocals) \o <<"r14", "r10", "r11", "r15">>
      BY DEF SavesKaleidoscope
    <3>2. Len(SavesKaleidoscope) = Len(<<"rbp", "r12", "r13">>) + 4 + Len(<<"r14", "r10", "r11", "r15">>)
      BY <2>2, <2>3, <3>1, Zenon
    <3> QED
      BY <2>4, <3>2
  <2>6. ASSUME NEW a \in Seq(All), Len(a) = 6
        PROVE  Len((a \o FourLocals) \o <<"rbp">>) = 11
    <3>1. Len((a \o FourLocals) \o <<"rbp">>) = Len(a) + 4 + Len(<<"rbp">>)
      BY <2>2, <2>3, Zenon
    <3> QED
      BY <2>4, <2>6, <3>1
  <2>7. Len(RestoresEven) = 11
    BY <2>3, <2>4, <2>6, Zenon DEF RestoresEven
  <2>8. Len(RestoresOdd) = 11
    BY <2>3, <2>4, <2>6, Zenon DEF RestoresOdd
  <2>9. Len(RestoresRefused) = 11
    BY <2>3, <2>4, <2>6, Zenon DEF RestoresRefused
  <2> QED
    BY <2>5, <2>7, <2>8, <2>9
<1> QED
  BY <1>1, <1>2 DEF Saves, Restores, Transformation

LEMMA PushedOnTop ==
  ASSUME TypeOK, NEW saves \in Seq(Register \cup {Local}), NEW below \in Values
  PROVE  LET s == Pushed(saves, <<below>>)
         IN  s \in Seq(Values) /\ Len(s) = Len(saves) + 1 /\ s[Len(s)] = below
<1> DEFINE n == Len(saves)
           value == [k \in 1 .. n |->
                       LET r == saves[n + 1 - k] IN IF r = Local THEN "scratch" ELSE regs[r]]
<1>1. n \in Nat /\ \A k \in 1 .. n : saves[n + 1 - k] \in Register \cup {Local}
  OBVIOUS
<1>2. \A k \in 1 .. n : value[k] \in Values
  <2>1. \A r \in Register : regs[r] \in Values
    BY DEF TypeOK, Values
  <2>2. "scratch" \in Values
    BY DEF Values
  <2> QED
    BY <1>1, <2>1, <2>2
<1>3. Pushed(saves, <<below>>) = value \o <<below>>
  BY DEF Pushed
<1>4. DOMAIN value = 1 .. n /\ value = [k \in 1 .. n |-> value[k]]
  OBVIOUS
<1> HIDE DEF value, n
<1>5. value \in Seq(Values) /\ Len(value) = n
  <2>1. value \in [1 .. n -> Values]
    BY <1>2, <1>4
  <2> QED
    BY <1>1, <2>1, <1>4
<1>6. <<below>> \in Seq(Values) /\ Len(<<below>>) = 1 /\ <<below>>[1] = below
  OBVIOUS
<1>7. /\ value \o <<below>> \in Seq(Values) /\ Len(value \o <<below>>) = n + 1
      /\ (value \o <<below>>)[n + 1] = below
  BY <1>1, <1>5, <1>6, ConcatProperties
<1> QED
  BY <1>3, <1>7 DEF n

LEMMA GreatestOf ==
  ASSUME NEW n \in Nat, NEW T, T \subseteq 1 .. n, T # {}
  PROVE  Max(T) \in T
<1> DEFINE R == OpToRel(<, Nat)
           U == {n - k : k \in T}
<1>1. IsWellFoundedOn(R, Nat)
  BY NatLessThanWellFounded
<1>2. R = {ss \in Nat \X Nat : ss[1] < ss[2]}
  BY DEF OpToRel
<1>3. U \subseteq Nat /\ U # {}
  <2>1. \A k \in T : n - k \in Nat
    OBVIOUS
  <2> QED
    BY <2>1
<1> HIDE DEF R
<1>4. PICK m \in U : \A y \in U : ~ (<<y, m>> \in R)
  <2> HIDE DEF U
  <2> QED
    BY <1>1, <1>3, WFMin
<1>5. PICK k \in T : m = n - k
  BY <1>4
<1>6. \A l \in T : ~(n - l < n - k)
  BY <1>2, <1>3, <1>4, <1>5
<1>7. \A l \in T : k >= l
  BY <1>6
<1> QED
  BY <1>7 DEF Max

(* The epilogue leaves in each register what it has popped into it last.   *)
LEMMA PoppedTyped ==
  ASSUME TypeOK, NEW restores, Len(restores) \in Nat,
         DOMAIN restores = 1 .. Len(restores), Len(restores) <= Len(stack)
  PROVE  Popped(restores) \in [Register -> Values]
<1>1. ASSUME NEW r \in Register, \E k \in DOMAIN restores : restores[k] = r
      PROVE  stack[Max({k \in DOMAIN restores : restores[k] = r})] \in Values
  <2> DEFINE T == {k \in DOMAIN restores : restores[k] = r}
  <2>1. T \subseteq 1 .. Len(restores) /\ T # {}
    BY <1>1
  <2> HIDE DEF T
  <2>2. Max(T) \in 1 .. Len(restores)
    BY <2>1, GreatestOf
  <2>3. stack \in Seq(Values)
    BY DEF TypeOK, Values
  <2>4. stack[Max(T)] \in Values
    BY <2>2, <2>3
  <2> QED
    BY <2>4 DEF T
<1>2. ASSUME NEW r \in Register PROVE regs[r] \in Values
  BY DEF TypeOK, Values
<1> QED
  BY <1>1, <1>2 DEF Popped

LEMMA EpilogueTyped ==
  ASSUME NEW t \in Transformation, NEW drawn \in BOOLEAN
  PROVE  Restores(t, drawn) \in Seq(Register \cup {Local})
<1>1. /\ RestoresRgb \in Seq(Register \cup {Local})
      /\ RestoresGrayscale \in Seq(Register \cup {Local})
      /\ RestoresFade \in Seq(Register \cup {Local})
  BY DEF RestoresRgb, RestoresGrayscale, RestoresFade, Register, CalleeSaved
<1>2. /\ RestoresEven \in Seq(Register \cup {Local})
      /\ RestoresOdd \in Seq(Register \cup {Local})
      /\ RestoresRefused \in Seq(Register \cup {Local})
  <2>1. /\ <<"rbp">> \in Seq(Register \cup {Local})
        /\ FourLocals \in Seq(Register \cup {Local})
        /\ <<"r11", "r10", "r15", "r14", "r13", "r12">> \in Seq(Register \cup {Local})
        /\ <<"r11", "r12", "r10", "r15", "r13", "r14">> \in Seq(Register \cup {Local})
        /\ <<"r11", "r15", "r10", "r13", "r12", "r14">> \in Seq(Register \cup {Local})
    BY DEF FourLocals, Register, CalleeSaved
  <2> QED
    BY <2>1, ConcatProperties DEF RestoresEven, RestoresOdd, RestoresRefused
<1> QED
  BY <1>1, <1>2 DEF Restores, Transformation

-----------------------------------------------------------------------------
(* The call of the transformation.                                         *)
LEMMA ApplyStep ==
  ASSUME IInv, Apply
  PROVE  IInv'
<1>1. TypeOK /\ LoopInv /\ PictureInv /\ pc = "find" /\ transformation \in Transformation
      /\ ~success /\ stray = {} /\ ~written /\ exit_status = -1
  BY DEF IInv, Apply, PictureInv
<1>2. /\ impl' = impl /\ transformation' = transformation /\ width' = width /\ height' = height
      /\ output' = output /\ stray' = stray /\ written' = written /\ exit_status' = exit_status
      /\ i' = 0 /\ j' = 0 /\ success' = applied
  BY DEF Apply, image
<1>3. OW' = OW /\ OH' = OH /\ half' = half /\ even' = even
  BY <1>2 DEF OW, OH, half, even
<1>4. success' \in BOOLEAN
  BY <1>2 DEF applied
<1>5. success' => Drawable(transformation, width, height)
  BY <1>1, <1>2 DEF applied, Drawable
<1>6. /\ pc' \in {"return", "pixels", "top_left", "wedge"}
      /\ pc' = "return" => ~success'
      /\ pc' # "return" => success'
      /\ pc' = "pixels" => transformation # "kaleidoscope"
      /\ pc' \in {"top_left", "wedge"} => transformation = "kaleidoscope"
      /\ pc' = "wedge" => impl = "asm"
  BY <1>1, <1>4 DEF Apply, TypeOK
<1>7. /\ width \in Nat \ {0} /\ height \in Nat \ {0} /\ half \in Nat \ {0}
      /\ OW \in Nat /\ OH \in Nat
  <2>1. width \in Nat \ {0} /\ height \in Nat \ {0} /\ OW \in Nat /\ OH \in Nat
    BY <1>1, SizesOfImages
  <2>2. half \in 1 .. width
    BY <2>1, Middle
  <2> QED
    BY <2>1, <2>2
<1>8. impl' = "asm" => /\ stack' = Pushed(Saves(transformation), <<"return">>)
                       /\ regs' = [r \in Register |->
                            IF r \in Overwrites(transformation, success') THEN "scratch" ELSE regs[r]]
  BY <1>2 DEF Apply
<1>9. impl' = "c" => stack' = <<"return">> /\ regs' = regs
  BY <1>2 DEF Apply
<1>10. impl' \in {"c", "asm"}
  BY <1>1, <1>2 DEF TypeOK
<1>11. /\ stack' \in Seq(Values)
       /\ impl' = "asm" => /\ Len(stack') = Len(Saves(transformation)) + 1
                           /\ stack'[Len(stack')] = "return"
  <2>1. CASE impl' = "c"
    <3>1. "return" \in Values
      BY DEF Values
    <3>2. <<"return">> \in Seq(Values)
      BY <3>1
    <3> QED
      BY <1>9, <2>1, <3>2
  <2>2. CASE impl' = "asm"
    <3>1. "return" \in Values
      BY DEF Values
    <3>2. Saves(transformation) \in Seq(Register \cup {Local})
      BY <1>1, PrologueTyped
    <3> DEFINE s == Pushed(Saves(transformation), <<"return">>)
    <3>3. s \in Seq(Values) /\ Len(s) = Len(Saves(transformation)) + 1 /\ s[Len(s)] = "return"
      BY <1>1, <3>1, <3>2, PushedOnTop
    <3>4. stack' = s
      BY <1>8, <2>2
    <3> HIDE DEF s
    <3> QED
      BY <3>3, <3>4
  <2> QED
    BY <1>10, <2>1, <2>2
<1>12. regs' \in [Register -> Values]
  <2>1. regs \in [Register -> Values] /\ "scratch" \in Values
    BY <1>1 DEF TypeOK, Values
  <2> QED
    BY <1>8, <1>9, <1>10, <2>1
<1>13. TypeOK'
  <2>1. pc' \in {"read", "create", "find", "pixels", "top_left", "mirror", "wedge",
                 "return", "write", "lost", "killed", "exit"}
    BY <1>6
  <2> QED
    BY <1>1, <1>2, <1>4, <1>11, <1>12, <2>1 DEF TypeOK, Values
<1>14. LoopInv'
  <2>1. /\ pc' \in Loops => success'
        /\ pc' \in Loops \cup {"return"} => transformation' \in Transformation
        /\ success' => Drawable(transformation', width', height')
        /\ pc' = "wedge" => impl' = "asm"
        /\ pc' # "mirror"
    BY <1>1, <1>2, <1>5, <1>6 DEF Loops, Quarters
  <2>2. /\ pc' = "pixels" => transformation' # "kaleidoscope" /\ i' <= height' /\ j' < width'
        /\ pc' \in Quarters => transformation' = "kaleidoscope" /\ i' <= half'
        /\ pc' \in {"top_left", "wedge"} => i' <= j' /\ (i' < half' => j' < half')
    BY <1>2, <1>3, <1>6, <1>7 DEF Quarters
  <2>3. /\ DOMAIN output' = 0 .. (OW' * OH' - 1)
        /\ output' = [k \in DOMAIN output' |-> output'[k]]
    BY <1>1, <1>2, <1>3 DEF LoopInv
  <2> QED
    BY <2>1, <2>2, <2>3 DEF LoopInv
<1>15. ASSUME NEW c \in 0 .. (OW - 1), NEW r \in 0 .. (OH - 1)
       PROVE  ~DrawnBefore(c, r)'
  <2>1. ASSUME NEW x \in Nat, NEW y \in Nat PROVE ~Before(x, y)'
    BY <1>2 DEF Before
  <2>2. c \in Nat /\ r \in Nat /\ Lesser(c, r) \in Nat /\ Greater(c, r) \in Nat
    BY DEF Lesser, Greater
  <2>3. CASE pc' = "return"
    BY <1>6, <2>3 DEF DrawnBefore
  <2>4. CASE pc' = "pixels"
    <3>1. r % height \in Nat /\ c % width \in Nat
      BY <1>7, <2>2
    <3> QED
      BY <1>2, <2>1, <2>2, <2>4, <3>1 DEF DrawnBefore
  <2>5. CASE pc' = "top_left"
    BY <2>1, <2>2, <2>5 DEF DrawnBefore
  <2>6. CASE pc' = "wedge"
    <3>1. OW = width /\ OH = width
      BY <1>1, <1>5, <1>6, <2>6, SizesOfImages DEF Drawable
    <3>2. Folded(width, c) \in Nat /\ Folded(width, r) \in Nat
      BY <1>7, <3>1, Middle
    <3>3. /\ Lesser(Folded(width, c), Folded(width, r)) \in Nat
          /\ Greater(Folded(width, c), Folded(width, r)) \in Nat
      BY <3>2 DEF Lesser, Greater
    <3> QED
      BY <1>2, <2>1, <2>6, <3>3 DEF DrawnBefore
  <2> QED
    BY <1>6, <2>3, <2>4, <2>5, <2>6
<1>16. PictureInv'
  BY <1>1, <1>2, <1>3, <1>6, <1>15 DEF PictureInv
<1>17. StackInv'
  BY <1>2, <1>6, <1>9, <1>11 DEF StackInv
<1>18. StrayOnlyOdd' /\ WritesThePicture'
  BY <1>1, <1>2 DEF StrayOnlyOdd, WritesThePicture
<1> QED
  BY <1>13, <1>14, <1>16, <1>17, <1>18 DEF IInv

(* The epilogue and the return: as much is popped as was pushed.           *)
LEMMA ReturnStep ==
  ASSUME IInv, Return
  PROVE  IInv'
<1>1. TypeOK /\ LoopInv /\ PictureInv /\ StackInv /\ StrayOnlyOdd /\ WritesThePicture /\ pc = "return"
      /\ transformation \in Transformation /\ ~written /\ exit_status = -1
  BY DEF IInv, Return, LoopInv, PictureInv
<1>2. /\ impl' = impl /\ transformation' = transformation /\ width' = width /\ height' = height
      /\ output' = output /\ stray' = stray /\ success' = success
      /\ written' = written /\ exit_status' = exit_status /\ i' = i /\ j' = j
  BY DEF Return, image, drawing
<1>3. OW' = OW /\ OH' = OH /\ half' = half /\ even' = even /\ \A c, r : Right(c, r)' = Right(c, r)
  BY <1>2 DEF OW, OH, half, even, Right, out
<1> DEFINE restores == IF impl = "c" THEN <<>> ELSE Restores(transformation, success)
<1>4. /\ regs' = Popped(restores)
      /\ stack' = SubSeq(stack, Len(restores) + 2, Len(stack))
      /\ pc' = IF stack[Len(restores) + 1] = "return" THEN "write" ELSE "lost"
  BY DEF Return
<1>5. restores \in Seq(Register \cup {Local}) /\ Len(stack) = Len(restores) + 1
      /\ stack[Len(stack)] = "return"
  <2>1. CASE impl = "c"
    <3>1. restores = <<>> /\ stack = <<"return">>
      BY <1>1, <2>1 DEF StackInv
    <3> HIDE DEF restores
    <3> QED
      BY <3>1
  <2>2. CASE impl = "asm"
    <3>1. restores = Restores(transformation, success) /\ success \in BOOLEAN
      BY <1>1, <2>2 DEF TypeOK
    <3>2. Len(stack) = Len(Saves(transformation)) + 1 /\ stack[Len(stack)] = "return"
      BY <1>1, <2>2 DEF StackInv
    <3> HIDE DEF restores
    <3>3. restores \in Seq(Register \cup {Local}) /\ Len(restores) = Len(Saves(transformation))
      BY <1>1, <3>1, EpilogueTyped, SameLength
    <3> QED
      BY <3>2, <3>3
  <2> QED
    BY <1>1, <2>1, <2>2 DEF TypeOK
<1> HIDE DEF restores
<1>6. /\ Len(restores) \in Nat /\ DOMAIN restores = 1 .. Len(restores)
      /\ Len(restores) <= Len(stack)
  BY <1>5
<1>7. pc' = "write"
  BY <1>4, <1>5
<1>8. regs' \in [Register -> Values]
  BY <1>1, <1>4, <1>6, PoppedTyped
<1>9. stack' \in Seq(Values)
  <2>1. stack \in Seq(Values)
    BY <1>1 DEF TypeOK, Values
  <2>2. SubSeq(stack, Len(restores) + 2, Len(stack)) \in Seq(Values)
    BY <1>5, <1>6, <2>1
  <2> QED
    BY <1>4, <2>2
<1>10. TypeOK'
  BY <1>1, <1>2, <1>7, <1>8, <1>9 DEF TypeOK, Values
<1>11. LoopInv'
  BY <1>1, <1>2, <1>3, <1>7 DEF LoopInv, Loops, Quarters
<1>12. PictureInv'
  <2>1. ASSUME NEW c \in 0 .. (OW' - 1), NEW r \in 0 .. (OH' - 1), DrawnBefore(c, r)'
        PROVE  Right(c, r)'
    <3>1. success
      BY <1>2, <1>7, <2>1 DEF DrawnBefore
    <3>2. DrawnBefore(c, r)
      BY <1>1, <3>1 DEF DrawnBefore
    <3> QED
      BY <1>1, <1>3, <2>1, <3>2 DEF PictureInv
  <2> QED
    BY <1>1, <1>2, <1>7, <2>1 DEF PictureInv
<1>13. StackInv'
  BY <1>7 DEF StackInv, Loops, Quarters
<1>14. StrayOnlyOdd' /\ WritesThePicture'
  BY <1>1, <1>2, <1>3 DEF StrayOnlyOdd, WritesThePicture
<1> QED
  BY <1>10, <1>11, <1>12, <1>13, <1>14 DEF IInv

(* What is written is the whole picture.                                   *)
(* A kaleidoscope is symmetric as far as the picture it is cut from: two   *)
(* places mirrored in each other fold onto the same wedge.                 *)
LEMMA DrawnSymmetric ==
  ASSUME NEW n \in Nat \ {0}
  PROVE  Symmetric(Padded(n), n, Drawn("kaleidoscope", n, n))
<1> DEFINE Side == 0 .. (n - 1)
           At(c, r) == PixelAt("kaleidoscope", n, n, c, r)
           pixels == Drawn("kaleidoscope", n, n)
<1>1. ASSUME NEW c \in Side, NEW r \in Side
      PROVE  pixels[compute_index(n, c, r)] = At(c, r)
  <2> DEFINE k == compute_index(n, c, r)
  <2>1. k \in 0 .. (n * n - 1) /\ k % n = c /\ k \div n = r
    BY PlaceOf
  <2>2. OutWidth("kaleidoscope", n) = n /\ OutHeight("kaleidoscope", n) = n
    BY DEF OutWidth, OutHeight
  <2> HIDE DEF k
  <2>3. pixels[k] = At(k % n, k \div n)
    BY <2>1, <2>2 DEF Drawn
  <2> QED
    BY <2>1, <2>3 DEF k
<1>2. Padded(n) \in Int
  BY DEF Padded
<1>3. \A x \in Side : Folded(n, x) \in Int /\ Folded(n, Padded(n) - 1 - x) = Folded(n, x)
  BY <1>2 DEF Folded
<1>4. ASSUME NEW c \in Side, NEW r \in Side, NEW d \in Side, NEW s \in Side,
             \/ Folded(n, d) = Folded(n, c) /\ Folded(n, s) = Folded(n, r)
             \/ Folded(n, d) = Folded(n, r) /\ Folded(n, s) = Folded(n, c)
      PROVE  At(d, s) = At(c, r)
  <2>1. \A e, t \in Side :
          At(e, t) = IF Folded(n, t) <= Folded(n, e)
                     THEN Pixel(compute_index(n, Folded(n, e), Folded(n, t)), <<"copy">>)
                     ELSE Pixel(compute_index(n, Folded(n, t), Folded(n, e)), <<"copy">>)
    BY DEF PixelAt
  <2> HIDE DEF At
  <2>2. Folded(n, c) \in Int /\ Folded(n, r) \in Int
    BY <1>3
  <2> QED
    BY <1>4, <2>1, <2>2
<1> HIDE DEF At
<1>5. ASSUME NEW c \in Side, NEW r \in Side,
             NEW place \in {<<r, c>>, <<Padded(n) - 1 - c, r>>, <<c, Padded(n) - 1 - r>>,
                            <<Padded(n) - 1 - r, Padded(n) - 1 - c>>} \cap (Side \X Side)
      PROVE  pixels[compute_index(n, place[1], place[2])] = pixels[compute_index(n, c, r)]
  <2>1. place[1] \in Side /\ place[2] \in Side
    BY <1>5
  <2>2. \/ Folded(n, place[1]) = Folded(n, c) /\ Folded(n, place[2]) = Folded(n, r)
        \/ Folded(n, place[1]) = Folded(n, r) /\ Folded(n, place[2]) = Folded(n, c)
    BY <1>3, <1>5
  <2>3. At(place[1], place[2]) = At(c, r)
    BY <1>4, <2>1, <2>2
  <2> QED
    BY <1>1, <2>1, <2>3
<1> QED
  BY <1>5 DEF Symmetric

LEMMA WriteOutputStep ==
  ASSUME IInv, WriteOutput
  PROVE  IInv'
<1>1. TypeOK /\ LoopInv /\ PictureInv /\ StackInv /\ StrayOnlyOdd /\ WritesThePicture /\ pc = "write"
      /\ ~written /\ exit_status = -1
  BY DEF IInv, WriteOutput, PictureInv
<1>2. /\ impl' = impl /\ transformation' = transformation /\ width' = width /\ height' = height
      /\ output' = output /\ stray' = stray /\ success' = success
      /\ regs' = regs /\ stack' = stack /\ i' = i /\ j' = j
  BY DEF WriteOutput, image, drawing, machine
<1>3. \/ success /\ written' \in BOOLEAN /\ pc' = "exit" /\ exit_status' = 0
      \/ written' = written /\ pc' = "exit" /\ exit_status' = 1
      \/ success /\ pc' = "killed" /\ written' = written /\ exit_status' = exit_status
  BY DEF WriteOutput, Exit
<1>4. pc' \in {"exit", "killed"}
  BY <1>3
<1>5. ASSUME success
      PROVE  /\ Drawable(transformation, width, height)
             /\ output = Drawn(transformation, width, height)
             /\ transformation = "kaleidoscope" => Symmetric(Padded(width), width, output)
  <2>1. Drawable(transformation, width, height)
    BY <1>1, <1>5 DEF LoopInv
  <2>2. /\ DOMAIN output = 0 .. (OW * OH - 1)
        /\ output = [k \in DOMAIN output |-> output[k]]
    BY <1>1 DEF LoopInv
  <2>3. ASSUME NEW k \in 0 .. (OW * OH - 1)
        PROVE  output[k] = PixelAt(transformation, width, height, k % OW, k \div OW)
    <3>1. /\ k % OW \in 0 .. (OW - 1) /\ k \div OW \in 0 .. (OH - 1)
          /\ out(k % OW, k \div OW) = k
      BY <1>1, OutputPlaces
    <3> DEFINE c == k % OW
               r == k \div OW
    <3>2. c \in 0 .. (OW - 1) /\ r \in 0 .. (OH - 1) /\ out(c, r) = k
      BY <3>1
    <3> HIDE DEF c, r
    <3>3. DrawnBefore(c, r)
      BY <1>1, <1>5 DEF DrawnBefore
    <3>4. output[k] = PixelAt(transformation, width, height, c, r)
      BY <1>1, <3>2, <3>3 DEF PictureInv, Right
    <3> QED
      BY <3>4 DEF c, r
  <2>4. output = [k \in 0 .. (OW * OH - 1) |->
                    PixelAt(transformation, width, height, k % OW, k \div OW)]
    BY <2>2, <2>3, Zenon
  <2>5. output = Drawn(transformation, width, height)
    BY <2>4 DEF Drawn, OW, OH
  <2>6. ASSUME transformation = "kaleidoscope"
        PROVE  Symmetric(Padded(width), width, output)
    <3>1. width = height /\ width \in Nat \ {0}
      BY <1>1, <2>1, <2>6, SizesAssumption DEF Drawable, TypeOK
    <3>2. output = Drawn("kaleidoscope", width, width)
      BY <2>5, <2>6, <3>1
    <3> QED
      BY <3>1, <3>2, DrawnSymmetric
  <2> QED
    BY <2>1, <2>5, <2>6
<1>6. TypeOK'
  <2>1. written' \in BOOLEAN /\ exit_status' \in {-1, 0, 1}
    BY <1>1, <1>3 DEF TypeOK
  <2> QED
    BY <1>1, <1>2, <1>4, <2>1 DEF TypeOK
<1>7. LoopInv'
  BY <1>1, <1>2, <1>4 DEF LoopInv, Loops, Quarters
<1>8. PictureInv'
  BY <1>1, <1>2, <1>3, <1>4 DEF PictureInv, Loops, Quarters
<1>9. StackInv'
  BY <1>4 DEF StackInv, Loops, Quarters
<1>10. StrayOnlyOdd'
  BY <1>1, <1>2 DEF StrayOnlyOdd, even
<1>11. WritesThePicture'
  <2>1. written' \/ exit_status' = 0 => success
    BY <1>1, <1>3
  <2>2. pc' = "exit" /\ written' => exit_status' = 0
    BY <1>1, <1>3
  <2> QED
    BY <1>2, <1>5, <2>1, <2>2 DEF WritesThePicture
<1> QED
  BY <1>6, <1>7, <1>8, <1>9, <1>10, <1>11 DEF IInv

-----------------------------------------------------------------------------
LEMMA InitInv == Init => IInv
<1> SUFFICES ASSUME Init PROVE IInv
  OBVIOUS
<1>1. TypeOK
  <2>1. /\ impl \in {"c", "asm"} /\ transformation \in Transformation \cup {"other"}
        /\ width \in Sizes /\ height \in Sizes /\ pc = "read" /\ i = 0 /\ j = 0
        /\ stray = {} /\ success = FALSE /\ written = FALSE /\ exit_status = -1
    BY DEF Init
  <2>2. output = <<>> /\ DOMAIN output = {}
    BY DEF Init
  <2>3. regs \in [Register -> Register \cup {"scratch", "return"}]
    BY DEF Init
  <2>4. stack \in Seq(Register \cup {"scratch", "return"})
    BY DEF Init
  <2> QED
    BY <2>1, <2>2, <2>3, <2>4 DEF TypeOK
<1>2. LoopInv /\ PictureInv /\ StackInv
  BY DEF Init, LoopInv, PictureInv, StackInv, Loops, Quarters
<1>3. StrayOnlyOdd /\ WritesThePicture
  BY DEF Init, StrayOnlyOdd, WritesThePicture
<1> QED
  BY <1>1, <1>2, <1>3 DEF IInv

LEMMA StepInv == IInv /\ [Next]_vars => IInv'
<1> SUFFICES ASSUME IInv, [Next]_vars PROVE IInv'
  OBVIOUS
<1>1. CASE UNCHANGED vars
  <2>1. /\ impl' = impl /\ transformation' = transformation /\ width' = width /\ height' = height
        /\ output' = output /\ stray' = stray /\ success' = success /\ pc' = pc
        /\ written' = written /\ exit_status' = exit_status /\ i' = i /\ j' = j
        /\ regs' = regs /\ stack' = stack
    BY <1>1 DEF vars, image, drawing, machine
  <2>2. /\ OW' = OW /\ OH' = OH /\ half' = half /\ even' = even
        /\ (\A c, r : Right(c, r)' = Right(c, r))
        /\ (\A c, r : DrawnBefore(c, r)' = DrawnBefore(c, r))
    BY <2>1 DEF OW, OH, half, even, Right, out, DrawnBefore, Before, InQuarter
  <2>3. TypeOK'
    BY <2>1 DEF IInv, TypeOK
  <2>4. LoopInv'
    BY <2>1, <2>2 DEF IInv, LoopInv
  <2>5. PictureInv'
    BY <2>1, <2>2 DEF IInv, PictureInv
  <2>6. StackInv'
    BY <2>1 DEF IInv, StackInv, Saves
  <2>7. StrayOnlyOdd' /\ WritesThePicture'
    BY <2>1, <2>2 DEF IInv, StrayOnlyOdd, WritesThePicture
  <2> QED
    BY <2>3, <2>4, <2>5, <2>6, <2>7 DEF IInv
<1> QED
  BY <1>1, ReadInputStep, CreateOutputStep, UnknownTransformationStep, ApplyStep, EachPixelStep,
     TopLeftStep, TopLeftDoneStep, MirrorStep, WedgeStep, LoopsEndStep, ReturnStep, WriteOutputStep
     DEF Next

(* The invariant holds throughout.                                        *)
THEOREM Invariance == Spec => []IInv
<1>1. Init => IInv
  BY InitInv
<1>2. IInv /\ [Next]_vars => IInv'
  BY StepInv
<1> QED
  BY <1>1, <1>2, PTL DEF Spec

(* Every pixel of the output comes from the input and has one of the       *)
(* shades; the faded ones are multiplied by at most one and never by less  *)
(* than zero, whatever the size of the image.                              *)
THEOREM TypeCorrect == Spec => []TypeOK
<1>1. IInv => TypeOK
  BY DEF IInv
<1> QED
  BY <1>1, Invariance, PTL

(* The loops of either version stay inside the output image, but for the   *)
(* one place after the last pixel that the assembly kaleidoscope of an     *)
(* image of odd size writes.                                               *)
THEOREM StrayOnlyOddAlways == Spec => []StrayOnlyOdd
<1>1. IInv => StrayOnlyOdd
  BY DEF IInv
<1> QED
  BY <1>1, Invariance, PTL

(* For every size and with either version, what img_write() writes is the  *)
(* picture of Picture: imgproc.h's, but for a kaleidoscope of odd size,    *)
(* which is cut from the next even one as its test expects and symmetric   *)
(* only as far.  Status 0 means that all of the picture was drawn, not     *)
(* that all of the file was written.                                       *)
THEOREM WritesThePictureAlways == Spec => []WritesThePicture
<1>1. IInv => WritesThePicture
  BY DEF IInv
<1> QED
  BY <1>1, Invariance, PTL

(* Every epilogue of the assembly version pops as much as its prologue has *)
(* pushed, so that it returns to where it was called.                      *)
THEOREM ReturnsToCaller == Spec => [](pc # "lost")
<1>1. IInv => pc # "lost"
  BY DEF IInv, StackInv
<1> QED
  BY <1>1, Invariance, PTL
=============================================================================
