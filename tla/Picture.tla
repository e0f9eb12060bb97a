------------------------------ MODULE Picture ------------------------------
(***************************************************************************)
(* The pictures the transformations of csf_assign02 are to draw, pixel by  *)
(* pixel of the output and free of the loops that draw them: as imgproc.h  *)
(* describes them, but for the kaleidoscope of an image of odd size, which *)
(* is here as test_kaleidoscope_odd of imgproc_tests.c expects it.  A      *)
(* pixel of the output is the position of the input pixel it shows and     *)
(* what was done to it; an image is a function on 0 .. w*h - 1.            *)
(***************************************************************************)
EXTENDS Integers

(* Fixed-point brightness of position x out of max, in millionths.         *)
(* Mutant: the parabola is not centred.                                    *)
GradientOffCentre(x, max) == LET square == (2000 * x) \div max IN 1000000 - square * square
gradient(x, max) ==
  LET square == (2000 * x) \div max - 1000
  IN 1000000 - square * square

Full == 1000000

Transformation == {"rgb", "grayscale", "fade", "kaleidoscope"}

Pixel(from, as) == [from |-> from, as |-> as]

compute_index(width, col, row) == row * width + col

OutWidth(t, width) == IF t = "rgb" THEN 2 * width ELSE width
OutHeight(t, height) == IF t = "rgb" THEN 2 * height ELSE height

Drawable(t, width, height) == t \in Transformation /\ (t = "kaleidoscope" => width = height)

(* The colour an rgb quadrant keeps.                                       *)
Quadrant(right, below) ==
  IF right THEN IF below THEN "blue" ELSE "red" ELSE IF below THEN "green" ELSE "copy"

(* The kaleidoscope of an image of odd size is that of an image one wider  *)
(* and higher, of which the last column and row are cut off: what the code *)
(* draws and its test expects.  imgproc.h says that every kaleidoscope is  *)
(* symmetric across all four lines, which this one is not.                 *)
Padded(n) == IF n % 2 = 0 THEN n ELSE n + 1

Folded(n, x) ==
  LET mirrored == Padded(n) - 1 - x
  IN IF x < mirrored THEN x ELSE mirrored

PixelAt(t, width, height, col, row) ==
  CASE t = "rgb" -> Pixel(compute_index(width, col % width, row % height),
                          <<Quadrant(col >= width, row >= height)>>)
    [] t = "grayscale" -> Pixel(compute_index(width, col, row), <<"grey">>)
    [] t = "fade" -> Pixel(compute_index(width, col, row),
                           <<"faded", gradient(row, height), gradient(col, width)>>)
    [] t = "kaleidoscope" ->
         LET c == Folded(width, col)
             r == Folded(height, row)
         IN IF r <= c THEN Pixel(compute_index(width, c, r), <<"copy">>)
                      ELSE Pixel(compute_index(width, r, c), <<"copy">>)

(* Of size x size pixels of a picture of side n, mirrored across the       *)
(* two diagonals and the two lines in the middle of side n, those that     *)
(* fall into size x size show the same.  With n = size this is the picture *)
(* symmetric across all four lines.                                        *)
Symmetric(n, size, pixels) ==
  LET Side == 0 .. (size - 1)
  IN \A col, row \in Side :
       \A place \in {<<row, col>>, <<n - 1 - col, row>>, <<col, n - 1 - row>>,
                     <<n - 1 - row, n - 1 - col>>} \cap (Side \X Side) :
         pixels[compute_index(size, place[1], place[2])] = pixels[compute_index(size, col, row)]

Drawn(t, width, height) ==
  LET w == OutWidth(t, width)
  IN [k \in 0 .. (w * OutHeight(t, height) - 1) |->
        PixelAt(t, width, height, k % w, k \div w)]
=============================================================================
