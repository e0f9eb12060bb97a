------------------------------ MODULE ImgProc ------------------------------
(***************************************************************************)
(* The image program of csf_assign02, from reading the input to the exit   *)
(* status.  It is linked with the C or with the assembly version of the    *)
(* transformations; the assembly one has its own loops and saves the       *)
(* registers of its caller by hand.                                        *)
(***************************************************************************)
EXTENDS Picture, SequencesExt

CONSTANT Sizes   \* widths and heights of the input

ASSUME SizesAssumption == Sizes \subseteq Nat \ {0}

VARIABLES
  impl,            \* "c" or "asm", what the program was linked with
  transformation,  \* argv[1]
  width, height,   \* of the input
  pc, i, j,        \* where the program is; row and column of its loops
  output,          \* the pixels of the output image
  stray,           \* indices outside of the output that were written
  success,
  written,         \* the output file is complete
  exit_status,     \* -1 while the program runs
  regs,            \* whose value a register holds
  stack            \* top first

image == <<impl, transformation, width, height>>
drawing == <<i, j, output, stray>>
machine == <<regs, stack>>
vars == <<image, drawing, machine, pc, success, written, exit_status>>

-----------------------------------------------------------------------------
(* Registers.  A value is the name of the register of the caller it came   *)
(* from, "scratch", or "return", the address the call came from.           *)
CalleeSaved == {"rbx", "rbp", "r12", "r13", "r14", "r15"}
Register == CalleeSaved \cup {"r10", "r11"}
Local == "local"   \* eight bytes of the stack that nothing is popped from

(* What the prologues push, first push first, what the bodies overwrite    *)
(* and what the epilogues pop, first pop first.  The kaleidoscope has an   *)
(* epilogue for even sizes, one for odd sizes and one for images it        *)
(* refuses before most registers are used.  Pairs of push and pop inside   *)
(* the bodies are balanced and left out.                                   *)
SavesRgb == <<"rbx", "rbp", "r12", "r13", "r14", "r15">>
OverwritesRgb == CalleeSaved \cup {"r10"}
RestoresRgb == <<"r15", "r14", "r13", "r12", "rbp", "rbx">>

SavesGrayscale == <<"rbx", "rbp", "r12", "r13", "r14">>
OverwritesGrayscale == {"rbx", "rbp", "r12", "r13", "r14", "r10"}
RestoresGrayscale == <<"r14", "r13", "r12", "rbp", "rbx">>

SavesFade == <<"rbp", Local>>
OverwritesFade == {"rbp", "r12", "r13", "r14", "r15", "r10", "r11"}
RestoresFadeOnly == <<"rbp">>   \* Mutant: the local stays on the stack
RestoresFade == <<Local, "rbp">>

FourLocals == <<Local, Local, Local, Local>>
SavesKaleidoscope == <<"rbp", "r12", "r13">> \o FourLocals \o <<"r14", "r10", "r11", "r15">>
OverwritesKaleidoscope == Register \ {"rbx"}
OverwritesRefused == {"rbp", "r12", "r10", "r11"}
RestoresEven == <<"r11", "r10", "r15", "r14", "r13", "r12">> \o FourLocals \o <<"rbp">>
RestoresOdd == <<"r11", "r12", "r10", "r15", "r13", "r14">> \o FourLocals \o <<"rbp">>
RestoresRefused == <<"r11", "r15", "r10", "r13", "r12", "r14">> \o FourLocals \o <<"rbp">>

even == width % 2 = 0

Saves(t) ==
  CASE t = "rgb" -> SavesRgb [] t = "grayscale" -> SavesGrayscale
    [] t = "fade" -> SavesFade [] t = "kaleidoscope" -> SavesKaleidoscope

Overwrites(t, drawn) ==
  CASE t = "rgb" -> OverwritesRgb [] t = "grayscale" -> OverwritesGrayscale
    [] t = "fade" -> OverwritesFade
    [] t = "kaleidoscope" -> IF drawn THEN OverwritesKaleidoscope ELSE OverwritesRefused

Restores(t, drawn) ==
  CASE t = "rgb" -> RestoresRgb [] t = "grayscale" -> RestoresGrayscale
    [] t = "fade" -> RestoresFade
    [] t = "kaleidoscope" /\ ~drawn -> RestoresRefused
    [] t = "kaleidoscope" /\ drawn /\ even -> RestoresEven
    [] t = "kaleidoscope" /\ drawn /\ ~even -> RestoresOdd

Pushed(saves, below) ==
  [k \in 1 .. Len(saves) |->
     LET r == saves[Len(saves) + 1 - k] IN IF r = Local THEN "scratch" ELSE regs[r]] \o below

Popped(restores) ==
  [r \in Register |->
     IF \E k \in DOMAIN restores : restores[k] = r
     THEN stack[Max({ k \in DOMAIN restores : restores[k] = r })]
     ELSE regs[r]]

-----------------------------------------------------------------------------
Black == Pixel(-1, <<"black">>)

Init ==
  /\ impl \in {"c", "asm"}
  /\ transformation \in Transformation \cup {"other"}
  /\ width \in Sizes /\ height \in Sizes
  /\ pc = "read" /\ i = 0 /\ j = 0
  /\ output = <<>> /\ stray = {}
  /\ success = FALSE /\ written = FALSE /\ exit_status = -1
  /\ regs = [r \in Register |-> r]
  /\ stack = <<>>

Exit(status) == pc' = "exit" /\ exit_status' = status

(* img_read() may fail, and so may the allocation before it; img_read()    *)
(* itself does not survive a buffer it could not allocate.                 *)
ReadInput ==
  /\ pc = "read"
  /\ \/ pc' = "create" /\ UNCHANGED exit_status
     \/ Exit(1)
     \/ pc' = "killed" /\ UNCHANGED exit_status
  /\ UNCHANGED <<image, drawing, machine, success, written>>

CreateOutput ==
  /\ pc = "create"
  /\ \/ /\ output' = [k \in 0 .. (OutWidth(transformation, width) *
                                  OutHeight(transformation, height) - 1) |-> Black]
        /\ pc' = "find" /\ UNCHANGED exit_status
     \/ Exit(1) /\ UNCHANGED output
  /\ UNCHANGED <<image, i, j, stray, machine, success, written>>

UnknownTransformation ==
  /\ pc = "find"
  /\ transformation \notin Transformation
  /\ Exit(1)
  /\ UNCHANGED <<image, drawing, machine, success, written>>

(* apply_kaleidoscope() passes on the refusal of an image that is not a    *)
(* square; the other three return 1.                                       *)
applied == transformation = "kaleidoscope" => Drawable(transformation, width, height)

(* xform->apply() calls the transformation.                                *)
Apply ==
  /\ pc = "find"
  /\ transformation \in Transformation
  /\ success' = applied
  /\ IF impl = "c"
     THEN stack' = <<"return">> /\ UNCHANGED regs
     ELSE /\ stack' = Pushed(Saves(transformation), <<"return">>)
          /\ regs' = [r \in Register |->
                        IF r \in Overwrites(transformation, success') THEN "scratch" ELSE regs[r]]
  /\ pc' = CASE ~success' -> "return"
             [] success' /\ transformation # "kaleidoscope" -> "pixels"
             [] success' /\ transformation = "kaleidoscope" /\ impl = "c" -> "top_left"
             [] success' /\ transformation = "kaleidoscope" /\ impl = "asm" -> "wedge"
  /\ i' = 0 /\ j' = 0
  /\ UNCHANGED <<image, output, stray, written, exit_status>>

-----------------------------------------------------------------------------
(* One iteration of two nested loops: what it writes, and where it goes.   *)
Write(pixels) ==
  /\ output' = [k \in DOMAIN output |-> IF k \in DOMAIN pixels THEN pixels[k] ELSE output[k]]
  /\ stray' = stray \cup (DOMAIN pixels \ DOMAIN output)

NextColumn(cols, from_diagonal) ==
  IF j + 1 < cols THEN j' = j + 1 /\ UNCHANGED i
  ELSE i' = i + 1 /\ j' = IF from_diagonal THEN i + 1 ELSE 0

Iterates == UNCHANGED <<image, machine, pc, success, written, exit_status>>

out(col, row) == compute_index(OutWidth(transformation, width), col, row)
in(col, row) == compute_index(width, col, row)

(* The loop bodies of rgb, grayscale and fade: the loops of the assembly   *)
(* version visit the same pixels in the same order and write the same.     *)
(* Mutant: the blue copy replaces the green one.                           *)
RgbPixelsBlueBelow(p) ==
  [k \in {out(j, i), out(width + j, i), out(j, height + i)} |->
     CASE k = out(j, i) -> Pixel(p, <<"copy">>)
       [] k = out(width + j, i) -> Pixel(p, <<"red">>)
       [] k = out(j, height + i) -> Pixel(p, <<"blue">>)]
RgbPixels(p) ==
  [k \in {out(j, i), out(width + j, i), out(j, height + i), out(width + j, height + i)} |->
     CASE k = out(j, i) -> Pixel(p, <<"copy">>)
       [] k = out(width + j, i) -> Pixel(p, <<"red">>)
       [] k = out(j, height + i) -> Pixel(p, <<"green">>)
       [] k = out(width + j, height + i) -> Pixel(p, <<"blue">>)]
GrayscalePixel(p) == [k \in {p} |-> Pixel(p, <<"grey">>)]
FadedPixel(p) == [k \in {p} |-> Pixel(p, <<"faded", gradient(i, height), gradient(j, width)>>)]

EachPixel ==
  /\ pc = "pixels" /\ i < height
  /\ LET p == in(j, i)
     IN \/ transformation = "rgb" /\ Write(RgbPixels(p))
        \/ transformation = "grayscale" /\ Write(GrayscalePixel(p))
        \/ transformation = "fade" /\ Write(FadedPixel(p))
  /\ NextColumn(width, FALSE)
  /\ Iterates

half == Padded(width) \div 2
last == Padded(width) - 1

(* imgproc_kaleidoscope() in C draws the top left quarter ...              *)
TopLeft ==
  /\ pc = "top_left" /\ i < half
  /\ Write([k \in {out(j, i), out(i, j)} |-> Pixel(in(j, i), <<"copy">>)])
  /\ NextColumn(half, TRUE)
  /\ Iterates

TopLeftDone ==
  /\ pc = "top_left" /\ i = half
  /\ pc' = "mirror" /\ i' = 0 /\ j' = 0
  /\ UNCHANGED <<image, output, stray, machine, success, written, exit_status>>

(* ... and mirrors it.  Mutant: the first column of an image of odd width  *)
(* is mirrored as well.                                                    *)
MirrorsAlways ==
  {out(last - j, i), out(j, last - i), out(last - j, last - i)}
Mirrors ==
  (IF even \/ j > 0 THEN {out(last - j, i)} ELSE {})
  \cup (IF even \/ i > 0 THEN {out(j, last - i)} ELSE {})
  \cup (IF even \/ (i > 0 /\ j > 0) THEN {out(last - j, last - i)} ELSE {})

Mirror ==
  /\ pc = "mirror" /\ i < half
  /\ Write([k \in Mirrors |-> output[out(j, i)]])
  /\ NextColumn(half, FALSE)
  /\ Iterates

(* The assembly version reads each pixel of wedge A once and writes it to  *)
(* all wedges; in row 0 of an image of odd size it leaves out the wedges   *)
(* below and to the right, whatever the column.                            *)
EightWedges(s) ==
  {out(j, i), out(i, j), out(s - j, i), out(s - i, j),
   out(j, s - i), out(i, s - j), out(s - j, s - i), out(s - i, s - j)}
EvenWedges == EightWedges(width - 1)
OddWedges == EightWedges(width)
OddFirstRow == {out(j, i), out(i, j), out(width - j, i), out(i, width - j)}

Wedges == IF even THEN EvenWedges ELSE IF i > 0 THEN OddWedges ELSE OddFirstRow

Wedge ==
  /\ pc = "wedge" /\ i < half
  /\ Write([k \in Wedges |-> Pixel(in(j, i), <<"copy">>)])
  /\ NextColumn(half, TRUE)
  /\ Iterates

LoopsEnd ==
  /\ \/ pc = "pixels" /\ i = height
     \/ pc \in {"mirror", "wedge"} /\ i = half
  /\ pc' = "return"
  /\ UNCHANGED <<image, drawing, machine, success, written, exit_status>>

(* The epilogue and the return instruction, which jumps to whatever is on  *)
(* top of the stack.                                                       *)
Return ==
  /\ pc = "return"
  /\ LET restores == IF impl = "c" THEN <<>> ELSE Restores(transformation, success)
     IN /\ regs' = Popped(restores)
        /\ stack' = SubSeq(stack, Len(restores) + 2, Len(stack))
        /\ pc' = IF stack[Len(restores) + 1] = "return" THEN "write" ELSE "lost"
  /\ UNCHANGED <<image, drawing, success, written, exit_status>>

(* img_write() fails, succeeds, or says that it did: it does not notice    *)
(* when the file cannot be written to its end.                             *)
WriteOutput ==
  /\ pc = "write"
  /\ \/ success /\ written' \in BOOLEAN /\ Exit(0)
     \/ Exit(1) /\ UNCHANGED written
     \/ success /\ pc' = "killed" /\ UNCHANGED <<written, exit_status>>
  /\ UNCHANGED <<image, drawing, machine, success>>

Next ==
  \/ ReadInput \/ CreateOutput \/ UnknownTransformation \/ Apply
  \/ EachPixel \/ TopLeft \/ TopLeftDone \/ Mirror \/ Wedge \/ LoopsEnd
  \/ Return \/ WriteOutput

Spec == Init /\ [][Next]_vars

(* One sequential process, which the system schedules.                     *)
FairSpec == Spec /\ WF_vars(Next)

-----------------------------------------------------------------------------
Shade ==
  {<<"black">>, <<"copy">>, <<"red">>, <<"green">>, <<"blue">>, <<"grey">>}
  \cup ({"faded"} \X (0 .. Full) \X (0 .. Full))

(* Every pixel comes from the input or is the black (from = -1) a new      *)
(* output image is filled with; a fade multiplies by at most one and never *)
(* by less than zero, so that neither the clamp of the C version nor the   *)
(* unsigned division of the assembly version matters.                      *)
TypeOK ==
  /\ impl \in {"c", "asm"}
  /\ transformation \in Transformation \cup {"other"}
  /\ width \in Sizes /\ height \in Sizes
  /\ pc \in {"read", "create", "find", "pixels", "top_left", "mirror", "wedge",
             "return", "write", "lost", "killed", "exit"}
  /\ i \in Nat /\ j \in Nat
  /\ \A k \in DOMAIN output :
       output[k].from \in -1 .. (width * height - 1) /\ output[k].as \in Shade
  /\ stray \subseteq Int
  /\ success \in BOOLEAN /\ written \in BOOLEAN
  /\ exit_status \in {-1, 0, 1}
  /\ regs \in [Register -> Register \cup {"scratch", "return"}]
  /\ stack \in Seq(Register \cup {"scratch", "return"})

(* What img_write() writes is the picture of Picture, with either version  *)
(* of the transformations: the one imgproc.h describes, but for a          *)
(* kaleidoscope of odd size, where it is the one test_kaleidoscope_odd of  *)
(* imgproc_tests.c expects.  A kaleidoscope is symmetric across all four   *)
(* lines if its size is even; if it is odd, only as far as the one of the  *)
(* next even size it is cut from.  The program returns 0 after every       *)
(* complete file, and never for a transformation that was refused or for a *)
(* picture that is not whole; the file itself may be incomplete at status  *)
(* 0, since img_write() looks at the result of no write.                   *)
WritesThePicture ==
  /\ written \/ exit_status = 0 =>
       /\ Drawable(transformation, width, height)
       /\ output = Drawn(transformation, width, height)
       /\ transformation = "kaleidoscope" => Symmetric(Padded(width), width, output)
  /\ pc = "exit" /\ written => exit_status = 0

(* The loops stay inside the output image, but for one place: the assembly *)
(* kaleidoscope of an image of odd size writes the pixel after the last.   *)
StrayOnlyOdd ==
  stray # {} =>
    /\ impl = "asm" /\ transformation = "kaleidoscope" /\ ~even
    /\ stray = {width * height}

(* The program ends: the loops do, and every epilogue leaves the return    *)
(* address on top of the stack.                                            *)
ProgramEnds == <>(pc \in {"killed", "exit"})

(* A transformation returns with the registers its caller relies on.       *)
CallerKeepsRegisters ==
  pc \in {"write", "exit"} => \A r \in CalleeSaved : regs[r] = r
=============================================================================
