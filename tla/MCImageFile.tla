---------------------------- MODULE MCImageFile ----------------------------
(* Bytes are 0 to 3 and a pixel has one sample and, in files with alpha,   *)
(* a second: small images with a first and a later row and column.          *)
EXTENDS ImageFile

MCShapes ==
  {<<2, 2, "PNG_TRUECOLOR", 8>>, <<1, 3, "PNG_TRUECOLOR", 8>>,
   <<2, 1, "PNG_TRUECOLOR_ALPHA", 8>>, <<1, 2, "PNG_TRUECOLOR_ALPHA", 8>>}
  \cup {<<1, 1, c, d>> : c \in ColorType, d \in {4, 16}}
  \cup {<<1, 1, c, 8>> : c \in {"PNG_GREYSCALE", "PNG_INDEXED", "undefined"}}
=============================================================================
