----------------------------- MODULE MCImgProc -----------------------------
(* Checks ImgProc on all images up to seven by seven pixels.               *)
EXTENDS ImgProc

MCSizes == 1 .. 7
=============================================================================
