--------------------------- MODULE MCFrameReader ---------------------------
(***************************************************************************)
(* Instances of FrameReader for TLC: one frame with a two-byte length and  *)
(* a payload longer than the mask, and a short one, over an array smaller  *)
(* than either.                                                            *)
(***************************************************************************)
EXTENDS FrameReader

FrameSizes == <<3, 1>>

Tags == (1..2) \X {"op", "len", "ext", "mask", "data"} \X (0..2)
=============================================================================
