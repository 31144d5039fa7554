------------------------- MODULE MCFluxGroupBarrier -------------------------
(***************************************************************************)
(* Three ranks construct a barrier and call it twice behind a collective   *)
(* of the caller; or two ranks call it once without one (NoSync), which is *)
(* enough for a flag to be raised before its owner zeroes the buffer.      *)
(* Two calls are enough for the kernels of two ranks to be one call apart, *)
(* three ranks for two of them to be apart from a third.                   *)
(***************************************************************************)
EXTENDS FluxGroupBarrier
=============================================================================
