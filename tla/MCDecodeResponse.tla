--------------------------- MODULE MCDecodeResponse ---------------------------
(***************************************************************************)
(* Two cases of at most three, responses of up to four items: items past  *)
(* the cases, past the count and past the limit all occur.                 *)
(***************************************************************************)
EXTENDS DecodeResponse
=============================================================================
