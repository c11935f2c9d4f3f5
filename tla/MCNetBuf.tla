------------------------------ MODULE MCNetBuf ------------------------------
(***************************************************************************)
(* Model-checking instances of NetBuf.                                      *)
(***************************************************************************)
EXTENDS NetBuf
=============================================================================
