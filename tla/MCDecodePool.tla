---------------------------- MODULE MCDecodePool ----------------------------
(* TLC instance of DecodePool. *)
EXTENDS DecodePool
=============================================================================
