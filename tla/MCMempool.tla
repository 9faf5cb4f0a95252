----------------------------- MODULE MCMempool -----------------------------
(***************************************************************************)
(* Slabs of four objects of three bytes, a header of two bytes and a byte  *)
(* left over; a slab is hot from two free objects on.                      *)
(***************************************************************************)
EXTENDS Mempool

MCSlabs == {16, 32, 48}
=============================================================================
