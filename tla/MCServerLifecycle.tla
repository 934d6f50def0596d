------------------------- MODULE MCServerLifecycle -------------------------
(* Two requests: one may end before the server closes and one during it.   *)
(* A setting of each sort.                                                 *)
EXTENDS ServerLifecycle

MCSettings == {-1, 0, 2, NoNumber}
=============================================================================
