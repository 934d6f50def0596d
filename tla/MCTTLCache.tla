----------------------------- MODULE MCTTLCache -----------------------------
(***************************************************************************)
(* TTLCache for TLC.  MCTTLCache.cfg takes three keys for two slots, so    *)
(* that an eviction chooses and a present key can be updated at capacity,  *)
(* two values, so that a stale one shows, and a lifetime of one ticker     *)
(* period and a clock of two and a half, so that expired entries wait for  *)
(* a cleanup beside live ones.                                             *)
(***************************************************************************)
EXTENDS TTLCache
=============================================================================
