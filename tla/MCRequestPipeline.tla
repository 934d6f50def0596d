------------------------- MODULE MCRequestPipeline -------------------------
(***************************************************************************)
(* RequestPipeline for TLC: two requests for one slot.  Requests meet only *)
(* at sem, and two are enough for one to find the slot taken, to take it   *)
(* while the other's handler runs on, and to find it free again.  Metrics  *)
(* is in the chain: without it the chain is the same with three labels     *)
(* less.                                                                   *)
(***************************************************************************)
EXTENDS RequestPipeline

\* A file, an operation, a route below it that does not enrich, and no route.
MCPaths == {<<"static", "style.css">>, <<"api", "explore">>,
            <<"api", "explore", "schemas">>, <<"api", "nonsense">>}
=============================================================================
