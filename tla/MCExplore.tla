----------------------------- MODULE MCExplore -----------------------------
(***************************************************************************)
(* Explore for TLC.  Three contents that parse for a cache of two, one of  *)
(* them with items the others lack, and one that does not parse.  One view *)
(* of each shape: a tab, a list, and the details that look for the item's  *)
(* name before or after the cache.                                         *)
(***************************************************************************)
EXTENDS Explore, TLC

CONSTANTS c1, c2, c3, bad, operation, schema, h1, h2, h3, h4

MCItemsOf == (c1 :> {operation, schema}) @@ (c2 :> {}) @@ (c3 :> {}) @@ (bad :> {})
MCDetailOf ==
  (operation :> API!ExploreOperationDetail) @@ (schema :> API!ExploreSchemaDetail)
MCViews ==
  {API!ExploreOperations, API!ExploreUnsecured, API!ExploreOperationDetail,
   API!ExploreSchemaDetail}
MCHash == (c1 :> h1) @@ (c2 :> h2) @@ (c3 :> h3) @@ (bad :> h4)

\* Uploads are alike, and so are the second content and the third; the run checks
\* invariants only, for which this is sound.
Same == [x \in {c2, c3, h2, h3} |-> x]
Swap == (c2 :> c3) @@ (c3 :> c2) @@ (h2 :> h3) @@ (h3 :> h2)
Alike == {p @@ q : p \in Permutations(Procs), q \in {Same, Swap}}

\* What the last Get returned is read in the step of the Get only.  No step reads
\* the answer, and what is shown grows only with a new answer: of an answer that
\* is right, the status is enough to tell states apart.
Right == TypeOK /\ AnswersMatch /\ ViewsAgree /\ ViewsAreDeclared
Seen == <<now, live, pc, content, cut, written, shown, answer.status, Right>>
=============================================================================
