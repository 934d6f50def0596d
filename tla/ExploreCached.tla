--------------------------- MODULE ExploreCached ---------------------------
(***************************************************************************)
(* The explore handlers (internal/api/explore.go) over the cache they have *)
(* (explore_cache.go): the mutex's critical sections, the entries that     *)
(* have expired and are still in the map, the goroutine that cleans it up, *)
(* and a Stop after which handlers that were cut off go on using it.       *)
(*                                                                         *)
(* Explore says what the page does with an ExpiringMap in the cache's      *)
(* place; it is shown to be implemented by this.                           *)
(***************************************************************************)
EXTENDS TTLCache

\* Keys are hashes of documents and Values are analyses, which stand for the
\* documents; the rest is Explore's.
CONSTANTS Bad, Items, ItemsOf, DetailOf, Views, Hash, Procs

VARIABLES pc, content, cut, answer, written, shown

pages == <<pc, content, cut, answer, written, shown>>
pageVars == <<vars, pages>>

Page == INSTANCE Explore
          WITH Hashes <- Keys, Contents <- Values, Nothing <- Miss, live <- LiveItems

PageInit ==
  /\ Init
  /\ pc = [p \in Procs |-> "idle"]
  /\ content = [p \in Procs |-> Miss]
  /\ cut = [p \in Procs |-> FALSE]
  /\ answer = Page!NoAnswer
  /\ written = [k \in Keys |-> -1]
  /\ shown = {}

-----------------------------------------------------------------------------
\* What an upload does without the cache.
Upload(p) == UNCHANGED vars /\ Page!Upload(p)
Parse(p) == UNCHANGED vars /\ Page!Parse(p)
Deadline(p) == UNCHANGED vars /\ Page!Deadline(p)

\* exploreCache.Get(hash).
Lookup(p) ==
  /\ pc[p] = "lookup"
  /\ Get(Page!Key(content[p]))
  /\ IF reply' = Miss
       THEN Page!Goto(p, "parse") /\ UNCHANGED <<answer, shown>>
       ELSE Page!Finish(p, Page!Analysed(Page!Key(content[p]), reply'))
  /\ UNCHANGED written

\* exploreCache.Set(hash, analysis).
Store(p) ==
  /\ pc[p] = "store"
  /\ Set(Page!Key(content[p]), content[p])
  /\ written' = [written EXCEPT ![Page!Key(content[p])] = now]
  /\ Page!Finish(p, Page!Analysed(Page!Key(content[p]), content[p]))

View(v, h, i) ==
  /\ IF Page!AsksCache(v, h, i) THEN Get(h) ELSE UNCHANGED vars
  /\ Page!RenderHTML(Page!ViewOf(v, h, i, IF Page!AsksCache(v, h, i) THEN reply' ELSE Miss))
  /\ UNCHANGED <<pc, content, cut, written>>

\* What the cache does on its own, and Handler.Stop.
Background == (Stop \/ LoopTick \/ LoopExit \/ Cleanup) /\ UNCHANGED pages

Pass == Advance /\ UNCHANGED pages

\* A new process has a new cache, with a cleanup goroutine of its own; its ticks
\* are counted on the same clock.
Restart ==
  /\ items' = [k \in {} |-> Miss] /\ reply' = Miss
  /\ stopped' = FALSE /\ tick' = FALSE /\ loop' = "select"
  /\ pc' = [p \in Procs |-> "idle"]
  /\ content' = [p \in Procs |-> Miss]
  /\ cut' = [p \in Procs |-> FALSE]
  /\ written' = [k \in Keys |-> -1]
  /\ UNCHANGED <<now, answer, shown>>

PageNext ==
  \/ \E p \in Procs : Upload(p) \/ Lookup(p) \/ Parse(p) \/ Store(p) \/ Deadline(p)
  \/ \E v \in Views, h \in Keys \cup {Miss} : \E i \in Page!Asked(v) : View(v, h, i)
  \/ Background \/ Pass \/ Restart

PageSpec == PageInit /\ [][PageNext]_pageVars

-----------------------------------------------------------------------------
\* To its clients the page is the one of Explore: that Get and Set find expired
\* entries, that an eviction may choose one, that a cleanup comes between any two
\* steps of an upload, and that Stop ends the cleanups, none of it is seen.
IsExplore == Page!Spec
=============================================================================
