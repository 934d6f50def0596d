------------------------ MODULE ExploreCachedProofs ------------------------
(***************************************************************************)
(* The explore handlers over the cache they have implement the handlers    *)
(* over the map the cache promises, for every number of uploads and every  *)
(* lifetime, capacity and ticker period: what ExploreProofs proves of      *)
(* Explore is true of them.                                                *)
(***************************************************************************)
EXTENDS ExploreCached, TTLCacheProofs

\* An upload under way has something to look up and to store.
Uploads ==
  /\ pc \in [Procs -> {"idle", "lookup", "parse", "store"}]
  /\ content \in [Procs -> Values \cup {Miss}]
  /\ \A p \in Procs : pc[p] # "idle" => content[p] \in Values

-----------------------------------------------------------------------------
\* The map of Explore is the one TTLCache is shown to implement.
LEMMA SameMap ==
  /\ Map!Init => Page!Cache!Init
  /\ \A k : Map!Read(k) => Page!Cache!Read(k)
  /\ \A k, v : Map!Write(k, v) => Page!Cache!Write(k, v)
  /\ Map!Pass => Page!Cache!Pass
<1>1. Map!Init => Page!Cache!Init
  BY DEF Map!Init, Page!Cache!Init
<1>2. ASSUME NEW k, Map!Read(k) PROVE Page!Cache!Read(k)
  BY <1>2 DEF Map!Read, Page!Cache!Read
<1>3. ASSUME NEW k, NEW v, Map!Write(k, v) PROVE Page!Cache!Write(k, v)
  <2>1. \A S : Map!Cardinality(S) = Page!Cache!Cardinality(S)
    BY DEF Map!Cardinality, Page!Cache!Cardinality
  <2>2. Map!Full <=> Page!Cache!Full
    BY <2>1 DEF Map!Full, Page!Cache!Full
  <2>3. \A j : Page!Cache!Without(LiveItems, j) = Map!Without(LiveItems, j)
    BY DEF Map!Without, Page!Cache!Without, Map!Restrict, Page!Cache!Restrict
  <2>4. \A m, e : Page!Cache!With(m, k, e) = Map!With(m, k, e)
    BY DEF Map!With, Page!Cache!With
  <2>5. Page!Cache!Displaced(k) = Map!Displaced(k)
    BY DEF Map!Displaced, Page!Cache!Displaced
  <2> QED
    BY <1>3, <2>2, <2>3, <2>4, <2>5 DEF Map!Write, Page!Cache!Write
<1>4. Map!Pass => Page!Cache!Pass
  BY DEF Map!Pass, Page!Cache!Pass, Map!Restrict, Page!Cache!Restrict
<1> QED
  BY <1>1, <1>2, <1>3, <1>4

\* What the cache does unseen leaves Explore's cache unchanged.
LEMMA SameVars == UNCHANGED Map!vars <=> UNCHANGED Page!cache
BY DEF Map!vars, Page!cache

-----------------------------------------------------------------------------
\* Each step of the page is one of the cache, none, or the start of a new one.
LEMMA CacheStep ==
  ASSUME Hash \in [Values -> Keys], Uploads, [PageNext]_pageVars
  PROVE  [Next]_vars \/ Restart
<1>1. ASSUME NEW p \in Procs, Lookup(p) PROVE Next
  <2>1. Page!Key(content[p]) \in Keys
    BY <1>1 DEF Lookup, Uploads, Page!Key
  <2> QED
    BY <1>1, <2>1 DEF Lookup, Next, CallGet
<1>2. ASSUME NEW p \in Procs, Store(p) PROVE Next
  <2>1. Page!Key(content[p]) \in Keys /\ content[p] \in Values
    BY <1>2 DEF Store, Uploads, Page!Key
  <2> QED
    BY <1>2, <2>1 DEF Store, Next, CallSet
<1>3. ASSUME NEW v \in Views, NEW h \in Keys \cup {Miss}, NEW i, View(v, h, i)
      PROVE  [Next]_vars
  BY <1>3 DEF View, Page!AsksCache, Next, CallGet
<1>4. ASSUME NEW p \in Procs, Upload(p) \/ Parse(p) \/ Deadline(p) PROVE UNCHANGED vars
  BY <1>4 DEF Upload, Parse, Deadline
<1>5. ASSUME Background \/ Pass PROVE Next
  BY <1>5 DEF Background, Pass, Next
<1>6. ASSUME UNCHANGED pageVars PROVE UNCHANGED vars
  BY <1>6 DEF pageVars
<1> QED
  BY <1>1, <1>2, <1>3, <1>4, <1>5, <1>6 DEF PageNext

\* The cache's invariant holds of every one that is used in turn.
LEMMA CacheKept ==
  ASSUME Hash \in [Values -> Keys], IInv, Uploads, [PageNext]_pageVars
  PROVE  IInv'
<1>1. CASE [Next]_vars
  BY <1>1, TypeKept, BoundedKept, AgeKept DEF IInv
<1>2. CASE Restart
  <2>1. DOMAIN items' = {} /\ now' = now
    BY <1>2 DEF Restart
  <2>2. TypeOK'
    BY <1>2, <2>1 DEF Restart, IInv, TypeOK
  <2>3. Bounded'
    BY <2>1, FewerKeysBounded DEF IInv
  <2>4. AgeIsExpiry'
    BY <2>1 DEF AgeIsExpiry
  <2> QED
    BY <2>2, <2>3, <2>4 DEF IInv
<1> QED
  BY <1>1, <1>2, CacheStep

LEMMA GotoKeeps ==
  ASSUME Uploads, NEW p \in Procs, pc[p] # "idle",
         NEW label \in {"idle", "lookup", "parse", "store"}, Page!Goto(p, label)
  PROVE  Uploads'
<1>1. CASE label = "idle"
  BY <1>1 DEF Uploads, Page!Goto
<1>2. CASE label # "idle"
  BY <1>2 DEF Uploads, Page!Goto
<1> QED
  BY <1>1, <1>2

LEMMA UploadsKept ==
  ASSUME Uploads, [PageNext]_pageVars
  PROVE  Uploads'
<1>1. ASSUME NEW p \in Procs, Upload(p) PROVE Uploads'
  BY <1>1 DEF Upload, Page!Upload, Uploads
<1>2. ASSUME NEW p \in Procs, Lookup(p) PROVE Uploads'
  <2>1. pc[p] # "idle" /\ (Page!Goto(p, "parse") \/ Page!Goto(p, "idle"))
    BY <1>2 DEF Lookup, Page!Finish
  <2> QED
    BY <2>1, GotoKeeps
<1>3. ASSUME NEW p \in Procs, Parse(p) PROVE Uploads'
  <2>1. pc[p] # "idle" /\ (Page!Goto(p, "store") \/ Page!Goto(p, "idle"))
    BY <1>3 DEF Parse, Page!Parse, Page!Finish
  <2> QED
    BY <2>1, GotoKeeps
<1>4. ASSUME NEW p \in Procs, Store(p) PROVE Uploads'
  <2>1. pc[p] # "idle" /\ Page!Goto(p, "idle")
    BY <1>4 DEF Store, Page!Finish
  <2> QED
    BY <2>1, GotoKeeps
<1>5. ASSUME NEW p \in Procs, Deadline(p) PROVE Uploads'
  BY <1>5 DEF Deadline, Page!Deadline, Uploads
<1>6. ASSUME NEW v, NEW h, NEW i, View(v, h, i) PROVE Uploads'
  BY <1>6 DEF View, Uploads
<1>7. ASSUME Background \/ Pass \/ UNCHANGED pageVars PROVE Uploads'
  BY <1>7 DEF Background, Pass, pageVars, pages, Uploads
<1>8. ASSUME Restart PROVE Uploads'
  BY <1>8 DEF Restart, Uploads
<1> QED
  BY <1>1, <1>2, <1>3, <1>4, <1>5, <1>6, <1>7, <1>8 DEF PageNext

-----------------------------------------------------------------------------
\* Each step of the page is one of Explore or none.
LEMMA PageStep ==
  ASSUME Hash \in [Values -> Keys], IInv, Uploads, [PageNext]_pageVars
  PROVE  [Page!Next]_Page!vars
<1>1. ASSUME NEW p \in Procs, Upload(p) \/ Parse(p) \/ Deadline(p) PROVE Page!Next
  BY <1>1 DEF Upload, Parse, Deadline, Page!Next
<1>2. ASSUME NEW p \in Procs, Lookup(p) PROVE Page!Next
  <2>1. Page!Cache!Read(Page!Key(content[p]))
    BY <1>2, GetIsRead, SameMap DEF Lookup
  <2>2. Page!Lookup(p)
    BY <1>2, <2>1 DEF Lookup, Page!Lookup
  <2> QED
    BY <2>2 DEF Page!Next
<1>3. ASSUME NEW p \in Procs, Store(p) PROVE Page!Next
  <2>1. Page!Key(content[p]) \in Keys /\ content[p] \in Values
    BY <1>3 DEF Store, Uploads, Page!Key
  <2>2. Page!Cache!Write(Page!Key(content[p]), content[p])
    BY <1>3, <2>1, SetIsWrite, SameMap DEF Store
  <2>3. Page!Store(p)
    BY <1>3, <2>2 DEF Store, Page!Store
  <2> QED
    BY <2>3 DEF Page!Next
<1>4. ASSUME NEW v \in Views, NEW h \in Keys \cup {Miss}, NEW i \in Page!Asked(v), View(v, h, i)
      PROVE  Page!Next
  <2>1. Page!AsksCache(v, h, i) => Page!Cache!Read(h)
    BY <1>4, GetIsRead, SameMap DEF View
  <2>2. ~Page!AsksCache(v, h, i) => UNCHANGED Page!cache
    BY <1>4, Unseen, SameVars DEF View, vars
  <2>3. Page!View(v, h, i)
    BY <1>4, <2>1, <2>2 DEF View, Page!View
  <2> QED
    BY <2>3 DEF Page!Next
<1>5. ASSUME Background \/ UNCHANGED pageVars PROVE UNCHANGED Page!vars
  <2>1. UNCHANGED Page!cache
    BY <1>5, Unseen, CleanupIsUnseen, SameVars
       DEF Background, Stop, LoopTick, LoopExit, pageVars, vars
  <2>2. UNCHANGED pages
    BY <1>5 DEF Background, pageVars
  <2> QED
    BY <2>1, <2>2 DEF pages, Page!vars
<1>6. ASSUME Pass PROVE Page!Next
  <2>1. Page!Cache!Pass
    BY <1>6, AdvanceIsPass, SameMap DEF Pass
  <2>2. Page!Pass
    BY <1>6, <2>1 DEF Pass, pages, Page!Pass
  <2> QED
    BY <2>2 DEF Page!Next
<1>7. ASSUME Restart PROVE Page!Next
  <2>1. LiveItems' = [k \in {} |-> Miss]
    BY <1>7 DEF Restart, LiveItems, LiveOf
  <2>2. Page!Restart
    BY <1>7, <2>1 DEF Restart, Page!Restart
  <2> QED
    BY <2>2 DEF Page!Next
<1> QED
  BY <1>1, <1>2, <1>3, <1>4, <1>5, <1>6, <1>7 DEF PageNext

\* The page over its cache implements Explore, restarts and Stop included: no
\* client can tell the cache of explore_cache.go from an expiring map.
THEOREM PageImplementsExplore ==
  ASSUME Hash \in [Values -> Keys]
  PROVE  PageSpec => IsExplore
<1>1. PageInit => IInv /\ Uploads
  <2> SUFFICES ASSUME PageInit PROVE IInv /\ Uploads
    OBVIOUS
  <2>1. Init
    BY DEF PageInit
  <2>2. AgeIsExpiry
    BY <2>1 DEF Init, AgeIsExpiry
  <2>3. Uploads
    BY DEF PageInit, Uploads
  <2> QED
    BY <2>1, <2>2, <2>3, TypeInit, BoundedInit DEF IInv
<1>2. PageInit => Page!Init
  <2> SUFFICES ASSUME PageInit PROVE Page!Init
    OBVIOUS
  <2>1. Page!Cache!Init
    BY MapInit, SameMap DEF PageInit
  <2> QED
    BY <2>1 DEF PageInit, Page!Init
<1>3. IInv /\ Uploads /\ [PageNext]_pageVars => (IInv /\ Uploads)'
  BY CacheKept, UploadsKept
<1>4. IInv /\ Uploads /\ [PageNext]_pageVars => [Page!Next]_Page!vars
  BY PageStep
<1> QED
  BY <1>1, <1>2, <1>3, <1>4, PTL DEF PageSpec, IsExplore, Page!Spec
=============================================================================
