------------------------------ MODULE Explore ------------------------------
(***************************************************************************)
(* The explore page's handlers (internal/api/explore.go) over the cache of *)
(* analyses.  An upload is a goroutine of several steps: it looks for the  *)
(* content's analysis, makes it when there is none, stores it, answers.    *)
(* The views ask for an analysis by hash: the tabs (operations, schemas,   *)
(* security), the other lists (inline schemas, unsecured operations,       *)
(* summary), and the details of one item.  Between the steps of one        *)
(* upload others come, entries expire and are evicted, the request can be  *)
(* cut off by its deadline, and the process can be restarted.              *)
(*                                                                         *)
(* The cache is ExpiringMap, which TTLCache implements (TTLCacheProofs).   *)
(* An analysis is made of the content, which stands for it, but for the    *)
(* file name of the upload that stored it, which is left out; its items    *)
(* are the operations, schemas and security schemes it lists.              *)
(***************************************************************************)
EXTENDS Integers, FiniteSets, Functions

CONSTANTS
  Contents,   \* what can be uploaded
  Bad,        \* the contents that do not parse, or cannot be walked
  Items,      \* operations, schemas and security schemes
  ItemsOf,    \* the items of a content's analysis
  DetailOf,   \* the view that shows an item
  Views,      \* the views that are asked for
  Hashes,     \* values of h, some of them of no content
  Hash,       \* computeHash
  Procs,      \* goroutines of uploads
  TTL, MaxEntries,  \* the cache's: 5 minutes and 100
  MaxTime,    \* bound: the last instant of the clock
  Nothing     \* no analysis, no item, no hash

API == INSTANCE Routes

ASSUME ExploreAssumption ==
  /\ IsFiniteSet(Hashes)
  /\ Bad \subseteq Contents /\ Nothing \notin Contents \cup Items \cup Hashes
  /\ ItemsOf \in [Contents -> SUBSET Items] /\ DetailOf \in [Items -> API!Details]
  /\ Views \subseteq API!Tabs \cup API!Lists \cup API!Details /\ Nothing \notin Views
  /\ Hash \in [Contents -> Hashes]
  /\ TTL \in Nat /\ MaxEntries \in Nat \ {0} /\ MaxTime \in Nat

\* computeHash keeps 64 bits of a SHA-256: different contents differ in them.
ASSUME HashSeparates == \A c, d \in Contents : Hash[c] = Hash[d] => c = d

VARIABLES
  now, live, reply,  \* the cache
  pc,       \* where each upload is
  content,  \* what it uploads
  cut,      \* its client was answered by the deadline and it runs on
  answer,   \* the last answer a client got
  written,  \* history: when an analysis was last stored for a hash, or -1
  shown     \* history: the items that were listed, with the hash asked for

cache == <<now, live, reply>>
vars == <<cache, pc, content, cut, answer, written, shown>>

Cache == INSTANCE ExpiringMap WITH Keys <- Hashes, Values <- Contents, Miss <- Nothing

Answer == [view : Views \cup {Nothing}, status : {200, 400, 404, 410, 500, 503},
           hash : Hashes \cup {Nothing},
           item : Items \cup {Nothing}, of : Contents \cup {Nothing}]

CacheOK ==
  /\ now \in 0..MaxTime /\ reply \in Contents \cup {Nothing}
  /\ DOMAIN live \subseteq Hashes /\ live \in [DOMAIN live -> [value : Contents, until : Nat]]
  /\ written \in [Hashes -> -1..MaxTime]

UploadsOK ==
  /\ pc \in [Procs -> {"idle", "lookup", "parse", "store"}]
  /\ content \in [Procs -> Contents \cup {Nothing}]
  /\ \A p \in Procs : pc[p] = "idle" <=> content[p] = Nothing
  /\ cut \in [Procs -> BOOLEAN]

TypeOK ==
  CacheOK /\ UploadsOK /\ answer \in Answer /\ shown \subseteq Hashes \X Items

NoAnswer == [view |-> Nothing, status |-> 400, hash |-> Nothing, item |-> Nothing, of |-> Nothing]

\* An upload is answered with its hash and the analysis under it.
Analysed(h, c) == [NoAnswer EXCEPT !.status = 200, !.hash = h, !.of = c]

Init ==
  /\ Cache!Init
  /\ pc = [p \in Procs |-> "idle"]
  /\ content = [p \in Procs |-> Nothing]
  /\ cut = [p \in Procs |-> FALSE]
  /\ answer = NoAnswer
  /\ written = [h \in Hashes |-> -1]
  /\ shown = {}

-----------------------------------------------------------------------------
\* A client is given an answer; those of uploads and tabs list the items.
Respond(a) ==
  /\ answer' = a
  /\ shown' = IF a.status = 200 /\ a.view \in {Nothing} \cup API!Tabs
                THEN shown \cup ({a.hash} \X ItemsOf[a.of]) ELSE shown

Goto(p, label) ==
  /\ pc' = [pc EXCEPT ![p] = label]
  /\ content' = IF label = "idle" THEN [content EXCEPT ![p] = Nothing] ELSE content
  /\ cut' = IF label = "idle" THEN [cut EXCEPT ![p] = FALSE] ELSE cut

\* renderHTML: a page whose template fails is a 500 in its place.
RenderHTML(a) ==
  \/ Respond(a)
  \/ a.status = 200 /\ Respond([a EXCEPT !.status = 500])

\* An upload ends.  What it writes is dropped if its client was cut off.
Finish(p, a) ==
  /\ Goto(p, "idle")
  /\ IF cut[p] THEN UNCHANGED <<answer, shown>> ELSE RenderHTML(a)

\* Mutant: the hash of a reader that was read to its end before.
MutKey(c) == CHOOSE h \in Hashes : TRUE

Key(c) == Hash[c]

\* The body, the file or the URL is read; readInput's errors are 400s (and 413).
Upload(p) ==
  /\ pc[p] = "idle"
  /\ \/ \E c \in Contents :
          /\ content' = [content EXCEPT ![p] = c]
          /\ pc' = [pc EXCEPT ![p] = "lookup"]
          /\ UNCHANGED <<cut, answer, shown>>
     \/ Respond(NoAnswer) /\ UNCHANGED <<pc, content, cut>>
  /\ UNCHANGED <<cache, written>>

\* exploreCache.Get(hash): a hit is answered, and does not renew the entry.
Lookup(p) ==
  /\ pc[p] = "lookup"
  /\ Cache!Read(Key(content[p]))
  /\ IF reply' = Nothing
       THEN Goto(p, "parse") /\ UNCHANGED <<answer, shown>>
       ELSE Finish(p, Analysed(Key(content[p]), reply'))
  /\ UNCHANGED written

\* Mutant: an error of the walker is logged and the analysis kept.
MutParse(p) ==
  /\ pc[p] = "parse"
  /\ Goto(p, "store") /\ UNCHANGED <<answer, shown>>
  /\ UNCHANGED <<cache, written>>

\* The parser and the walkers: an error of any of them is a 400.
Parse(p) ==
  /\ pc[p] = "parse"
  /\ IF content[p] \in Bad
       THEN Finish(p, NoAnswer)
       ELSE Goto(p, "store") /\ UNCHANGED <<answer, shown>>
  /\ UNCHANGED <<cache, written>>

\* exploreCache.Set(hash, analysis) and the answer.  Another upload of the same
\* content may have stored its analysis meanwhile; this one replaces it.
Store(p) ==
  /\ pc[p] = "store"
  /\ Cache!Write(Key(content[p]), content[p])
  /\ written' = [written EXCEPT ![Key(content[p])] = now]
  /\ Finish(p, Analysed(Key(content[p]), content[p]))

\* http.TimeoutHandler answers 503 and leaves the handler running.
Deadline(p) ==
  /\ pc[p] # "idle" /\ ~cut[p]
  /\ cut' = [cut EXCEPT ![p] = TRUE]
  /\ Respond([NoAnswer EXCEPT !.status = 503])
  /\ UNCHANGED <<cache, pc, content, written>>

-----------------------------------------------------------------------------
Named == {API!ExploreSchemaDetail, API!ExploreSecurityDetail}

\* The items a view can be asked for.
Asked(v) == (IF v \in API!Details THEN Items ELSE {}) \cup {Nothing}

\* exploreCache.Get is called once the hash is there and, for a schema or a
\* security scheme, the name.
AsksCache(v, h, i) == h # Nothing /\ (v \in Named => i # Nothing)

Finds(v, i, of) == i \in ItemsOf[of] /\ DetailOf[i] = v

\* Mutant: a parameter that is missing is unprocessable.
MutStatusUnprocessable(v, h, i, of) ==
  IF ~AsksCache(v, h, i) THEN 422
  ELSE IF of = Nothing THEN 410
  ELSE IF v \in API!Details /\ i = Nothing THEN 400
  ELSE IF v \in API!Details /\ ~Finds(v, i, of) THEN 404
  ELSE 200

\* Mutant: an analysis that has expired is not found.
MutStatusExpired(v, h, i, of) ==
  IF ~AsksCache(v, h, i) THEN 400
  ELSE IF of = Nothing THEN 404
  ELSE IF v \in API!Details /\ i = Nothing THEN 400
  ELSE IF v \in API!Details /\ ~Finds(v, i, of) THEN 404
  ELSE 200

\* The status of a view, by what the handler looks at first: a parameter that is
\* missing, an analysis that is gone, the path or method of an operation that is
\* missing, an item that is not in the analysis.  200 is left to renderHTML.
StatusOf(v, h, i, of) ==
  IF ~AsksCache(v, h, i) THEN 400
  ELSE IF of = Nothing THEN 410
  ELSE IF v \in API!Details /\ i = Nothing THEN 400
  ELSE IF v \in API!Details /\ ~Finds(v, i, of) THEN 404
  ELSE 200

ViewOf(v, h, i, of) ==
  [view |-> v, status |-> StatusOf(v, h, i, of), hash |-> h, item |-> i, of |-> of]

\* Mutant: an analysis is dropped when a view has been served from it.
MutView(v, h, i) ==
  /\ h \in DOMAIN live
  /\ Cache!Remove(h)
  /\ RenderHTML(ViewOf(v, h, i, live[h].value))
  /\ UNCHANGED <<pc, content, cut, written>>

View(v, h, i) ==
  /\ IF AsksCache(v, h, i) THEN Cache!Read(h) ELSE UNCHANGED cache
  /\ RenderHTML(ViewOf(v, h, i, IF AsksCache(v, h, i) THEN reply' ELSE Nothing))
  /\ UNCHANGED <<pc, content, cut, written>>

\* The process is replaced: the cache and the goroutines are gone.
Restart ==
  /\ live' = [h \in {} |-> Nothing] /\ reply' = Nothing
  /\ pc' = [p \in Procs |-> "idle"]
  /\ content' = [p \in Procs |-> Nothing]
  /\ cut' = [p \in Procs |-> FALSE]
  /\ written' = [h \in Hashes |-> -1]
  /\ UNCHANGED <<now, answer, shown>>

Pass == Cache!Pass /\ UNCHANGED <<pc, content, cut, answer, written, shown>>

Next ==
  \/ \E p \in Procs : Upload(p) \/ Lookup(p) \/ Parse(p) \/ Store(p) \/ Deadline(p)
  \/ \E v \in Views, h \in Hashes \cup {Nothing} : \E i \in Asked(v) : View(v, h, i)
  \/ Restart \/ Pass

Spec == Init /\ [][Next]_vars

-----------------------------------------------------------------------------
\* A client that gets an analysis, or a 500 for the page of one, gets the one of
\* the content with the hash it asked for (or uploaded), of a content that parsed,
\* and the item it asked for: a template is given nothing else.
AnswersMatch ==
  answer.status \in {200, 500} =>
    /\ answer.of \in Contents \ Bad
    /\ Hash[answer.of] = answer.hash
    /\ answer.item # Nothing =>
         answer.item \in ItemsOf[answer.of] /\ answer.view = DetailOf[answer.item]

\* The views agree: an item that one of them lists under a hash is never not
\* found under that hash by another, not after the entry was evicted, uploaded
\* again by someone else, or the process restarted.
ViewsAgree ==
  answer.status = 404 /\ answer.item # Nothing /\ <<answer.hash, answer.item>> \in shown =>
    answer.view # DetailOf[answer.item]

\* A view answers with the statuses its OpenAPI description declares (routes.go),
\* in whatever order its parameters, the cache and the item fail it, but for two
\* that are not declared: the 500 of a template that fails, which every view can
\* end in, and the tabs' 400 and 410 in place of the 404 they declare.
ViewsAreDeclared ==
  answer.view # Nothing =>
    \/ answer.status \in answer.view.answers \cup {500}
    \/ answer.view \in API!Tabs /\ answer.status \in {400, 410}

\* An analysis is there for the 5 minutes after it was stored, to answer a view
\* and not 410, unless as many others as the cache holds were stored since.
Since(h) == {g \in Hashes \ {h} : written[g] >= written[h]}

EntryLastsItsTime ==
  \A h \in Hashes :
    written[h] >= 0 /\ h \notin DOMAIN live =>
      now > written[h] + TTL \/ Cardinality(Since(h)) >= MaxEntries
=============================================================================
