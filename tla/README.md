# Verification of oastools-web

TLA+ models of the oastools-web server (Go), the TLC configurations that check
them, and theorems about them proved with TLAPS. Paths below are relative to
the repository.

oastools-web is one HTTP process. It validates, converts, diffs, fixes, joins,
overlays and explores OpenAPI documents with the oastools library, behind a
middleware chain, and keeps two pieces of shared state in memory: the rate
limiter's visitors and the cache of explored specifications. Nothing is
persisted.

## Inventory

| part | code | state | operations | hard because |
|---|---|---|---|---|
| explore cache | `internal/api/explore_cache.go` | map of items with expiry, stopped flag, ticker | Get, Set (evicts), Delete, Stop, cleanup goroutine | expired entries linger, eviction at the limit, select between tick and stop |
| rate limiter | `internal/api/middleware.go` 17-143 | `sync.Map` of visitor objects, token buckets, done channel | getVisitor, cleanup goroutine, Stop | nothing spans two map operations; a visitor is used after the map dropped it |
| middleware chain | `middleware.go` 145-294, `handler.go` 195-244 | semaphore, response writers | Recovery, Metrics, Logging, ConcurrencyLimiter, SecurityHeaders, RequestSizeLimiter, Timeout | `http.TimeoutHandler` runs the handler in another goroutine and abandons it |
| request metrics | `metrics.go` | attributes of a request | enrich (handler), read and record (middleware) | unsynchronised, by two goroutines after a timeout |
| server process | `cmd/server/main.go`, a setting of `internal/config` | settings, listener, signal channel, meter provider | load, set up, signal, shutdown, export, flush | main returns while another goroutine drains; the set-up has no deadline |
| explore handlers | `explore.go` | none of their own; the cache | upload, 9 views and details | concurrent uploads, entries that go between two clicks |
| explore client | `static/js/explore.js`, `app.js` | stored spec, page | submit, view, recover from 410 | order of events and answers |
| input reading | `input.go` | none | file, paste, URL; one or several | many error paths |
| URL fetcher | `urlfetch.go` | none | fetch with redirects and limits | order of the checks, off by one |
| operation handlers | `validate.go`, `convert.go`, `diff.go`, `fix.go`, `join.go`, `overlay.go` | none | one request each | stages and early returns |
| routes | `routes.go`, `route` and `servePage` of `handler.go`, `operationFromPath` | none | the operations with their declared statuses, dispatch of a path | what is declared is written far from the handlers |
| analysis | `explore.go` 292-417, 551-580, 740-830 | none | who uses a scheme or a schema, what is unsecured | several loops must agree |
| examples, health, templates | rest of `internal/` | none | tables and lookups | - |

How they interact. A request passes the chain outside in: Logging,
SecurityHeaders, Metrics, Recovery, rate limiting, the semaphore, the deadline,
the size limit, the router (`handler.go` 194-226). Its handler reads the input,
may fetch a URL, calls the library, enriches the metrics attributes and answers;
the explore handlers share the cache with every other request and with the
cache's own goroutine. The signal goroutine stops the two background goroutines
through `Handler.Stop` and shuts the listener down.

What makes each part right:

* cache: a Get returns the last Set of its key for one lifetime and no longer,
  the limit holds, an entry is lost early only when every slot is live, memory
  comes back, Stop ends the goroutine;
* limiter: no client is refused that keeps within its rate, evictions do not
  multiply the rate, idle visitors are forgotten;
* chain: slots are conserved on every path, each request is answered once and
  as its outcome says, metrics say what the client saw, the server recovers;
* process: it ends when asked to, once, with its metrics flushed or their loss
  logged, and does not call a failure a success;
* explore: an answer is about the content asked for, views agree, an analysis
  lasts;
* input and fetcher: what is parsed is all that was sent and within its limit,
  nobody is talked to who should not be, every fetch ends;
* handlers: a document is answered in the format it came in, with a status its
  operation declares, and what fix, the security views and the schema views say
  of it is true;
* metrics: a request is counted once, as what the client saw and as the
  operation that served it;
* client: a page recovers from an analysis the server has forgotten.

The hazards behind these, each at its line, are in `PROJECT.json`.

## Modules

| module | models | composes |
|---|---|---|
| `ExpiringMap` | abstract: a bounded map whose entries vanish when their lifetime is over | - |
| `TTLCache` | `explore_cache.go`, and its refinement mapping to `ExpiringMap` | `ExpiringMap` |
| `Routes` | the registered operations with their declared statuses, the pages, and what a path is dispatched to, exempted from and counted as | - |
| `RequestPipeline` | the chain around one handler, two goroutines per request | `Routes` |
| `RateLimiter` | `getVisitor`, the cleaner and the buckets, step by step | - |
| `ServerLifecycle` | `config.Load`, `main`, the set-up of the metrics, and the signal goroutine | - |
| `Explore` | the upload and view handlers, over the abstract cache | `ExpiringMap`, `Routes` |
| `UrlFetch` | `urlfetch.go`, hop by hop | - |
| `Analysis` | security and schema usages of an analysis, as operators on a document | - |
| `ExploreCached` | the same handlers over the cache as it is, and their refinement of `Explore` | `TTLCache`, `Explore` |
| `Operations` | `input.go` and the seven handlers of an upload, stage by stage | `UrlFetch`, `Analysis`, `Routes` |
| `ExploreClient` | `explore.js` and the listener of `app.js` | - |
| `*Proofs` | the theorems about a module | the module |
| `MC*` | instances for TLC (`ExploreClient` needs none) | the module |

`TTLCache`. Every method holds the lock from its reading of the clock to its
end, so it is one action; the goroutine's select and the cleanup it calls are
two. `items` is `c.items` as a function on the keys that have an entry; an
expired item stays in it until a cleanup or an overwrite, as in the code.

`RequestPipeline`. A request is a pair of program counters: the connection's
goroutine and the one TimeoutHandler starts. Store and read of each metrics
attribute are actions of their own, because nothing orders them. A request has
a path, and `Routes` says whether it is exempt, what answers it and as what it
is counted. Logging and SecurityHeaders write nothing another step reads and are
left out.

`Routes`. A path is the sequence of its segments; an operation is a path with
the statuses its description declares. Methods are left out. The other models
check their answers against this table.

`RateLimiter`. Visitors are objects, named by numbers, that the map or a
request refers to; garbage is collected so that the numbers are finite. A tick
is the cleaner's minute; buckets refill at ticks. `allowance` is a history
variable: the bucket of an ideal limiter that never drops a visitor.

`ServerLifecycle`. `main` and `shutter` are the places of the two goroutines;
main goes through load, the four stages of `initMeterProvider`, of which each
may fail or never end, the handler, and the listener. MAX_CONCURRENT_REQUESTS is
any number, or none, and a negative one makes `NewHandler` panic. The provider's
reader exports now and then; the flush is what main defers. It exports
everything, or answers with an error, at once or after its 5 seconds, which main
logs: the export may be rejected or the collector out of reach, and what was
recorded since the last export may be lost or not. Of `http.Server` the model
uses that Shutdown closes the listeners first, that ListenAndServe then returns
at once (also when it is called later), and that Shutdown waits for active
requests or its context.

`Explore`. An upload is Upload, Lookup, Parse, Store; a view is one action,
because it touches shared state once. Each of the nine views looks at its
parameters, the cache and the analysis in an order of its own, which decides
between 200, 400, 404 and 410 (`StatusOf`); where that is 200 the page's template
may still fail, and the answer is 500 (`RenderHTML`). The content stands for its
analysis, of which `ItemsOf` is what a detail can be asked about; the file name
an analysis also keeps, that of the first upload of the content, is left out. The
cache is `ExpiringMap`, which is what `TTLCache` is proved to implement, so the
handlers are checked against what the cache promises. Deadline answers the
client and lets the upload run on; Restart loses everything.

`ExploreCached`. The actions of `Explore` with Get and Set of `TTLCache` for
what they do with the cache, and the cache's own steps, Stop among them, between
any two of an upload's. The other parts of an action are `Explore`'s. Its ticker
keeps the clock's multiples over a restart. It has no run: that it implements
`Explore` is proved, and what holds of `Explore` is checked there.

`UrlFetch`. A fetch is Fetch, then for each hop Connect and Redirect or Accept,
then ReadBody; Timeout ends it anywhere. A lookup gives any sequence of
addresses, a new one each time. Kept-alive connections are pairs of a name and
an address, and live from one fetch to the next.

`Operations`. A handler is its path through the stages read, fetch, options,
parse, engine, serialize, reparse and render; `ValidatePath` to `ExplorePath`
are the paths, and a stage that fails answers at once. `inputs` keeps for each
input how much was sent and how much was kept. The library refuses or gives any
result; explore gives any small document. Each handler knows the route it
serves. Requests come one after another: the handlers share the fetcher's
connections only, and those are the environment's to choose.

`Analysis`. Three loops decide whether an operation is secured, two which
scheme it uses, and two where a schema is: one from the document's side, for
the page of a component, one from the paths of the walker, for inline ones.
Each is an operator translated from its own loop. A schema has a place (a body,
a parameter, the default response or one with a code), what it is of there (the
content of a media type, a header, or, in OpenAPI 2, the place itself), and the
way to a schema inside that one. The first loop reads the schemas of media types
themselves, of bodies and responses with codes; the second looks for keywords
anywhere in the text of a path, names included, and `Within` says which of them
the text of a name contains.

`ExploreClient`. The listeners and callbacks are actions; answers, readers and
expiry come in any order. htmx is external: it raises `htmx:responseError` when
the `htmx:beforeSwap` listeners leave `isError` set.

## What is checked

Passing runs:

* `ttl_cache`: the cache implements `ExpiringMap` and stays within its limit;
  expired entries are reclaimed unless stopped; Stop ends the goroutine. Three
  keys for two slots, a lifetime of one ticker period, a clock of two and a
  half: evictions choose, updates happen at the limit, expired entries wait
  beside live ones.
* `request_pipeline`: two requests for one slot, with refusals, panics,
  deadlines, oversized bodies and handlers that never end. Two requests are
  enough because the semaphore is the only thing they share. Four paths: a
  file, an upload, a view below the same operation, and no route. What is
  counted is the operation whose handler ran, also when the handler was cut off
  before it said so (`CountedAsItsOperation`).
* `rate_limiter`: two requests of one IP, a burst of 2, three ticks of
  idleness and eight of clock, so that a second eviction and its use fit. IPs
  share nothing but the Range of the cleaner, which visits them one by one, so
  one is enough. A request straddles one tick at most (MaxDelay).
* `server_lifecycle`: two requests; signals at every moment, any number of them;
  a limit that is a number, zero, negative or not given; metrics on or off, with
  a set-up that fails or hangs at each stage; start-up, listen and serve
  failures; a flush that is rejected, out of reach or too slow. What was
  recorded in time is exported or its loss is logged (`LossIsLogged`).
* `explore`: two uploads among three contents that parse and one that does
  not, against a cache of two and a clock of two lifetimes, with a view of each
  shape (a tab, a list, a detail that looks for its item's name before the
  cache, one that looks after it) of every hash and item. Uploads are alike, and
  so are two of the contents. What the last Get returned is left out of the
  fingerprint, as it is only read in the step of the Get; of an answer the
  fingerprint keeps the status and whether every property of it holds (`Seen`
  in `MCExplore`): no step reads an answer, so two states that differ only in
  right answers go on alike, and a wrong one is a state of its own. An answer has
a status its operation declares, but for a page that fails to render and for the
tabs (`ViewsAreDeclared`).
* `operations`: one to three inputs (join takes two or three here, and is
  refused one or four; the code takes up to five, which the proof covers), of
  sizes 0 to 4 around the limits 1, 2 and 3 of overlay, file and fetcher, so
  that each limit is met and passed; five requests a
  fetch, as in the code; lookups of one or two addresses; up to two parse
  errors before and after fix; every document of two operations, with security
  absent, inherited, switched off, single or with alternatives, of which one
  may ask for nothing; and every document with one inline schema or up to two
references, in a body, a parameter, a coded or the default response, as the
schema of a media type, of a header or of the place itself, at the top or inside
another, under names of which one contains a keyword.
  `StatusesAreDeclared`: each early return has a status that the operation
  declares. `SchemaPagesOfAnswer`: an inline schema has the label of
its place as long as no name contains a keyword, and what a component is shown
to be used in is where it is used, as far as that page looks.

Runs that find what a comment says violated:

* `handlers_outlive_slots`: "limits concurrent requests globally"; the slot of
  a handler cut off by the deadline is given back while it still runs.
* `metrics_before_handler_ends`: "Derive attributes after handler returns";
  after a timeout they are read while the handler may be writing them.
* `rate_limiter_one_per_ip`: "LoadOrStore ensures only one limiter is created
  per IP"; not against the cleaner, which can drop the visitor between a
  request's Load and its use. The excess is bounded: `ForgivenAtMostOnce`.
* `server_graceful`: "Graceful shutdown"; ListenAndServe returns as soon as
  Shutdown begins, main returns, and requests in flight are cut off with the
  10 seconds not over.
* `scheme_count`: "counts how many operations use each security scheme"; an
  operation whose alternatives name a scheme twice counts twice, and the
  scheme's details list it once.
* `client_recovery`: "Handle 410 Gone responses (cache miss)"; `app.js` clears
  `isError` for every error, so htmx never raises the event that recovery
  listens for, and the tab is left empty. Were it raised, the retry would
  still fail: it passes htmx's target, an element, to `querySelector`.

Where code and description disagree without a run of their own, the property
names the exception. The tabs of the explore page declare 404 and answer 400 or
410, and no view declares the 500 of a template that fails (`ViewsAreDeclared`).
The 422 of diff (`diff.go` 99), and the 413, 429, 500 and 503 of many operations
are declared nowhere (`StatusesAreDeclared`). An inline schema is mislabelled
when a name in its path (a property, a media type, a header) contains a keyword
of the label, `requestBodyId` as well as `requestBody`. "findSchemaUsages finds
all operations that reference the given schema" (`explore.go` 727), but it
passes over references in parameters, default responses and headers, those
inside another schema (the `items` of a list, a property), and every one of an
OpenAPI 2 document: a schema used only there is shown as unused (both are
exceptions of `SchemaPagesAgree`). References are compared by their last
segment.

Each property of a passing run has a mutant in its module, a plausible bug
that makes it fail; `PROJECT.json` lists them.

## Bounds and assumptions

`MaxTime` stops the clock in `ExpiringMap`, `TTLCache`, `RateLimiter` and
`Explore`; `MaxDelay` bounds how long a request is inside the rate limiter. No
other counter is bounded. `Sizes`, `MaxAddresses` and `MaxIssues` bound what a
server, the resolver and the parser may say in `UrlFetch` and `Operations`.
Constants have named assumptions. Three of them say more than a type.
`IdleRefills` (`RateLimiter`): a bucket is full again, and the excess of the
last eviction made good, before its visitor is dropped. The time for that counts
from twice `MaxDelay` after the visitor was last seen, as a request that came
before that moment and is late may still use it; so the assumption also bounds
how late, `2 * MaxDelay <= IdleLimit`. With 60 requests a minute, a burst of 10,
3 minutes and requests that are no minute in the limiter it holds for a hundred
of them at once; with any small rate and large burst it does not, and
`config.Load` accepts both. `HashSeparates` (`Explore`): the 16 hex digits tell
contents apart. The concurrency limit of `RequestPipeline` is any natural
number; with 0 every request is refused. A negative one panics at start, which
is the business of `ServerLifecycle`.

## Fairness

Liveness is checked under fairness of what the Go runtime runs: a goroutine that
can go on does, and time passes. Callers, clients, signals and handlers owe
nothing; a handler may never end. The exit branch of a select that also receives
ticks is strongly fair, because select picks among ready cases at random. In
`ServerLifecycle` main and the signal goroutine are weakly fair; a failing
listener is not part of main's fairness, and neither is the set-up of the
metrics, which waits for Google Cloud without a deadline. In `Operations` a
handler that has a request goes on, and the fetcher's timeout fires; servers owe
nothing, and the library is taken to return.

## What is proved

For all values of the constants that meet the assumptions:

* `TTLCacheProofs`: `TypeCorrect`, `CapacityRespected`, `ExpiryFollowsAge` and
  `CacheImplementsMap`, the refinement. The evicted entry is the oldest by
  `addedAt`; the abstract map evicts by remaining life. The two agree because
  `expiresAt` is `addedAt` plus a constant, which is the invariant
  `ExpiryFollowsAge` and the strengthening the refinement needs. A full cache
  without expired entries has exactly the live keys, by a count.
* `RequestPipelineProofs`: `SlotsNeverLeak`, `EveryEndIsAnswered`,
  `RefusalIsFree`, `MetricsAgree`, `TypeCorrect`, `MetricsReadWhole`,
  `MetricsCountOperations`, for any number of requests, paths and slots. What
  the middleware has seen is nothing or all when the handler's goroutine ended
  before it was read; the name a handler gives is that of the operation its path
  leads to, which is a fact of the table.
* `RateLimiterProofs`: `TypeCorrect`, `NeverStricter` and `ForgivenOnce`, for
  any number of clients and requests, whatever the cleaner does meanwhile. A
  request and the map refer to visitors of the right IP only (`Referring`), so
  the tokens an IP is charged for are those of its visitors; every visitor that
  is kept is referred to (`NoGarbage`), so that, by a count, there is a name for
  a new one; and the ideal bucket is never ahead of any visitor's
  (`NeverAhead`). For `ForgivenOnce` a request is a stray when it holds a
  visitor the map no longer has. The invariant `Forgiving` bounds the excess of
  an IP by the strays there still are (`Excess`), of which each can spend one
  token more; while the map has no visitor for the IP, all strays hold one
  visitor, whose bucket is the ideal one (`Orphaned`); and the debt shrinks by a
  refill a tick from the moment the map's visitor was last seen (`Rested`). The
  cleaner takes only a visitor whose cutoff has passed, when, with the delays
  bounded (`InTime`, `Behind`), all earlier strays are gone and, by
  `IdleRefills`, the debt is paid (`DoomedIsSettled`): so one eviction starts
  where the last one's excess ended.
* `ServerLifecycleProofs`: `HandlerStopsOnce`, `StatusIsHonest`,
  `LossesAreLogged`, `TypeCorrect`. The invariant ties the stop count and the
  closed listener to the signal goroutine's place, and main's return to the
  closed listener.
* `ExploreProofs`: `AnswersAreRight` and `ViewsAreConsistent` from content
  addressing (what is under a hash is of that hash, what was shown under it
  too); `EntriesLast` from the order of writing: an entry that makes room was
  written before all that stay, so these and the new one are as many later
  writes as the cache holds. `ViewsAnswerAsDeclared`, from the order in which
each view looks at its parameters, the cache and the item, with the 500 of a
template and the tabs' statuses as the exceptions it names. `TypeCorrect`.
* `ExploreCachedProofs`: `PageImplementsExplore`. The steps of the cache are
  those of the map by the lemmas of `CacheImplementsMap`, whose invariant every
  new process starts with; the rest of each handler is the same. So the
  theorems above hold of the handlers over the real cache.
* `AnalysisProofs`: lemmas about the loops of `Analysis`, on documents of any
  size. `CoverageIsRight`: secured and listed as unsecured partition the
  operations. `UsagesAreRight`: the counted requirements project onto the
  operations that are listed, and the projection is one to one exactly when no
  operation names the scheme twice. `SchemaPagesAreRight`: of the
steps of the walker's path only the first is a keyword, so one that the path
mentions elsewhere is in a name, and the code of a response follows the first
step only; this holds for schemas at any depth, names of any text, and any
number of operations.
* `OperationsProofs`: `UsesFetcher`, that the handlers' behaviours are the
  fetcher's, so that `PeersAreAllowed` and `FetchesAreBounded`, which are
  invariants of the fetcher alone, hold of them; `EngineInputsAreWhole`, from
  the invariant that every input read so far is whole and within the limit of
  its place; `FormatIsKept` and `FixIsHonest`, from what each stage has at hand;
  `DeclaredStatuses`, from the path of each handler: a stage that fails answers
  with a status of its own, and which stages an operation has is what its route
  declares; `CoverageIsKept`, `UsagesAreKept` and `SchemaPagesAreKept`, from the
  lemmas of `AnalysisProofs`; `TypesAreCorrect`. They hold for any number of
  inputs and requests and any limits.

Every invariant and the refinement that the runs check are proved. Only
model-checked: liveness, which is out of the prover's reach, and the violations.
The two assumptions of `Explore` and `RateLimiter` above are not proved of the
code; `NeverStricter` does not use `IdleRefills`. `PageImplementsExplore` has one
more hypothesis, a part of `Explore`'s: `Hash` gives every content a key. That
the theorems of `Explore` carry over is the rule of substitution for its
constants and variables, and is not a step of a proof here.

## Not modelled

* The oastools library (parser, validator, fixer, joiner, converter, differ,
  overlays): external, it may refuse or return anything.
* Of an analysis: the counts of the summary, media types, tags and OAuth flows,
  which are single loops over a document; the inline schemas of components and of
  callbacks, and names with quotes or dots in them, which could look like steps
  of a path; the file name of the first upload of a content, which later uploads
  of it are shown.
* Templates, but for their failing.
* Of `routes.go`: methods, parameters and schemas of the description; the text
  of `/api/spec`. Of configuration: settings other than the concurrency limit,
  which are constants of the other models and change no control.
* The package and complexity instruments of `metrics.go`, written by the handler
  alone and bounded by nothing another step does; exporters.
* Dead branches of the rate limiter for values of another type.
* Of the client: URLs, details inside a tab, and the helpers that copy,
  download and highlight.
* The example catalogue and health: stateless reads, their routes and statuses
  are in `Routes`. Styles, build, deployment.

## Plan

Done: all modules, runs and proofs above. Left, in this order:

1. `ExploreClient`: a run of its own for what does hold (no view of a replaced
   page is shown, what is stored after a submission), and the recovery as it
   would be with the listener repaired: what it would resubmit.
2. Proofs: abstract specifications of the chain (a counting semaphore) and of
   the limiter, and that they are implemented.
3. `Analysis`: the summary's counts against the lists it links to.
