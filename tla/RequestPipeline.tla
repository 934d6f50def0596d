-------------------------- MODULE RequestPipeline --------------------------
(***************************************************************************)
(* The middleware chain every request passes (internal/api/handler.go,     *)
(* buildMiddlewareChain): Logging, SecurityHeaders, Metrics, Recovery,     *)
(* RateLimiter, ConcurrencyLimiter, Timeout, RequestSizeLimiter, route.    *)
(*                                                                         *)
(* Two goroutines serve one request.  The connection's goroutine (pc) runs *)
(* the chain down to http.TimeoutHandler, which starts the handler's       *)
(* goroutine (h) and waits for it to end, to panic or for the deadline.    *)
(* When the deadline wins, or the client goes away, the connection's       *)
(* goroutine answers 503 and returns while the handler's keeps running.    *)
(*                                                                         *)
(* The token bucket's verdict, the size of a body, the outcome of a        *)
(* handler and the passing of the deadline are nondeterministic here;      *)
(* RateLimiter models the first.                                           *)
(***************************************************************************)
EXTENDS Integers, FiniteSets, Routes

CONSTANTS
  Requests,        \* the requests of a behaviour
  Paths,           \* the paths they ask for
  MaxConcurrent,   \* cfg.MaxConcurrentRequests, the capacity of sem
  MetricsEnabled   \* cfg.MetricsEnabled: Metrics is in the chain

ASSUME PipelineAssumption ==
  /\ IsFiniteSet(Requests)
  /\ MaxConcurrent \in Nat
  /\ MetricsEnabled \in BOOLEAN

VARIABLES
  path,     \* what is asked for
  pc,       \* where the connection's goroutine is in the chain
  h,        \* where the handler's goroutine is
  sem,      \* len(sem), the slots taken
  stores,   \* how many of the word stores of ma.enrich were made
  buffer,   \* the status in the TimeoutHandler's buffer
  answer,   \* the status that reached the client
  seen,     \* the attributes Metrics found set when it read them
  label,    \* the operation Metrics counts the request as
  measured  \* the status Metrics recorded

vars == <<path, pc, h, sem, stores, buffer, answer, seen, label, measured>>

\* "ok" and "failed" stand for the statuses below and from 400 on that handlers
\* answer; "busy" and "timeout" are the two reasons for a 503.
HandlerStatus == {"ok", "failed", "toolarge"}
Status == HandlerStatus \cup {"limited", "busy", "timeout", "panic", "none"}

Holding == {"wait", "returning", "unwinding"}

Running == {"size", "read", "enrich", "work"}

\* enrich makes five stores: length and pointer of operation, length and
\* pointer of format, inputBytes.
EnrichStores == 5
Attributes == {"operation", "format", "size"}

TypeOK ==
  /\ path \in [Requests -> Paths]
  /\ pc \in [Requests -> Holding \cup
       {"idle", "limit", "acquire", "recover", "measure", "record", "size", "done", "aborted"}]
  /\ h \in [Requests -> Running \cup {"none", "done", "panicked"}]
  /\ sem \in 0..MaxConcurrent
  /\ stores \in [Requests -> 0..EnrichStores]
  /\ buffer \in [Requests -> HandlerStatus \cup {"none"}]
  /\ answer \in [Requests -> Status]
  /\ seen \in [Requests -> SUBSET Attributes]
  /\ label \in [Requests -> KnownOps \cup {Unknown, "none"}]
  /\ measured \in [Requests -> Status]

Init ==
  /\ path \in [Requests -> Paths]
  /\ pc = [r \in Requests |-> "idle"]
  /\ h = [r \in Requests |-> "none"]
  /\ sem = 0
  /\ stores = [r \in Requests |-> 0]
  /\ buffer = [r \in Requests |-> "none"]
  /\ answer = [r \in Requests |-> "none"]
  /\ seen = [r \in Requests |-> {}]
  /\ label = [r \in Requests |-> "none"]
  /\ measured = [r \in Requests |-> "none"]

-----------------------------------------------------------------------------
Goto(r, stage) == pc' = [pc EXCEPT ![r] = stage]

\* responseWriter.WriteHeader: the first status wins.
WriteHeader(r, s) == answer' = [answer EXCEPT ![r] = IF @ = "none" THEN s ELSE @]

Metered(r) == MetricsEnabled /\ ~Exempt(path[r])

\* Where the connection's goroutine goes when everything inside Metrics returned.
Outside(r) == IF Metered(r) THEN "measure" ELSE "done"

Arrive(r) ==
  /\ pc[r] = "idle"
  /\ Goto(r, "limit")
  /\ UNCHANGED <<path, h, sem, stores, buffer, answer, seen, label, measured>>

\* RateLimiter.Middleware: exempt paths pass, others if a token was left.
RateLimit(r) ==
  /\ pc[r] = "limit"
  /\ \/ Goto(r, "acquire") /\ UNCHANGED answer
     \/ /\ ~Exempt(path[r])
        /\ WriteHeader(r, "limited")
        /\ Goto(r, Outside(r))
  /\ UNCHANGED <<path, h, sem, stores, buffer, seen, label, measured>>

\* ConcurrencyLimiter takes a slot or refuses at once; with the slot taken
\* TimeoutHandler starts the handler's goroutine and waits.
Acquire(r) ==
  /\ pc[r] = "acquire"
  /\ sem < MaxConcurrent
  /\ sem' = sem + 1
  /\ h' = [h EXCEPT ![r] = "size"]
  /\ Goto(r, "wait")
  /\ UNCHANGED <<path, stores, buffer, answer, seen, label, measured>>

\* Mutant: the deferred release is set up before the select.
MutRefuseReleases(r) ==
  /\ pc[r] = "acquire"
  /\ sem = MaxConcurrent
  /\ sem' = sem - 1
  /\ WriteHeader(r, "busy")
  /\ Goto(r, Outside(r))
  /\ UNCHANGED <<path, h, stores, buffer, seen, label, measured>>

\* Mutant: a busy server queues the request behind the handler it starts.
MutRefuseServes(r) ==
  /\ pc[r] = "acquire"
  /\ sem = MaxConcurrent
  /\ WriteHeader(r, "busy")
  /\ h' = [h EXCEPT ![r] = "size"]
  /\ Goto(r, Outside(r))
  /\ UNCHANGED <<path, sem, stores, buffer, seen, label, measured>>

Refuse(r) ==
  /\ pc[r] = "acquire"
  /\ sem = MaxConcurrent
  /\ WriteHeader(r, "busy")
  /\ Goto(r, Outside(r))
  /\ UNCHANGED <<path, h, sem, stores, buffer, seen, label, measured>>

\* TimeoutHandler's select, one action per case.  A handler that ended and an
\* expired deadline can be ready together; select picks either.
TakeAnswer(r) ==
  /\ pc[r] = "wait" /\ h[r] = "done"
  /\ WriteHeader(r, buffer[r])
  /\ Goto(r, "returning")
  /\ UNCHANGED <<path, h, sem, stores, buffer, seen, label, measured>>

TakePanic(r) ==
  /\ pc[r] = "wait" /\ h[r] = "panicked"
  /\ Goto(r, "unwinding")
  /\ UNCHANGED <<path, h, sem, stores, buffer, answer, seen, label, measured>>

\* Mutant: the deadline is looked at when the handler has returned.
MutCutCooperative(r) ==
  /\ pc[r] = "wait" /\ h[r] = "done"
  /\ WriteHeader(r, "timeout")
  /\ Goto(r, "returning")
  /\ UNCHANGED <<path, h, sem, stores, buffer, seen, label, measured>>

\* The deadline passed, or the client went away and cancelled the context.
Cut(r) ==
  /\ pc[r] = "wait"
  /\ WriteHeader(r, "timeout")
  /\ Goto(r, "returning")
  /\ UNCHANGED <<path, h, sem, stores, buffer, seen, label, measured>>

\* Mutant: the release is a statement after next.ServeHTTP, not a defer.
MutReleaseNotDeferred(r) ==
  /\ pc[r] \in {"returning", "unwinding"}
  /\ sem' = IF pc[r] = "returning" THEN sem - 1 ELSE sem
  /\ Goto(r, IF pc[r] = "unwinding" THEN "recover" ELSE Outside(r))
  /\ UNCHANGED <<path, h, stores, buffer, answer, seen, label, measured>>

\* The deferred release runs on return and on panic alike.
Release(r) ==
  /\ pc[r] \in {"returning", "unwinding"}
  /\ sem' = sem - 1
  /\ Goto(r, IF pc[r] = "unwinding" THEN "recover" ELSE Outside(r))
  /\ UNCHANGED <<path, h, stores, buffer, answer, seen, label, measured>>

\* Mutant: Recovery outside Metrics, so that a panic passes Metrics by.
MutRecoverOutsideMetrics(r) ==
  /\ pc[r] = "recover"
  /\ WriteHeader(r, "panic")
  /\ Goto(r, "done")
  /\ UNCHANGED <<path, h, sem, stores, buffer, seen, label, measured>>

\* Mutant: the panic is logged and no response is written.
MutRecoverSilent(r) ==
  /\ pc[r] = "recover"
  /\ Goto(r, Outside(r))
  /\ UNCHANGED <<path, h, sem, stores, buffer, answer, seen, label, measured>>

Recover(r) ==
  /\ pc[r] = "recover"
  /\ WriteHeader(r, "panic")
  /\ Goto(r, Outside(r))
  /\ UNCHANGED <<path, h, sem, stores, buffer, seen, label, measured>>

-----------------------------------------------------------------------------
\* Metrics reads what enrich wrote.  Nothing orders the two once the deadline
\* cut the handler off: a string whose length is stored and whose pointer is
\* not may be read as unset or as set, or the read faults.
Torn(r, n) == stores[r] = n - 1

Notice(r, attribute, found) ==
  \E f \in found : seen' = [seen EXCEPT ![r] = IF f THEN @ \cup {attribute} ELSE @]

ReadString(r, attribute, n) ==
  Notice(r, attribute, IF Torn(r, n) THEN BOOLEAN ELSE {stores[r] >= n})

MeasureOperation(r) ==
  /\ pc[r] = "measure"
  /\ ReadString(r, "operation", 2)
  /\ label' = [label EXCEPT ![r] =
       IF "operation" \in seen'[r] THEN EnrichedAs(path[r]) ELSE OperationFromPath(path[r])]
  /\ Goto(r, "record")
  /\ UNCHANGED <<path, h, sem, stores, buffer, answer, measured>>

\* Duration with ma.format, count and, from 400 on, the error.
Record(r) ==
  /\ pc[r] = "record"
  /\ ReadString(r, "format", 4)
  /\ measured' = [measured EXCEPT ![r] = answer[r]]
  /\ Goto(r, "size")
  /\ UNCHANGED <<path, h, sem, stores, buffer, answer, label>>

\* Metrics is outside Recovery: the fault of a torn read ends the connection.
Fault(r) ==
  /\ \/ pc[r] = "measure" /\ Torn(r, 2)
     \/ pc[r] = "record" /\ Torn(r, 4)
  /\ Goto(r, "aborted")
  /\ UNCHANGED <<path, h, sem, stores, buffer, answer, seen, label, measured>>

MeasureSize(r) ==
  /\ pc[r] = "size"
  /\ Notice(r, "size", {stores[r] >= EnrichStores})
  /\ Goto(r, "done")
  /\ UNCHANGED <<path, h, sem, stores, buffer, answer, label, measured>>

-----------------------------------------------------------------------------
\* The handler's goroutine, which nothing stops once it runs.
HandlerGoto(r, stage) == h' = [h EXCEPT ![r] = stage]

Reply(r, s) ==
  /\ buffer' = [buffer EXCEPT ![r] = s]
  /\ HandlerGoto(r, "done")

\* RequestSizeLimiter refuses by Content-Length before route is called.
SizeLimit(r) ==
  /\ h[r] = "size"
  /\ \/ Reply(r, "toolarge")
     \/ /\ HandlerGoto(r, IF IsUpload(path[r]) THEN "read" ELSE "work")
        /\ UNCHANGED buffer
  /\ UNCHANGED <<path, pc, sem, stores, answer, seen, label, measured>>

\* An operation reads its input; a bad one is answered before enrich.
ReadInput(r) ==
  /\ h[r] = "read"
  /\ \/ Reply(r, "failed")
     \/ /\ HandlerGoto(r, IF Metered(r) THEN "enrich" ELSE "work")
        /\ UNCHANGED buffer
  /\ UNCHANGED <<path, pc, sem, stores, answer, seen, label, measured>>

\* Mutant: inputBytes is left at zero.
MutEnrichNoSize(r) ==
  /\ h[r] = "enrich"
  /\ stores' = [stores EXCEPT ![r] = @ + 1]
  /\ IF stores[r] + 1 = EnrichStores - 1 THEN HandlerGoto(r, "work") ELSE UNCHANGED h
  /\ UNCHANGED <<path, pc, sem, buffer, answer, seen, label, measured>>

Enrich(r) ==
  /\ h[r] = "enrich"
  /\ stores' = [stores EXCEPT ![r] = @ + 1]
  /\ IF stores[r] + 1 = EnrichStores THEN HandlerGoto(r, "work") ELSE UNCHANGED h
  /\ UNCHANGED <<path, pc, sem, buffer, answer, seen, label, measured>>

\* route and the handler behind it; what nothing serves is not found.
Work(r) ==
  /\ h[r] = "work"
  /\ \E s \in (IF Served(path[r]) THEN {"ok", "failed"} ELSE {"failed"}) : Reply(r, s)
  /\ UNCHANGED <<path, pc, sem, stores, answer, seen, label, measured>>

\* The panic goes into a buffered channel: nobody may be left to take it.
HandlerPanic(r) ==
  /\ h[r] \in {"read", "work"}
  /\ HandlerGoto(r, "panicked")
  /\ UNCHANGED <<path, pc, sem, stores, buffer, answer, seen, label, measured>>

-----------------------------------------------------------------------------
Chain(r) ==
  \/ RateLimit(r) \/ Acquire(r) \/ Refuse(r)
  \/ TakeAnswer(r) \/ TakePanic(r) \/ Cut(r) \/ Release(r) \/ Recover(r)
  \/ MeasureOperation(r) \/ Record(r) \/ Fault(r) \/ MeasureSize(r)

Handling(r) ==
  SizeLimit(r) \/ ReadInput(r) \/ Enrich(r) \/ Work(r) \/ HandlerPanic(r)

Next == \E r \in Requests : Arrive(r) \/ Chain(r) \/ Handling(r)

Spec == Init /\ [][Next]_vars

\* The connection's goroutine runs and deadlines pass.  Nothing is assumed of
\* handlers: one may parse for ever.
Fairness == \A r \in Requests : WF_vars(Chain(r))

FairSpec == Spec /\ Fairness

-----------------------------------------------------------------------------
\* The slots taken are those of the requests between ConcurrencyLimiter's send
\* and its deferred receive, and never more than there are: no path, a panic
\* and a timeout included, loses a slot or gives one back twice.
SlotsConserved ==
  /\ sem = Cardinality({r \in Requests : pc[r] \in Holding})
  /\ sem <= MaxConcurrent

\* A request refused by a limiter costs no work and one refused for its size
\* no parsing: its handler never started, or ended at the size check.
RefusedDoesNoWork ==
  \A r \in Requests :
    /\ answer[r] \in {"limited", "busy"} => h[r] = "none"
    /\ answer[r] = "toolarge" => stores[r] = 0 /\ h[r] = "done"

\* A request that left the chain was answered: with its handler's status, with
\* 500 after a panic, or with 503 when the deadline came first.
Finished == {"measure", "record", "size", "done", "aborted"}

FinishedIsAnswered ==
  \A r \in Requests : pc[r] \in Finished =>
    \/ answer[r] \in {"limited", "busy", "timeout"}
    \/ h[r] = "done" /\ answer[r] = buffer[r]
    \/ h[r] = "panicked" /\ answer[r] = "panic"

\* Metrics counts every request it is meant to count with the status its
\* client got, also one whose handler panicked or was cut off.
MeasuredAsAnswered ==
  \A r \in Requests :
    pc[r] = "done" /\ Metered(r) => measured[r] = answer[r]

\* Unless the deadline cut the handler off, what Metrics read is whole: every
\* attribute enrich sets or none.
MeasuredWhole ==
  \A r \in Requests :
    pc[r] = "done" /\ answer[r] # "timeout" => seen[r] \in {{}, Attributes}

\* Whether the handler named the operation, was cut off before or while it did,
\* never ran or does not exist, a request is counted as one of an operation if
\* and only if that is the first word of its path after /api/ (metrics.go).
CountedAsItsOperation ==
  \A r \in Requests : pc[r] \in {"record", "size", "done"} /\ Metered(r) =>
    \A o \in KnownOps :
      label[r] = o <=> Len(path[r]) >= 2 /\ path[r][1] = "api" /\ path[r][2] = o

\* "Derive attributes after handler returns" (metrics.go): the handler's
\* goroutine is not running while Metrics reads what it writes.
MeasuredAfterHandler ==
  \A r \in Requests : pc[r] \in {"measure", "record", "size"} => h[r] \notin Running

\* "limits concurrent requests globally" (middleware.go): no more handlers run
\* than there are slots.
HandlersBounded == Cardinality({r \in Requests : h[r] \in Running}) <= MaxConcurrent

\* Every request that arrived is done with, also when its handler never ends.
EveryRequestEnds ==
  \A r \in Requests : (pc[r] # "idle") ~> (pc[r] \in {"done", "aborted"})

\* A server with no slot left has one again, also when handlers hang.
SlotsComeBack == (sem = MaxConcurrent) ~> (sem < MaxConcurrent)
=============================================================================
