-------------------------- MODULE ServerLifecycle --------------------------
(***************************************************************************)
(* The life of the process (cmd/server/main.go): main loads the settings,  *)
(* sets up the metrics and the handler, and serves; a goroutine waits for  *)
(* a signal, stops the background goroutines and shuts the server down.    *)
(* When main returns the process ends, whatever else is running.           *)
(*                                                                         *)
(* The set-up of the metrics asks Google Cloud for credentials and         *)
(* metadata, with a context that never expires: each stage may fail, and   *)
(* none of them need ever come to an end.                                  *)
(*                                                                         *)
(* Of http.Server two facts are used: Shutdown closes the listeners at     *)
(* once, which makes ListenAndServe return, or return at once when it has  *)
(* not been called yet; and Shutdown itself goes on until no request is    *)
(* active or its context expires.                                          *)
(***************************************************************************)
EXTENDS Integers, FiniteSets

CONSTANTS
  Requests,
  Settings,      \* values MAX_CONCURRENT_REQUESTS can have, NoNumber for all that are none
  NoNumber,
  DefaultSlots   \* what it is without a number: 10

ASSUME SettingsAssumption ==
  NoNumber \notin Int /\ Settings \subseteq Int \cup {NoNumber} /\ DefaultSlots \in Int

VARIABLES
  main,      \* where main is
  slots,     \* cfg.MaxConcurrentRequests
  status,    \* how the process ended
  shutter,   \* where the goroutine of the signals is
  signals,   \* signals waiting in sigCh
  signalled, \* history: the process was asked to end
  stops,     \* how often handler.Stop was called: a second call panics
  closing,   \* the server is shutting down and its listeners are closed
  expired,   \* the 10 seconds of the shutdown are over
  request,   \* what became of each request
  metered,   \* there is a meter provider to flush
  recorded,  \* requests whose data points the provider holds
  early,     \* history: those recorded while the server was not closing
  exported,  \* requests whose data points were exported
  logged     \* the flush returned an error, which main logs

shutdown == <<shutter, signals, signalled, stops, closing, expired>>
metrics == <<metered, recorded, early, exported, logged>>
vars == <<main, slots, status, shutdown, request, metrics>>

FlagsOK ==
  /\ signalled \in BOOLEAN /\ closing \in BOOLEAN /\ expired \in BOOLEAN
  /\ metered \in BOOLEAN /\ logged \in BOOLEAN

\* Where the set-up of the metrics goes after each of its stages.
MetricStages ==
  [credentials |-> "exporter", exporter |-> "metadata", metadata |-> "resource",
   resource |-> "handler"]

Starting == {"load", "handler"} \cup DOMAIN MetricStages

TypeOK ==
  /\ main \in Starting \cup {"listen", "serving", "flushing", "unwinding", "exited"}
  /\ slots \in Int
  /\ status \in {"running", "ok", "failed", "panicked", "killed"}
  /\ shutter \in {"none", "started", "notified", "waiting", "stopping", "closing",
                  "draining", "gone"}
  /\ signals \in 0..1 /\ stops \in Nat
  /\ request \in [Requests -> {"new", "active", "answered", "cut"}]
  /\ recorded \subseteq Requests /\ early \subseteq recorded /\ exported \subseteq recorded
  /\ FlagsOK
  /\ main = "exited" <=> status # "running"

Init ==
  /\ main = "load" /\ status = "running" /\ slots = DefaultSlots
  /\ shutter = "none" /\ signals = 0 /\ signalled = FALSE
  /\ stops = 0 /\ closing = FALSE /\ expired = FALSE
  /\ request = [r \in Requests |-> "new"]
  /\ metered = FALSE /\ recorded = {} /\ early = {} /\ exported = {} /\ logged = FALSE

Alive == main # "exited"

\* The process ends, and with it every request in flight.
Exit(how) ==
  /\ main' = "exited" /\ status' = how
  /\ request' = [r \in Requests |-> IF request[r] = "active" THEN "cut" ELSE request[r]]

-----------------------------------------------------------------------------
\* getEnvInt: a setting that is missing or no number leaves the default, and any
\* number is taken, a zero or a negative one too.
GetEnvInt(v) == IF v \in Int THEN v ELSE DefaultSlots

\* config.Load; METRICS_ENABLED says whether the metrics are set up.
Load ==
  /\ main = "load"
  /\ slots' \in {GetEnvInt(v) : v \in Settings}
  /\ main' \in {"credentials", "handler"}
  /\ UNCHANGED <<status, shutdown, request, metrics>>

\* A stage of initMeterProvider; when one fails main warns and goes on without a
\* provider, and when the last succeeds there is one.
SetUp(stage) ==
  /\ main = stage
  /\ \/ /\ main' = MetricStages[stage]
        /\ metered' = (main' = "handler")
     \/ main' = "handler" /\ UNCHANGED metered
  /\ UNCHANGED <<slots, status, shutdown, request, recorded, early, exported, logged>>

Credentials == SetUp("credentials")
Exporter == SetUp("exporter")
Metadata == SetUp("metadata")
Resource == SetUp("resource")

SetUpMetrics == Credentials \/ Exporter \/ Metadata \/ Resource

\* NewHandler: a template that cannot be parsed or a server that cannot be built
\* is an error, and a semaphore of negative capacity a panic.
NewHandler == {"error", IF slots < 0 THEN "panic" ELSE "made"}

\* A panic in main runs its deferred call, the flush, before the process ends.
Panic ==
  IF metered THEN main' = "unwinding" /\ UNCHANGED <<status, request>>
             ELSE Exit("panicked")

\* The handler and the goroutine of the signals; or os.Exit(1), or a panic.
MakeHandler ==
  /\ main = "handler"
  /\ \/ /\ "made" \in NewHandler
        /\ main' = "listen" /\ shutter' = "started"
        /\ UNCHANGED <<status, request>>
     \/ "error" \in NewHandler /\ Exit("failed") /\ UNCHANGED shutter
     \/ "panic" \in NewHandler /\ Panic /\ UNCHANGED shutter
  /\ UNCHANGED <<slots, signals, signalled, stops, closing, expired, metrics>>

\* Mutant: the process leaves with os.Exit, which runs no deferred call.
MutReturn == Exit("ok")

\* main returns: the deferred flush first, if there is a provider.
Return ==
  IF metered THEN main' = "flushing" /\ UNCHANGED <<status, request>>
             ELSE Exit("ok")

\* Mutant: any error of ListenAndServe is logged and main returns.
MutListenFails == Return

\* An error of ListenAndServe other than ErrServerClosed: os.Exit(1), no flush.
ListenFails == Exit("failed")

Listen ==
  /\ main = "listen"
  /\ \/ closing /\ Return
     \/ ~closing /\ main' = "serving" /\ UNCHANGED <<status, request>>
     \/ ~closing /\ ListenFails
  /\ UNCHANGED <<slots, shutdown, metrics>>

\* ListenAndServe returns ErrServerClosed as soon as the listeners are closed.
ServerClosed ==
  /\ main = "serving" /\ closing
  /\ Return
  /\ UNCHANGED <<slots, shutdown, metrics>>

\* Or it fails while it serves.
ServerFails ==
  /\ main = "serving" /\ ~closing
  /\ ListenFails
  /\ UNCHANGED <<slots, shutdown, metrics>>

\* How the process ends after its flush.
How == IF main = "unwinding" THEN "panicked" ELSE "ok"

\* mp.Shutdown exports what is recorded; or it returns an error, at once when the
\* export is rejected or nobody answers, or when its 5 seconds are over.  Only the
\* exporter's own end can fail after the export.
ShutdownMetrics ==
  \/ exported' = recorded /\ UNCHANGED logged
  \/ logged' = TRUE /\ exported' \in {exported, recorded}

\* The deferred call: an error is logged, and the process ends as it would have.
Flush ==
  /\ main \in {"flushing", "unwinding"}
  /\ Exit(How)
  /\ ShutdownMetrics
  /\ UNCHANGED <<slots, shutdown, metered, recorded, early>>

\* The provider's reader exports what there is once a minute, until the flush.
\* The sums it exports are cumulative: what a failed export leaves, the next has.
Export ==
  /\ metered /\ main \in {"handler", "listen", "serving"}
  /\ exported' = recorded
  /\ UNCHANGED <<main, slots, status, shutdown, request, metered, recorded, early, logged>>

-----------------------------------------------------------------------------
\* signal.Notify, and then the receive from sigCh.
Notify ==
  /\ Alive /\ shutter = "started"
  /\ shutter' = "notified"
  /\ UNCHANGED <<main, slots, status, signals, signalled, stops, closing, expired, request, metrics>>

Wait ==
  /\ Alive /\ shutter = "notified"
  /\ shutter' = "waiting"
  /\ UNCHANGED <<main, slots, status, signals, signalled, stops, closing, expired, request, metrics>>

\* Mutant: a channel without a buffer, to which os/signal sends without waiting.
MutDeliver == signals' = IF shutter = "waiting" THEN 1 ELSE signals

\* Mutant: a channel that holds more than one signal.
MutDeliverMany == signals' = signals + 1

\* A signal is put in the channel, or dropped when the channel is full.
Deliver == signals' = 1

\* SIGINT or SIGTERM: it kills a process that has not called Notify.
Signal ==
  /\ Alive
  /\ signalled' = TRUE
  /\ IF shutter \in {"none", "started"}
       THEN Exit("killed") /\ UNCHANGED signals
       ELSE Deliver /\ UNCHANGED <<main, status, request>>
  /\ UNCHANGED <<slots, shutter, stops, closing, expired, metrics>>

Receive ==
  /\ Alive /\ shutter = "waiting" /\ signals > 0
  /\ signals' = signals - 1 /\ shutter' = "stopping"
  /\ UNCHANGED <<main, slots, status, signalled, stops, closing, expired, request, metrics>>

\* handler.Stop(): both background goroutines are told to end.
StopHandler ==
  /\ Alive /\ shutter = "stopping"
  /\ stops' = stops + 1 /\ shutter' = "closing"
  /\ UNCHANGED <<main, slots, status, signals, signalled, closing, expired, request, metrics>>

\* server.Shutdown(ctx): the listeners close, ...
CloseListeners ==
  /\ Alive /\ shutter = "closing"
  /\ closing' = TRUE /\ shutter' = "draining"
  /\ UNCHANGED <<main, slots, status, signals, signalled, stops, expired, request, metrics>>

Expire ==
  /\ Alive /\ shutter = "draining" /\ ~expired
  /\ expired' = TRUE
  /\ UNCHANGED <<main, slots, status, shutter, signals, signalled, stops, closing, request, metrics>>

Drained == expired \/ \A r \in Requests : request[r] # "active"

\* Mutant: the goroutine ranges over the channel.
MutShutdownReturns ==
  /\ Alive /\ shutter = "draining" /\ Drained
  /\ shutter' = "waiting"
  /\ UNCHANGED <<main, slots, status, signals, signalled, stops, closing, expired, request, metrics>>

\* ... and it returns when the requests are done or the context has expired.
ShutdownReturns ==
  /\ Alive /\ shutter = "draining" /\ Drained
  /\ shutter' = "gone"
  /\ UNCHANGED <<main, slots, status, signals, signalled, stops, closing, expired, request, metrics>>

-----------------------------------------------------------------------------
Arrive(r) ==
  /\ main = "serving" /\ ~closing /\ request[r] = "new"
  /\ request' = [request EXCEPT ![r] = "active"]
  /\ UNCHANGED <<main, slots, status, shutdown, metrics>>

\* The chain answers, and the Metrics middleware records the request.
Answer(r) ==
  /\ Alive /\ request[r] = "active"
  /\ request' = [request EXCEPT ![r] = "answered"]
  /\ recorded' = IF metered THEN recorded \cup {r} ELSE recorded
  /\ early' = IF metered /\ ~closing THEN early \cup {r} ELSE early
  /\ UNCHANGED <<main, slots, status, shutdown, metered, exported, logged>>

Main == Load \/ MakeHandler \/ Listen \/ ServerClosed \/ Flush

Shutter ==
  Notify \/ Wait \/ Receive \/ StopHandler \/ CloseListeners \/ Expire \/ ShutdownReturns

Next ==
  Main \/ SetUpMetrics \/ Export \/ Shutter \/ ServerFails \/ Signal
  \/ \E r \in Requests : Arrive(r) \/ Answer(r)

Spec == Init /\ [][Next]_vars

\* The two goroutines run.  Nothing makes a signal or a request come, a request
\* end, or Google Cloud answer the set-up of the metrics.
FairSpec == Spec /\ WF_vars(Main) /\ WF_vars(Shutter)

-----------------------------------------------------------------------------
\* However many signals come, and whenever, the background goroutines are told
\* to end once: RateLimiter.Stop closes its channel and would panic again.
StopsOnce == stops <= 1

\* The process reports success only after a shutdown: no setting that the handler
\* cannot be made with, failure to make it or to listen is mistaken for one.
SuccessIsShutdown == status = "ok" => closing /\ signalled

\* No loss is silent: when a process ends with success, the data points of every
\* request answered before the server was closing have been exported, or the log
\* has an error of the flush (main.go 46-52), be it rejected, unreachable or slow.
LossIsLogged == status = "ok" => early \subseteq exported \/ logged

\* A process asked to end does end, also when the signal comes while it starts or
\* waits for ever for the set-up of its metrics, before the goroutine waits for
\* the signal or before ListenAndServe is called.
SignalEndsProcess == signalled ~> (main = "exited")

\* "Graceful shutdown" (main): a request in flight is answered, unless the 10
\* seconds are over.
GracefulShutdown ==
  status = "ok" => \A r \in Requests : request[r] = "cut" => expired
=============================================================================
