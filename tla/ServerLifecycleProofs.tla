----------------------- MODULE ServerLifecycleProofs -----------------------
(***************************************************************************)
(* The safety invariants of ServerLifecycle, for every set of requests.    *)
(* Each follows from where the two goroutines can be together: what has    *)
(* been stopped, closed and asked for is read off the shutter's place, and *)
(* main returns with success from a closing server only.                   *)
(***************************************************************************)
EXTENDS ServerLifecycle, TLAPS

\* handler.Stop is behind the goroutine exactly when it is done with it.
StopsFollow ==
  stops = IF shutter \in {"none", "started", "notified", "waiting", "stopping"} THEN 0 ELSE 1

\* The goroutine goes on only when asked to, and it alone closes the listeners.
ShutterFollows ==
  /\ shutter \in {"stopping", "closing", "draining", "gone"} \/ signals > 0 => signalled
  /\ closing => shutter \in {"draining", "gone"}
  /\ main \in Starting \cup {"unwinding"} => shutter = "none"

\* main comes to its end from a closing server, and flushes what there is.
ReturnFollows ==
  /\ main = "flushing" => closing /\ metered
  /\ status = "ok" => closing
  /\ early # {} => metered

\* A server that does not listen yet has no requests.
NothingYet ==
  main \in Starting \cup {"listen", "unwinding"} =>
    recorded = {} /\ \A r \in Requests : request[r] = "new"

IInv == TypeOK /\ StopsFollow /\ ShutterFollows /\ ReturnFollows /\ NothingYet
        /\ LossIsLogged

-----------------------------------------------------------------------------
LEMMA InitIInv == Init => IInv
<1> SUFFICES ASSUME Init PROVE IInv
  OBVIOUS
<1> USE DEF Init
<1>0. FlagsOK
  BY Zenon DEF FlagsOK
<1>1. TypeOK
  BY <1>0, SettingsAssumption DEF TypeOK, Starting
<1>2. StopsFollow /\ ShutterFollows
  BY DEF StopsFollow, ShutterFollows
<1>3. ReturnFollows /\ NothingYet /\ LossIsLogged
  BY DEF ReturnFollows, NothingYet, LossIsLogged
<1> QED
  BY <1>1, <1>2, <1>3 DEF IInv

\* One step per action; the steps of the shutter and of main disturb different
\* conjuncts, and a process that exits keeps them all.
LEMMA StepIInv == IInv /\ [Next]_vars => IInv'
<1> SUFFICES ASSUME IInv, [Next]_vars PROVE IInv'
  OBVIOUS
<1> USE DEF IInv, TypeOK, StopsFollow, ShutterFollows, ReturnFollows, NothingYet,
            LossIsLogged,
            FlagsOK, shutdown, metrics, Alive, Starting, MetricStages
<1>1. CASE SetUpMetrics
  <2>1. ASSUME NEW stage \in DOMAIN MetricStages, SetUp(stage) PROVE IInv'
    <3>1. FlagsOK'
      BY <2>1 DEF SetUp
    <3> QED
      BY <2>1, <3>1 DEF SetUp
  <2> QED
    BY <1>1, <2>1 DEF SetUpMetrics, Credentials, Exporter, Metadata, Resource
<1>18. CASE Load
  <2>1. slots' \in Int
    BY <1>18, SettingsAssumption DEF Load, GetEnvInt
  <2> QED
    BY <1>18, <2>1 DEF Load
<1>19. CASE Export
  BY <1>19 DEF Export
<1>2. CASE MakeHandler
  BY <1>2 DEF MakeHandler, NewHandler, Panic, Exit
<1>3. CASE Listen
  BY <1>3 DEF Listen, Return, ListenFails, Exit
<1>4. CASE ServerClosed
  BY <1>4 DEF ServerClosed, Return, Exit
<1>5. CASE ServerFails
  BY <1>5 DEF ServerFails, ListenFails, Exit
<1>6. CASE Flush
  BY <1>6 DEF Flush, ShutdownMetrics, How, Exit
<1>7. CASE Notify
  BY <1>7 DEF Notify
<1>8. CASE Wait
  BY <1>8 DEF Wait
<1>9. CASE Signal
  BY <1>9 DEF Signal, Deliver, Exit
<1>10. CASE Receive
  BY <1>10 DEF Receive
<1>11. CASE StopHandler
  BY <1>11 DEF StopHandler
<1>12. CASE CloseListeners
  BY <1>12 DEF CloseListeners
<1>13. CASE Expire
  BY <1>13 DEF Expire
<1>14. CASE ShutdownReturns
  BY <1>14 DEF ShutdownReturns
<1>15. ASSUME NEW r \in Requests, Arrive(r) PROVE IInv'
  BY <1>15 DEF Arrive
<1>16. ASSUME NEW r \in Requests, Answer(r) PROVE IInv'
  BY <1>16 DEF Answer
<1>17. CASE UNCHANGED vars
  BY <1>17 DEF vars
<1> QED
  BY <1>1, <1>2, <1>3, <1>4, <1>5, <1>6, <1>7, <1>8, <1>9, <1>10, <1>11, <1>12, <1>13,
     <1>14, <1>15, <1>16, <1>17, <1>18, <1>19 DEF Next, Main, Shutter

LEMMA Invariant == Spec => []IInv
BY InitIInv, StepIInv, PTL DEF Spec

\* Every variable keeps its type, and a process has a status when it is gone.
THEOREM TypeCorrect == Spec => []TypeOK
<1>1. IInv => TypeOK
  BY DEF IInv
<1> QED
  BY Invariant, <1>1, PTL

\* main.go:82 runs once: the limiter's channel is not closed a second time.
THEOREM HandlerStopsOnce == Spec => []StopsOnce
<1>1. IInv => StopsOnce
  BY DEF IInv, StopsFollow, StopsOnce
<1> QED
  BY Invariant, <1>1, PTL

\* Exit status 0 means that the server was asked to shut down and did.
THEOREM StatusIsHonest == Spec => []SuccessIsShutdown
<1>1. IInv => SuccessIsShutdown
  BY DEF IInv, ShutterFollows, ReturnFollows, SuccessIsShutdown
<1> QED
  BY Invariant, <1>1, PTL

\* The deferred flush is on every path to a successful end: a data point of a
\* request answered before the shutdown is lost only with an error in the log.
THEOREM LossesAreLogged == Spec => []LossIsLogged
<1>1. IInv => LossIsLogged
  BY DEF IInv
<1> QED
  BY Invariant, <1>1, PTL
=============================================================================
