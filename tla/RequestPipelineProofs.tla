----------------------- MODULE RequestPipelineProofs -----------------------
(***************************************************************************)
(* Proofs about RequestPipeline for any number of requests and slots, with *)
(* Metrics in the chain or not: its type invariant, that no path loses or  *)
(* duplicates a slot, that clients, Metrics and handlers agree on what a   *)
(* request was answered, and that Metrics reads whole attributes and       *)
(* counts a request as one of its operation.                               *)
(***************************************************************************)
EXTENDS RequestPipeline, FiniteSetTheorems, TLAPS

Holders == {r \in Requests : pc[r] \in Holding}

(***************************************************************************)
(* The type of every variable but sem: its bounds need SlotsConserved.     *)
(***************************************************************************)
Types ==
  /\ path \in [Requests -> Paths]
  /\ pc \in [Requests -> Holding \cup
       {"idle", "limit", "acquire", "recover", "measure", "record", "size", "done", "aborted"}]
  /\ h \in [Requests -> Running \cup {"none", "done", "panicked"}]
  /\ sem \in Int
  /\ stores \in [Requests -> 0..EnrichStores]
  /\ buffer \in [Requests -> HandlerStatus \cup {"none"}]
  /\ answer \in [Requests -> Status]
  /\ seen \in [Requests -> SUBSET Attributes]
  /\ label \in [Requests -> KnownOps \cup {Unknown, "none"}]
  /\ measured \in [Requests -> Status]

(***************************************************************************)
(* Where a request is in the chain says what its handler and its answer    *)
(* can be; the last conjuncts are what the chain's end owes.               *)
(***************************************************************************)
Progress(r) ==
  /\ pc[r] \in {"idle", "limit", "acquire"} => h[r] = "none"
  /\ pc[r] \in {"idle", "limit", "acquire", "wait", "unwinding", "recover"} => answer[r] = "none"
  /\ pc[r] \in {"wait", "returning"} => h[r] # "none"
  /\ pc[r] \in {"unwinding", "recover"} => h[r] = "panicked"
  /\ pc[r] = "returning" => answer[r] = "timeout" \/ (h[r] = "done" /\ answer[r] = buffer[r])

HandlerProgress(r) ==
  /\ h[r] \in {"none", "size", "read"} => stores[r] = 0
  /\ h[r] = "enrich" => stores[r] < EnrichStores
  /\ h[r] = "done" => buffer[r] \in HandlerStatus
  /\ h[r] # "done" => buffer[r] = "none"
  /\ buffer[r] = "toolarge" => stores[r] = 0
  /\ h[r] \in {"work", "done", "panicked"} => stores[r] \in {0, EnrichStores}
  /\ h[r] \in {"read", "enrich"} \/ stores[r] > 0 => IsUpload(path[r])

Outcome(r) ==
  /\ pc[r] \in Finished =>
       \/ answer[r] \in {"limited", "busy"} /\ h[r] = "none"
       \/ answer[r] = "timeout" /\ h[r] # "none"
       \/ h[r] = "done" /\ answer[r] = buffer[r]
       \/ h[r] = "panicked" /\ answer[r] = "panic"
  /\ pc[r] = "size" => measured[r] = answer[r]
  /\ pc[r] = "done" /\ Metered(r) => measured[r] = answer[r]

(***************************************************************************)
(* Metrics reads one attribute after the other.  What it has read is as    *)
(* far as it got of all or of none, once the handler has ended.            *)
(***************************************************************************)
Found(r, attributes) == seen[r] = IF stores[r] = EnrichStores THEN attributes ELSE {}

Counted(r) ==
  \A o \in KnownOps :
    label[r] = o <=> Len(path[r]) >= 2 /\ path[r][1] = "api" /\ path[r][2] = o

Reading(r) ==
  /\ pc[r] \notin {"record", "size", "done", "aborted"} => seen[r] = {}
  /\ answer[r] # "timeout" =>
       /\ pc[r] = "record" => Found(r, {"operation"})
       /\ pc[r] = "size" => Found(r, {"operation", "format"})
       /\ pc[r] = "done" => seen[r] \in {{}, Attributes}
  /\ pc[r] \in {"record", "size", "done"} /\ Metered(r) => Counted(r)

LeavesOthers(r) ==
  \A q \in Requests \ {r} :
    /\ pc'[q] = pc[q] /\ h'[q] = h[q] /\ stores'[q] = stores[q] /\ path'[q] = path[q]
    /\ buffer'[q] = buffer[q] /\ answer'[q] = answer[q] /\ measured'[q] = measured[q]
    /\ seen'[q] = seen[q] /\ label'[q] = label[q]

Holds(r) == Progress(r) /\ HandlerProgress(r) /\ Outcome(r) /\ Reading(r)

Inv == Types /\ \A r \in Requests : Holds(r)

(***************************************************************************)
(* The name an upload's handler gives and the one in its path are one, and *)
(* what is neither is counted as unknown.                                  *)
(***************************************************************************)
LEMMA UploadsAreNamed ==
  ASSUME NEW route \in Uploads
  PROVE  /\ Len(route.path) = 2
         /\ route.path[1] = "api" /\ route.path[2] \in KnownOps /\ Param \notin KnownOps \cup {"api"}
<1>1. \A a, b : Len(<<a, b>>) = 2 /\ <<a, b>>[1] = a /\ <<a, b>>[2] = b
  OBVIOUS
<1>2. \E o \in KnownOps : route.path = <<"api", o>>
  BY DEF Uploads, Route, KnownOps, ValidateSpec, ConvertSpec, FixSpec, DiffSpecs, JoinSpecs,
         ApplyOverlay, ExploreUpload
<1>3. Param \notin KnownOps \cup {"api"}
  BY DEF KnownOps, Param
<1> QED
  BY <1>1, <1>2, <1>3

LEMMA EnrichedName ==
  ASSUME NEW p, IsUpload(p)
  PROVE  /\ Len(p) = 2 /\ p[1] = "api" /\ p[2] \in KnownOps
         /\ EnrichedAs(p) = p[2]
<1> DEFINE route == CHOOSE r \in Uploads : Matches(r, p)
<1>1. route \in Uploads /\ Matches(route, p)
  BY DEF IsUpload
<1>2. Len(p) = 2 /\ 1 \in 1..Len(p) /\ 2 \in 1..Len(p)
  BY <1>1, UploadsAreNamed DEF Matches
<1>3. route.path[1] \in {p[1], Param} /\ route.path[2] \in {p[2], Param}
  BY <1>1, <1>2 DEF Matches
<1> HIDE DEF route
<1>4. route.path[1] = p[1] /\ route.path[2] = p[2] /\ p[1] = "api" /\ p[2] \in KnownOps
  BY <1>1, <1>3, UploadsAreNamed
<1>5. EnrichedAs(p) = route.path[2]
  BY DEF EnrichedAs, Named, route
<1> QED
  BY <1>2, <1>4, <1>5

(***************************************************************************)
(* A step of r keeps what is said of the other requests.                   *)
(***************************************************************************)
LEMMA Frame ==
  ASSUME Inv, NEW r \in Requests, Types',
         Holds(r)',
         LeavesOthers(r)
  PROVE  Inv'
<1> SUFFICES ASSUME NEW q \in Requests \ {r}
             PROVE  Holds(q)'
  BY DEF Inv
<1> QED
  BY DEF Inv, Holds, Progress, HandlerProgress, Outcome, Reading, Found, Counted, Metered, LeavesOthers

LEMMA InvInit == Init => Inv
BY DEF Init, Inv, Holds, Reading, Found, IsUpload, Types, Progress, HandlerProgress, Outcome, Holding, EnrichStores, Status,
       Attributes, HandlerStatus, Running, Finished

(***************************************************************************)
(* What a read of an attribute finds: all of it, none, or either.          *)
(***************************************************************************)
Noticed(r, attribute) ==
  /\ \E f \in BOOLEAN : seen' = [seen EXCEPT ![r] = IF f THEN @ \cup {attribute} ELSE @]
  /\ stores[r] = 0 => seen'[r] = seen[r]
  /\ stores[r] = EnrichStores => seen'[r] = seen[r] \cup {attribute}

LEMMA ReadNoticed ==
  ASSUME Types, NEW r \in Requests, NEW attribute, NEW n \in {2, 4}, ReadString(r, attribute, n)
  PROVE  Noticed(r, attribute)
<1>1. stores[r] \in 0..EnrichStores /\ seen \in [Requests -> SUBSET Attributes]
  BY DEF Types
<1>2. PICK f \in (IF Torn(r, n) THEN BOOLEAN ELSE {stores[r] >= n}) :
        seen' = [seen EXCEPT ![r] = IF f THEN @ \cup {attribute} ELSE @]
  BY DEF ReadString, Notice
<1>3. /\ f \in BOOLEAN
      /\ stores[r] = 0 => ~f
      /\ stores[r] = EnrichStores => f
  <2>1. CASE Torn(r, n)
    <3>1. stores[r] = n - 1 /\ f \in BOOLEAN
      BY <1>2, <2>1 DEF Torn
    <3> QED
      BY <3>1 DEF EnrichStores
  <2>2. CASE ~Torn(r, n)
    <3>1. f = (stores[r] >= n)
      BY <1>2, <2>2
    <3>2. CASE stores[r] >= n
      <4>1. f = TRUE
        BY <3>1, <3>2
      <4> QED
        BY <1>1, <3>2, <4>1 DEF EnrichStores
    <3>3. CASE ~(stores[r] >= n)
      <4>1. (stores[r] >= n) = FALSE
        BY <3>3
      <4>2. f = FALSE
        BY <3>1, <4>1, Zenon
      <4>3. stores[r] # EnrichStores
        BY <3>3 DEF EnrichStores
      <4> QED
        BY <4>2, <4>3
    <3> QED
      BY <3>2, <3>3
  <2> QED
    BY <2>1, <2>2
<1> QED
  BY <1>1, <1>2, <1>3 DEF Noticed

LEMMA SizeNoticed ==
  ASSUME Types, NEW r \in Requests, Notice(r, "size", {stores[r] >= EnrichStores})
  PROVE  Noticed(r, "size")
<1>1. stores[r] \in 0..EnrichStores /\ seen \in [Requests -> SUBSET Attributes]
  BY DEF Types
<1> DEFINE f == stores[r] >= EnrichStores
<1>2. seen' = [seen EXCEPT ![r] = IF f THEN @ \cup {"size"} ELSE @]
  BY DEF Notice
<1>3. /\ f \in BOOLEAN
      /\ stores[r] = 0 => ~f
      /\ stores[r] = EnrichStores => f
  BY <1>1 DEF EnrichStores
<1> HIDE DEF f
<1> QED
  BY <1>1, <1>2, <1>3 DEF Noticed

LEMMA WholeOrNone ==
  ASSUME Types, NEW r \in Requests, Holds(r),
         pc[r] \in {"measure", "record", "size"}, answer[r] # "timeout"
  PROVE  stores[r] \in {0, EnrichStores} /\ EnrichStores # 0
<1>1. h[r] \in {"none", "done", "panicked"}
  BY DEF Holds, Outcome, Finished
<1> QED
  BY <1>1 DEF Holds, HandlerProgress, EnrichStores

LEMMA InvChain ==
  ASSUME Inv, NEW r \in Requests, Chain(r) \/ Arrive(r)
  PROVE  Inv'
<1> USE DEF Types, Status, HandlerStatus, Goto, WriteHeader, Outside, Holding
<1> DEFINE Here == Types' /\ Holds(r)'
<1> USE DEF Holds
<1>0. Types /\ Holds(r)
  BY DEF Inv
<1> SUFFICES Here /\ LeavesOthers(r)
  BY Frame
<1> USE DEF Progress, HandlerProgress, Outcome, Reading, Counted, Found, Finished, Metered,
        LeavesOthers
<1>1. CASE Arrive(r)
  BY <1>0, <1>1 DEF Arrive
<1>2. CASE RateLimit(r)
  <2>1. CASE Goto(r, "acquire") /\ UNCHANGED answer
    BY <1>0, <1>2, <2>1 DEF RateLimit
  <2>2. CASE WriteHeader(r, "limited") /\ Goto(r, Outside(r))
    BY <1>0, <1>2, <2>2 DEF RateLimit
  <2> QED
    BY <1>2, <2>1, <2>2 DEF RateLimit
<1>3. CASE Acquire(r)
  BY <1>0, <1>3 DEF Acquire, Running
<1>4. CASE Refuse(r)
  BY <1>0, <1>4 DEF Refuse
<1>5. CASE TakeAnswer(r)
  BY <1>0, <1>5 DEF TakeAnswer
<1>6. CASE TakePanic(r)
  BY <1>0, <1>6 DEF TakePanic
<1>7. CASE Cut(r)
  BY <1>0, <1>7 DEF Cut
<1>8. CASE Release(r)
  BY <1>0, <1>8 DEF Release
<1>9. CASE Recover(r)
  BY <1>0, <1>9 DEF Recover
<1>10. CASE MeasureOperation(r)
  <2>1. pc[r] = "measure" /\ seen[r] = {} /\ ReadString(r, "operation", 2)
    BY <1>0, <1>10 DEF MeasureOperation
  <2>2. Noticed(r, "operation")
    BY <1>0, <2>1, ReadNoticed
  <2>3. "operation" \in seen'[r] => IsUpload(path[r])
    BY <1>0, <2>1, <2>2 DEF Noticed
  <2>4. label'[r] \in KnownOps \cup {Unknown} /\ Counted(r)'
    <3> DEFINE l == IF "operation" \in seen'[r] THEN EnrichedAs(path[r])
                    ELSE OperationFromPath(path[r])
    <3>1. label'[r] = l /\ path' = path
      BY <1>0, <1>10 DEF MeasureOperation
    <3>2. CASE "operation" \in seen'[r]
      BY <2>3, <3>1, <3>2, EnrichedName
    <3>3. CASE "operation" \notin seen'[r]
      <4>1. Unknown \notin KnownOps
        BY DEF Unknown, KnownOps
      <4>2. label'[r] = OperationFromPath(path[r])
        BY <3>1, <3>3
      <4> QED
        BY <3>1, <4>1, <4>2 DEF OperationFromPath, Under
    <3> QED
      BY <3>2, <3>3
  <2>5. Types'
    BY <1>0, <1>10, <2>2, <2>4 DEF MeasureOperation, Noticed, Attributes
  <2>6. answer[r] # "timeout" => Found(r, {"operation"})'
    BY <1>0, <1>10, <2>1, <2>2, WholeOrNone DEF MeasureOperation, Noticed
  <2>7. Holds(r)'
    BY <1>0, <1>10, <2>4, <2>6 DEF MeasureOperation
  <2>8. LeavesOthers(r)
    BY <1>0, <1>10, <2>2 DEF MeasureOperation, Noticed
  <2> QED
    BY <2>5, <2>7, <2>8
<1>11. CASE Record(r)
  <2>1. pc[r] = "record" /\ ReadString(r, "format", 4)
    BY <1>11 DEF Record
  <2>2. Noticed(r, "format")
    BY <1>0, <2>1, ReadNoticed
  <2>3. answer[r] # "timeout" => Found(r, {"operation", "format"})'
    BY <1>0, <1>11, <2>1, <2>2, WholeOrNone DEF Record, Noticed
  <2>4. Types'
    BY <1>0, <1>11, <2>2 DEF Record, Noticed, Attributes
  <2>5. Holds(r)'
    BY <1>0, <1>11, <2>3 DEF Record
  <2>6. LeavesOthers(r)
    BY <1>0, <1>11, <2>2 DEF Record, Noticed
  <2> QED
    BY <2>4, <2>5, <2>6
<1>12. CASE Fault(r)
  BY <1>0, <1>12 DEF Fault
<1>13. CASE MeasureSize(r)
  <2>1. pc[r] = "size" /\ Notice(r, "size", {stores[r] >= EnrichStores})
    BY <1>13 DEF MeasureSize
  <2>2. Noticed(r, "size")
    BY <1>0, <2>1, SizeNoticed
  <2>3. answer[r] # "timeout" => seen'[r] \in {{}, Attributes}
    BY <1>0, <2>1, <2>2, WholeOrNone DEF Noticed, Attributes
  <2>4. Types'
    BY <1>0, <1>13, <2>2 DEF MeasureSize, Noticed, Attributes
  <2>5. Holds(r)'
    BY <1>0, <1>13, <2>3 DEF MeasureSize
  <2>6. LeavesOthers(r)
    BY <1>0, <1>13, <2>2 DEF MeasureSize, Noticed
  <2> QED
    BY <2>4, <2>5, <2>6
<1> QED
  BY <1>1, <1>2, <1>3, <1>4, <1>5, <1>6, <1>7, <1>8, <1>9, <1>10, <1>11, <1>12, <1>13 DEF Chain

LEMMA InvHandling ==
  ASSUME Inv, NEW r \in Requests, Handling(r)
  PROVE  Inv'
<1> DEFINE Here == Types' /\ Holds(r)'
<1> USE DEF Holds
<1>0. Types /\ Holds(r)
  BY DEF Inv
<1> SUFFICES Here /\ LeavesOthers(r)
  BY Frame
<1> USE DEF Types, EnrichStores, HandlerStatus, Running, HandlerGoto, Reply,
        Progress, HandlerProgress, Outcome, Reading, Counted, Found, Finished, Metered, LeavesOthers
<1>1. CASE SizeLimit(r)
  <2>1. CASE Reply(r, "toolarge")
    BY <1>0, <1>1, <2>1 DEF SizeLimit
  <2>2. CASE HandlerGoto(r, "read") /\ UNCHANGED buffer
    BY <1>0, <1>1, <2>2 DEF SizeLimit
  <2>3. CASE HandlerGoto(r, "work") /\ UNCHANGED buffer
    BY <1>0, <1>1, <2>3 DEF SizeLimit
  <2> QED
    BY <1>1, <2>1, <2>2, <2>3 DEF SizeLimit
<1>2. CASE ReadInput(r)
  <2>1. CASE Reply(r, "failed")
    BY <1>0, <1>2, <2>1 DEF ReadInput
  <2>2. CASE HandlerGoto(r, "enrich") /\ UNCHANGED buffer
    BY <1>0, <1>2, <2>2 DEF ReadInput
  <2>3. CASE HandlerGoto(r, "work") /\ UNCHANGED buffer
    BY <1>0, <1>2, <2>3 DEF ReadInput
  <2> QED
    BY <1>2, <2>1, <2>2, <2>3 DEF ReadInput
<1>3. CASE Enrich(r)
  <2>1. CASE stores[r] + 1 = EnrichStores
    BY <1>0, <1>3, <2>1 DEF Enrich
  <2>2. CASE stores[r] + 1 # EnrichStores
    BY <1>0, <1>3, <2>2 DEF Enrich
  <2> QED
    BY <2>1, <2>2
<1>4. CASE Work(r)
  BY <1>0, <1>4 DEF Work
<1>5. CASE HandlerPanic(r)
  BY <1>0, <1>5 DEF HandlerPanic
<1> QED
  BY <1>1, <1>2, <1>3, <1>4, <1>5 DEF Handling

(***************************************************************************)
(* Everything but the slots is invariant by itself.                        *)
(***************************************************************************)
LEMMA InvHolds == Spec => []Inv
<1>1. Inv /\ [Next]_vars => Inv'
  <2> SUFFICES ASSUME Inv, [Next]_vars
               PROVE  Inv'
    OBVIOUS
  <2>1. CASE Next
    BY <2>1, InvChain, InvHandling DEF Next
  <2>2. CASE UNCHANGED vars
    BY <2>2 DEF vars, Inv, Types, Holds, Progress, HandlerProgress, Outcome, Reading, Counted,
                Found, Metered
  <2> QED
    BY <2>1, <2>2
<1> QED
  BY <1>1, InvInit, PTL DEF Spec

(***************************************************************************)
(* FinishedIsAnswered: no request leaves the chain without the answer its  *)
(* handler, a limiter, the deadline or Recovery owes it.                   *)
(***************************************************************************)
THEOREM EveryEndIsAnswered == Spec => []FinishedIsAnswered
<1>1. Inv => FinishedIsAnswered
  BY DEF Inv, Holds, Outcome, FinishedIsAnswered
<1> QED
  BY <1>1, InvHolds, PTL

(***************************************************************************)
(* RefusedDoesNoWork: what a limiter refuses never reaches a handler, and  *)
(* an oversized request ends before its handler reads anything.            *)
(***************************************************************************)
THEOREM RefusalIsFree == Spec => []RefusedDoesNoWork
<1>1. Inv => RefusedDoesNoWork
  <2> SUFFICES ASSUME Inv, NEW r \in Requests
               PROVE  /\ answer[r] \in {"limited", "busy"} => h[r] = "none"
                      /\ answer[r] = "toolarge" => stores[r] = 0 /\ h[r] = "done"
    BY DEF RefusedDoesNoWork
  <2> QED
    BY DEF Inv, Holds, Types, Progress, HandlerProgress, Outcome, Finished, Holding, HandlerStatus
<1> QED
  BY <1>1, InvHolds, PTL

(***************************************************************************)
(* MeasuredAsAnswered: the status Metrics records is the client's.         *)
(***************************************************************************)
THEOREM MetricsAgree == Spec => []MeasuredAsAnswered
<1>1. Inv => MeasuredAsAnswered
  BY DEF Inv, Holds, Outcome, MeasuredAsAnswered
<1> QED
  BY <1>1, InvHolds, PTL

(***************************************************************************)
(* MeasuredWhole: what Metrics reads is whole unless the deadline cut the  *)
(* handler off.                                                            *)
(***************************************************************************)
THEOREM MetricsReadWhole == Spec => []MeasuredWhole
<1>1. Inv => MeasuredWhole
  BY DEF Inv, Holds, Reading, MeasuredWhole
<1> QED
  BY <1>1, InvHolds, PTL

(***************************************************************************)
(* CountedAsItsOperation: the name a request is counted under is the one   *)
(* in its path, whoever gave it.                                           *)
(***************************************************************************)
THEOREM MetricsCountOperations == Spec => []CountedAsItsOperation
<1>1. Inv => CountedAsItsOperation
  BY DEF Inv, Holds, Reading, Counted, CountedAsItsOperation
<1> QED
  BY <1>1, InvHolds, PTL

-----------------------------------------------------------------------------
(***************************************************************************)
(* The slots.                                                              *)
(***************************************************************************)
LEMMA SlotsStep ==
  ASSUME Types, SlotsConserved, NEW r \in Requests, Chain(r) \/ Arrive(r) \/ Handling(r)
  PROVE  SlotsConserved'
<1> USE PipelineAssumption
<1>1. IsFiniteSet(Holders) /\ Cardinality(Holders) \in Nat
  <2>1. Holders \in SUBSET Requests
    BY DEF Holders
  <2> QED
    BY <2>1, FS_Subset, FS_CardinalityType
<1>2. ASSUME Holders' = Holders, sem' = sem
      PROVE  SlotsConserved'
  BY <1>2 DEF SlotsConserved, Holders
<1>3. CASE Acquire(r)
  <2>1. Holders' = Holders \cup {r} /\ r \notin Holders
    BY <1>3 DEF Acquire, Goto, Holders, Holding, Types
  <2>2. Cardinality(Holders') = Cardinality(Holders) + 1
    BY <1>1, <2>1, FS_AddElement
  <2> QED
    BY <1>1, <1>3, <2>2 DEF Acquire, SlotsConserved, Holders, Types
<1>4. CASE Release(r)
  <2>1. Holders' = Holders \ {r} /\ r \in Holders
    BY <1>4 DEF Release, Goto, Outside, Holders, Holding, Types
  <2>2. Cardinality(Holders') = Cardinality(Holders) - 1
    BY <1>1, <2>1, FS_RemoveElement
  <2> QED
    BY <1>1, <1>4, <2>2 DEF Release, SlotsConserved, Holders, Types
<1>5. CASE Arrive(r) \/ RateLimit(r) \/ Refuse(r) \/ Recover(r)
           \/ MeasureOperation(r) \/ Record(r) \/ Fault(r) \/ MeasureSize(r)
  <2>1. \E l \in {"limit", "acquire", "measure", "record", "size", "done", "aborted"} :
          pc' = [pc EXCEPT ![r] = l] /\ pc[r] \notin Holding /\ sem' = sem
    BY <1>5 DEF Arrive, RateLimit, Refuse, Recover, MeasureOperation, Record, Fault, MeasureSize,
                Goto, Outside, Holding
  <2>2. Holders' = Holders
    BY <2>1 DEF Holders, Holding, Types
  <2> QED
    BY <1>2, <2>1, <2>2
<1>6. CASE TakeAnswer(r) \/ TakePanic(r) \/ Cut(r)
  <2>1. \E l \in {"returning", "unwinding"} :
          pc' = [pc EXCEPT ![r] = l] /\ pc[r] \in Holding /\ sem' = sem
    BY <1>6 DEF TakeAnswer, TakePanic, Cut, Goto, Holding
  <2>2. Holders' = Holders
    BY <2>1 DEF Holders, Holding, Types
  <2> QED
    BY <1>2, <2>1, <2>2
<1>7. CASE Handling(r)
  <2>1. pc' = pc /\ sem' = sem
    BY <1>7 DEF Handling, SizeLimit, ReadInput, Enrich, Work, HandlerPanic
  <2> QED
    BY <1>2, <2>1 DEF Holders
<1> QED
  BY <1>3, <1>4, <1>5, <1>6, <1>7 DEF Chain

(***************************************************************************)
(* SlotsConserved: the semaphore's length is the number of requests inside *)
(* the limiter, so no path, by panic, timeout or refusal, leaks a slot.    *)
(***************************************************************************)
THEOREM SlotsNeverLeak == Spec => []SlotsConserved
<1>1. Init => SlotsConserved
  <2> SUFFICES ASSUME Init
               PROVE  SlotsConserved
    OBVIOUS
  <2>1. {r \in Requests : pc[r] \in Holding} = {}
    BY DEF Init, Holding
  <2>2. sem = 0 /\ MaxConcurrent \in Nat
    BY PipelineAssumption DEF Init
  <2> QED
    BY <2>1, <2>2, FS_EmptySet DEF SlotsConserved
<1>2. Inv /\ SlotsConserved /\ [Next]_vars => SlotsConserved'
  <2>1. ASSUME Inv, SlotsConserved, Next
        PROVE  SlotsConserved'
    BY <2>1, SlotsStep DEF Next, Inv
  <2>2. ASSUME SlotsConserved, UNCHANGED vars
        PROVE  SlotsConserved'
    BY <2>2 DEF vars, SlotsConserved
  <2> QED
    BY <2>1, <2>2
<1> QED
  BY <1>1, <1>2, InvHolds, PTL DEF Spec

(***************************************************************************)
(* TypeOK, with sem in its bounds.                                         *)
(***************************************************************************)
THEOREM TypeCorrect == Spec => []TypeOK
<1>1. Inv /\ SlotsConserved => TypeOK
  <2> SUFFICES ASSUME Inv, SlotsConserved
               PROVE  TypeOK
    OBVIOUS
  <2>1. Holders \in SUBSET Requests
    BY DEF Holders
  <2>2. sem \in Nat
    BY <2>1, PipelineAssumption, FS_Subset, FS_CardinalityType DEF SlotsConserved, Holders
  <2> QED
    BY <2>2, PipelineAssumption DEF Inv, Types, TypeOK, SlotsConserved
<1> QED
  BY <1>1, InvHolds, SlotsNeverLeak, PTL
=============================================================================
