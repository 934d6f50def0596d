------------------------- MODULE RateLimiterProofs -------------------------
(***************************************************************************)
(* The rate limiter is never stricter than its rate, for every number of   *)
(* clients and of requests in the middleware, and whatever the cleaner     *)
(* drops while they use it.                                                *)
(*                                                                         *)
(* What has to be seen is that a request and the map only ever refer to a  *)
(* visitor of the right IP (Referring): then every token an IP is charged  *)
(* for is a token of a visitor of that IP, and the bucket that pays for    *)
(* all of them (allowance) is never ahead of any one visitor.  A request   *)
(* that makes a visitor finds a name for it because every object that is   *)
(* kept is referred to (NoGarbage) and the request refers to none.         *)
(***************************************************************************)
EXTENDS RateLimiter, FiniteSetTheorems, TLAPS

Referring ==
  /\ \A i \in Ips :
       visitors[i] # NoVisitor => visitors[i] \in DOMAIN objects /\ objects[visitors[i]].ip = i
  /\ \A p \in Procs :
       IF pc[p] \in {"touch", "allow"}
         THEN ref[p] \in DOMAIN objects /\ objects[ref[p]].ip = ip[p]
         ELSE ref[p] = NoVisitor

NoGarbage == DOMAIN objects \subseteq Referenced(visitors, ref)

IInv == TypeOK /\ Referring /\ NoGarbage

NeverAhead == (\A i \in Ips : allowance[i] <= Burst) /\ NeverStricterThanRate

-----------------------------------------------------------------------------
\* A function takes no more values than it has arguments.
LEMMA ImageBound ==
  ASSUME NEW S, IsFiniteSet(S), NEW f, f \in [S -> {f[x] : x \in S}]
  PROVE  LET T == {f[x] : x \in S}
         IN  IsFiniteSet(T) /\ Cardinality(T) <= Cardinality(S)
<1> DEFINE T == {f[x] : x \in S}
<1>1. f \in Surjection(S, T)
  BY DEF Surjection
<1> QED
  BY <1>1, FS_Surjection

\* A request that is to make a visitor has a name for it.
LEMMA NameIsFree ==
  ASSUME IInv, NEW p \in Procs, pc[p] = "create"
  PROVE  FreeId \in Ids /\ FreeId \notin DOMAIN objects
<1> USE LimiterAssumption DEF IInv
<1> DEFINE V == {visitors[i] : i \in Ips}
           R == {ref[q] : q \in Procs}
           n == Cardinality(Ips) + Cardinality(Procs)
<1>1. IsFiniteSet(V) /\ Cardinality(V) <= Cardinality(Ips)
  <2>1. visitors \in [Ips -> V]
    BY DEF TypeOK
  <2> QED
    BY <2>1, ImageBound
<1>2. IsFiniteSet(R) /\ Cardinality(R) <= Cardinality(Procs)
  <2>1. ref \in [Procs -> R]
    BY DEF TypeOK
  <2> QED
    BY <2>1, ImageBound
<1>3. NoVisitor \in V \cup R
  BY DEF Referring
<1>4. DOMAIN objects \subseteq (V \cup R) \ {NoVisitor}
  BY DEF TypeOK, NoGarbage, Referenced, Ids
<1> HIDE DEF V, R
<1>5. /\ Cardinality(Ips) \in Nat /\ Cardinality(Procs) \in Nat
      /\ Cardinality(V) \in Nat /\ Cardinality(R) \in Nat /\ Cardinality(V \cap R) \in Nat
  BY <1>1, <1>2, FS_CardinalityType, FS_Intersection
<1>6. IsFiniteSet(V \cup R) /\ Cardinality(V \cup R) <= n /\ Cardinality(V \cup R) \in Nat
  <2>1. /\ IsFiniteSet(V \cup R)
        /\ Cardinality(V \cup R) = Cardinality(V) + Cardinality(R) - Cardinality(V \cap R)
    BY <1>1, <1>2, FS_Union
  <2>2. Cardinality(V \cup R) \in Nat
    BY <2>1, FS_CardinalityType
  <2> QED
    BY <1>1, <1>2, <1>5, <2>1, <2>2
<1>7. /\ IsFiniteSet((V \cup R) \ {NoVisitor})
      /\ Cardinality((V \cup R) \ {NoVisitor}) = Cardinality(V \cup R) - 1
  BY <1>3, <1>6, FS_RemoveElement
<1>8. Cardinality(DOMAIN objects) <= Cardinality((V \cup R) \ {NoVisitor})
  BY <1>4, <1>7, FS_Subset
<1>9. Cardinality(DOMAIN objects) \in Nat
  BY <1>4, <1>7, FS_Subset, FS_CardinalityType
<1>10. Cardinality(Ids) = n
  BY <1>5, FS_Interval DEF Ids
<1>11. DOMAIN objects # Ids
  BY <1>5, <1>6, <1>7, <1>8, <1>9, <1>10
<1>12. \E o : o \in Ids \ DOMAIN objects
  BY <1>11 DEF TypeOK
<1> QED
  BY <1>12 DEF FreeId

\* What is collected is what nobody refers to.
LEMMA CollectedEffect ==
  \A heap, map, holders :
    Collected(heap, map, holders) = [o \in DOMAIN heap \cap Referenced(map, holders) |-> heap[o]]
BY DEF Collected, Restrict

LEMMA ReferencedMeans ==
  \A o, map, holders :
    o \in Referenced(map, holders) <=>
      (\E i \in Ips : map[i] = o) \/ (\E p \in Procs : holders[p] = o)
BY DEF Referenced

-----------------------------------------------------------------------------
LEMMA AnIpIsOne == AnIp \in Ips
BY LimiterAssumption DEF AnIp

LEMMA InitIInv == Init => IInv
<1> SUFFICES ASSUME Init PROVE IInv
  OBVIOUS
<1>1. DOMAIN objects = {} /\ objects \in [DOMAIN objects -> Visitor]
  BY DEF Init
<1>2. TypeOK
  <2>1. 0 \in 0..MaxTime /\ Burst \in Int
    BY LimiterAssumption
  <2>2. /\ now \in 0..MaxTime /\ visitors \in [Ips -> Ids \cup {NoVisitor}]
        /\ pc \in [Procs -> {"idle", "load", "create", "touch", "allow"}]
    BY <2>1 DEF Init
  <2>3. ip \in [Procs -> Ips] /\ stamp \in [Procs -> 0..MaxTime] /\ ref \in [Procs -> Ids \cup {NoVisitor}]
    BY <2>1, AnIpIsOne DEF Init
  <2>4. allowance \in [Ips -> Int] /\ cutoff \in Int /\ doomed \in Ips /\ todo \subseteq Ips
    BY <2>1, AnIpIsOne DEF Init
  <2> QED
    BY <1>1, <2>2, <2>3, <2>4 DEF Init, TypeOK
<1> QED
  BY <1>1, <1>2 DEF Init, IInv, Referring, NoGarbage

LEMMA LoadStep == ASSUME IInv, NEW p \in Procs, Load(p) PROVE IInv'
<1>1. TypeOK'
  BY DEF Load, Goto, IInv, TypeOK, cleaning
<1>2. Referring'
  BY DEF Load, Goto, IInv, TypeOK, Referring
<1>3. NoGarbage'
  <2>1. visitors' = visitors /\ objects' = objects /\ NoVisitor \notin Ids
    BY LimiterAssumption DEF Load, Ids
  <2>2. \A q \in Procs : ref[q] # NoVisitor => ref'[q] = ref[q]
    BY DEF Load, IInv, TypeOK, Referring
  <2> QED
    BY <2>1, <2>2, ReferencedMeans DEF IInv, TypeOK, NoGarbage
<1> QED
  BY <1>1, <1>2, <1>3 DEF IInv

LEMMA CreateStep == ASSUME IInv, NEW p \in Procs, Create(p) PROVE IInv'
<1>0. pc[p] = "create" /\ ip[p] \in Ips /\ ref[p] = NoVisitor
  BY DEF Create, IInv, TypeOK, Referring
<1>1. CASE visitors[ip[p]] # NoVisitor
  <2>1. ref' = [ref EXCEPT ![p] = visitors[ip[p]]] /\ UNCHANGED <<visitors, objects>>
    BY <1>1 DEF Create
  <2>2. TypeOK'
    BY <1>0, <2>1 DEF Create, Goto, IInv, TypeOK, cleaning
  <2>3. Referring'
    BY <1>0, <1>1, <2>1 DEF Create, Goto, IInv, TypeOK, Referring
  <2>4. NoGarbage'
    <3>1. NoVisitor \notin Ids
      BY LimiterAssumption DEF Ids
    <3>2. \A q \in Procs : ref[q] # NoVisitor => ref'[q] = ref[q]
      BY <1>0, <2>1 DEF IInv, TypeOK
    <3> QED
      <4>1. /\ DOMAIN objects \subseteq Ids /\ DOMAIN objects \subseteq Referenced(visitors, ref)
            /\ objects' = objects /\ visitors' = visitors
        BY <2>1 DEF IInv, TypeOK, NoGarbage
      <4> QED
        BY <3>1, <3>2, <4>1, ReferencedMeans DEF NoGarbage
  <2> QED
    BY <2>2, <2>3, <2>4 DEF IInv
<1>2. CASE visitors[ip[p]] = NoVisitor
  <2> DEFINE o == FreeId
  <2>1. o \in Ids /\ o \notin DOMAIN objects /\ o # NoVisitor
    BY <1>0, NameIsFree, LimiterAssumption DEF Ids
  <2>2. /\ visitors' = [visitors EXCEPT ![ip[p]] = o] /\ ref' = [ref EXCEPT ![p] = o]
        /\ objects' = [q \in DOMAIN objects \cup {o} |-> IF q = o THEN Fresh(p) ELSE objects[q]]
        /\ pc' = [pc EXCEPT ![p] = "touch"] /\ UNCHANGED <<now, ip, stamp, cleaning, allowance>>
    BY <1>2 DEF Create, Goto
  <2> HIDE DEF o
  <2>3. Fresh(p) \in Visitor /\ Fresh(p).ip = ip[p]
    BY LimiterAssumption DEF Fresh, Visitor, IInv, TypeOK
  <2>4. TypeOK'
    BY <1>0, <2>1, <2>2, <2>3 DEF IInv, TypeOK, cleaning
  <2>5. Referring'
    BY <1>0, <2>1, <2>2, <2>3 DEF IInv, TypeOK, Referring
  <2>6. NoGarbage'
    <3>1. NoVisitor \notin Ids
      BY LimiterAssumption DEF Ids
    <3>2. /\ \A q \in Procs : ref[q] # NoVisitor => ref'[q] = ref[q]
          /\ \A i \in Ips : visitors[i] # NoVisitor => visitors'[i] = visitors[i]
          /\ ref'[p] = o
      BY <1>0, <1>2, <2>2 DEF IInv, TypeOK
    <3>3. DOMAIN objects' = DOMAIN objects \cup {o}
      BY <2>2
    <3> QED
      BY <3>1, <3>2, <3>3, ReferencedMeans DEF IInv, TypeOK, NoGarbage
  <2> QED
    BY <2>4, <2>5, <2>6 DEF IInv
<1> QED
  BY <1>1, <1>2

LEMMA TouchStep == ASSUME IInv, NEW p \in Procs, Touch(p) PROVE IInv'
<1>1. ref[p] \in DOMAIN objects /\ stamp[p] \in 0..MaxTime
  BY DEF Touch, IInv, TypeOK, Referring
<1>2. /\ DOMAIN objects' = DOMAIN objects
      /\ \A o \in DOMAIN objects : objects'[o].ip = objects[o].ip
      /\ objects' \in [DOMAIN objects -> Visitor]
  BY <1>1 DEF Touch, IInv, TypeOK, Visitor
<1>3. TypeOK'
  BY <1>2 DEF Touch, Goto, IInv, TypeOK, cleaning
<1>4. Referring'
  BY <1>2 DEF Touch, Goto, IInv, TypeOK, Referring
<1> QED
  BY <1>2, <1>3, <1>4 DEF Touch, IInv, NoGarbage, Referenced

LEMMA AllowStep == ASSUME IInv, NEW p \in Procs, Allow(p) PROVE IInv'
<1> DEFINE charge == IF objects[ref[p]].tokens > 0 THEN 1 ELSE 0
           spent == [objects EXCEPT ![ref[p]].tokens = @ - charge]
<1>1. pc[p] = "allow" /\ ref[p] \in DOMAIN objects
  BY DEF Allow, IInv, TypeOK, Referring
<1>2. /\ ref' = [ref EXCEPT ![p] = NoVisitor] /\ UNCHANGED <<now, visitors, cleaning>>
      /\ pc' = [pc EXCEPT ![p] = "idle"]
      /\ ip' = [ip EXCEPT ![p] = AnIp] /\ stamp' = [stamp EXCEPT ![p] = 0]
      /\ objects' = Collected(spent, visitors', ref')
      /\ allowance' = [allowance EXCEPT ![ip[p]] = @ - charge]
  BY DEF Allow, Goto
<1>3. /\ DOMAIN spent = DOMAIN objects /\ spent \in [DOMAIN objects -> Visitor]
      /\ \A o \in DOMAIN objects : spent[o].ip = objects[o].ip
  BY <1>1, LimiterAssumption DEF IInv, TypeOK, Visitor
<1> HIDE DEF spent
<1>4. /\ DOMAIN objects' = DOMAIN objects \cap Referenced(visitors', ref')
      /\ objects' \in [DOMAIN objects' -> Visitor]
      /\ \A o \in DOMAIN objects' : objects'[o].ip = objects[o].ip
  <2>1. objects' = [o \in DOMAIN objects \cap Referenced(visitors', ref') |-> spent[o]]
    BY <1>2, <1>3, CollectedEffect
  <2> QED
    BY <1>3, <2>1
<1>5. TypeOK'
  <2>1. allowance' \in [Ips -> Int]
    <3>1. charge \in Int
      OBVIOUS
    <3> QED
      BY <1>2, <3>1 DEF IInv, TypeOK
  <2> HIDE DEF charge
  <2>2. /\ pc' \in [Procs -> {"idle", "load", "create", "touch", "allow"}]
        /\ ip' \in [Procs -> Ips] /\ stamp' \in [Procs -> 0..MaxTime]
        /\ ref' \in [Procs -> Ids \cup {NoVisitor}]
    BY <1>2, AnIpIsOne, LimiterAssumption DEF IInv, TypeOK
  <2>3. DOMAIN objects' \subseteq Ids
    BY <1>4 DEF IInv, TypeOK
  <2> QED
    BY <1>2, <1>4, <2>1, <2>2, <2>3 DEF IInv, TypeOK, cleaning
<1>6. Referring'
  BY <1>2, <1>4, ReferencedMeans, LimiterAssumption DEF IInv, TypeOK, Referring, Ids
<1> QED
  BY <1>4, <1>5, <1>6 DEF IInv, NoGarbage

LEMMA DeleteStep == ASSUME IInv, DeleteVisitor PROVE IInv'
<1>1. /\ visitors' = [visitors EXCEPT ![doomed] = NoVisitor]
      /\ UNCHANGED <<now, request, tick, cutoff, todo, done, allowance>>
      /\ cleaner' = "range" /\ doomed' = AnIp /\ doomed \in Ips
      /\ objects' = Collected(objects, visitors', ref')
  BY DEF DeleteVisitor, request, IInv, TypeOK
<1>2. /\ DOMAIN objects' = DOMAIN objects \cap Referenced(visitors', ref')
      /\ objects' = [o \in DOMAIN objects' |-> objects[o]]
  <2>1. objects' = [o \in DOMAIN objects \cap Referenced(visitors', ref') |-> objects[o]]
    BY <1>1, CollectedEffect
  <2> QED
    BY <2>1
<1>3. TypeOK'
  BY <1>1, <1>2, AnIpIsOne DEF IInv, TypeOK, request
<1>4. Referring'
  <2>1. ref' = ref /\ pc' = pc /\ ip' = ip
    BY <1>1 DEF request
  <2>2. \A i \in Ips : visitors'[i] # NoVisitor => visitors'[i] = visitors[i]
    BY <1>1 DEF IInv, TypeOK
  <2> QED
    BY <1>2, <2>1, <2>2, ReferencedMeans DEF IInv, TypeOK, Referring
<1> QED
  BY <1>2, <1>3, <1>4 DEF IInv, NoGarbage

LEMMA AdvanceStep == ASSUME IInv, Advance PROVE IInv'
<1>1. /\ DOMAIN objects' = DOMAIN objects
      /\ \A o \in DOMAIN objects : objects'[o].ip = objects[o].ip
      /\ objects' \in [DOMAIN objects -> Visitor]
  BY LimiterAssumption DEF Advance, Least, IInv, TypeOK, Visitor
<1>2. allowance' \in [Ips -> Int]
  BY LimiterAssumption DEF Advance, Least, IInv, TypeOK
<1>3. TypeOK'
  BY <1>1, <1>2, LimiterAssumption DEF Advance, IInv, TypeOK, request
<1> QED
  BY <1>1, <1>3 DEF Advance, IInv, Referring, NoGarbage, Referenced, request

LEMMA Step == IInv /\ [Next]_vars => IInv'
<1> SUFFICES ASSUME IInv, [Next]_vars PROVE IInv'
  OBVIOUS
<1> USE LimiterAssumption
<1>same. ASSUME UNCHANGED <<visitors, objects, pc, ip, ref>>, TypeOK' PROVE IInv'
  BY <1>same DEF IInv, Referring, NoGarbage, Referenced
<1>1. ASSUME NEW p \in Procs, Enter(p) PROVE IInv'
  BY <1>1 DEF Enter, Goto, IInv, TypeOK, Referring, NoGarbage, Referenced, cleaning
<1>2. CASE StartRange
  <2>1. cutoff' \in Int
    BY <1>2 DEF StartRange, IInv, TypeOK
  <2>2. TypeOK'
    BY <1>2, <2>1 DEF StartRange, IInv, TypeOK, request
  <2> QED
    BY <1>2, <2>2, <1>same DEF StartRange, request
<1>3. ASSUME NEW i \in Ips, Visit(i) PROVE IInv'
  BY <1>3, <1>same DEF Visit, IInv, TypeOK, request
<1>4. CASE EndRange \/ Exit \/ Stop \/ UNCHANGED vars
  <2>1. TypeOK'
    <3>0. TypeOK
      BY DEF IInv
    <3>1. CASE EndRange
      BY <3>0, <3>1 DEF EndRange, TypeOK, request
    <3>2. CASE Exit
      BY <3>0, <3>2 DEF Exit, TypeOK, request
    <3>3. CASE Stop
      BY <3>0, <3>3 DEF Stop, TypeOK, request
    <3>4. CASE UNCHANGED vars
      BY <3>0, <3>4 DEF vars, TypeOK, request, cleaning
    <3> QED
      BY <1>4, <3>1, <3>2, <3>3, <3>4
  <2>2. UNCHANGED <<visitors, objects, pc, ip, ref>>
    BY <1>4 DEF EndRange, Exit, Stop, vars, request
  <2> QED
    BY <2>1, <2>2, <1>same
<1> QED
  BY <1>1, <1>2, <1>3, <1>4, LoadStep, CreateStep, TouchStep, AllowStep, DeleteStep, AdvanceStep
  DEF Next, Request, Cleaning

LEMMA Invariant == Spec => []IInv
BY InitIInv, Step, PTL DEF Spec

\* Every variable keeps its type: there is always a name for a new visitor, a
\* bucket has between none and Burst tokens, and no request uses a visitor that
\* was thrown away.
THEOREM TypeCorrect == Spec => []TypeOK
<1>1. IInv => TypeOK
  BY DEF IInv
<1> QED
  BY <1>1, Invariant, PTL

-----------------------------------------------------------------------------
LEMMA NeverAheadInit == Init => NeverAhead
BY LimiterAssumption DEF Init, NeverAhead, NeverStricterThanRate

LEMMA NeverAheadStep == IInv /\ NeverAhead /\ [Next]_vars => NeverAhead'
<1> SUFFICES ASSUME IInv, NeverAhead, [Next]_vars PROVE NeverAhead'
  OBVIOUS
<1> USE LimiterAssumption
<1>0. /\ \A i \in Ips : allowance[i] \in Int /\ allowance[i] <= Burst
      /\ \A o \in DOMAIN objects :
           /\ objects[o] \in Visitor /\ objects[o].ip \in Ips
           /\ allowance[objects[o].ip] <= objects[o].tokens
  BY DEF IInv, TypeOK, Visitor, NeverAhead, NeverStricterThanRate
<1>same. ASSUME UNCHANGED <<objects, allowance>> PROVE NeverAhead'
  BY <1>same DEF NeverAhead, NeverStricterThanRate
<1>1. ASSUME NEW p \in Procs, Create(p) PROVE NeverAhead'
  <2>1. CASE visitors[ip[p]] # NoVisitor
    BY <1>1, <2>1, <1>same DEF Create
  <2>2. CASE visitors[ip[p]] = NoVisitor
    <3> DEFINE o == FreeId
    <3>1. /\ objects' = [q \in DOMAIN objects \cup {o} |-> IF q = o THEN Fresh(p) ELSE objects[q]]
          /\ allowance' = allowance
      BY <1>1, <2>2 DEF Create
    <3> HIDE DEF o
    <3>2. Fresh(p).tokens = Burst /\ Fresh(p).ip \in Ips
      BY DEF Fresh, IInv, TypeOK
    <3> QED
      BY <1>0, <3>1, <3>2 DEF NeverAhead, NeverStricterThanRate
  <2> QED
    BY <2>1, <2>2
<1>2. ASSUME NEW p \in Procs, Touch(p) PROVE NeverAhead'
  <2>1. /\ DOMAIN objects' = DOMAIN objects /\ allowance' = allowance
        /\ \A o \in DOMAIN objects :
             objects'[o].ip = objects[o].ip /\ objects'[o].tokens = objects[o].tokens
    BY <1>0, <1>2 DEF Touch, Visitor
  <2> QED
    BY <1>0, <2>1 DEF NeverAhead, NeverStricterThanRate
<1>3. ASSUME NEW p \in Procs, Allow(p) PROVE NeverAhead'
  <2> DEFINE charge == IF objects[ref[p]].tokens > 0 THEN 1 ELSE 0
             spent == [objects EXCEPT ![ref[p]].tokens = @ - charge]
  <2>1. /\ ref[p] \in DOMAIN objects /\ objects[ref[p]].ip = ip[p] /\ ip[p] \in Ips
    BY <1>3 DEF Allow, IInv, TypeOK, Referring
  <2>2. /\ objects' = Collected(spent, visitors', ref')
        /\ allowance' = [allowance EXCEPT ![ip[p]] = @ - charge]
    BY <1>3 DEF Allow
  <2>3. charge \in {0, 1}
    OBVIOUS
  <2>4. /\ DOMAIN spent = DOMAIN objects
        /\ \A o \in DOMAIN objects :
             /\ spent[o].ip = objects[o].ip
             /\ spent[o].tokens = IF o = ref[p] THEN objects[o].tokens - charge ELSE objects[o].tokens
    BY <1>0, <2>1 DEF Visitor
  <2> HIDE DEF charge, spent
  <2>5. DOMAIN objects' \subseteq DOMAIN objects /\ \A o \in DOMAIN objects' : objects'[o] = spent[o]
    <3>1. objects' = [o \in DOMAIN spent \cap Referenced(visitors', ref') |-> spent[o]]
      BY <2>2, CollectedEffect
    <3> QED
      BY <2>4, <3>1
  <2>6. \A i \in Ips : allowance'[i] = IF i = ip[p] THEN allowance[i] - charge ELSE allowance[i]
    BY <2>1, <2>2 DEF IInv, TypeOK
  <2>7. \A i \in Ips : allowance'[i] <= Burst
    BY <1>0, <2>3, <2>6
  <2>8. ASSUME NEW o \in DOMAIN objects' PROVE allowance'[objects'[o].ip] <= objects'[o].tokens
    <3>1. objects[o].tokens \in Int
      BY <1>0, <2>5 DEF Visitor
    <3> QED
      BY <1>0, <2>1, <2>3, <2>4, <2>5, <2>6, <3>1
  <2> QED
    BY <2>7, <2>8 DEF NeverAhead, NeverStricterThanRate
<1>4. CASE DeleteVisitor
  <2>1. objects' = Collected(objects, visitors', ref) /\ allowance' = allowance
    BY <1>4 DEF DeleteVisitor
  <2>2. DOMAIN objects' \subseteq DOMAIN objects /\ \A o \in DOMAIN objects' : objects'[o] = objects[o]
    <3>1. objects' = [o \in DOMAIN objects \cap Referenced(visitors', ref) |-> objects[o]]
      BY <2>1, CollectedEffect
    <3> QED
      BY <3>1
  <2> QED
    BY <1>0, <2>1, <2>2 DEF NeverAhead, NeverStricterThanRate
<1>5. CASE Advance
  <2>1. /\ DOMAIN objects' = DOMAIN objects
        /\ \A o \in DOMAIN objects :
             /\ objects'[o].ip = objects[o].ip
             /\ objects'[o].tokens = Least(Burst, objects[o].tokens + Refill)
    BY <1>0, <1>5 DEF Advance, Visitor
  <2>2. \A i \in Ips : allowance'[i] = Least(Burst, allowance[i] + Refill)
    BY <1>5 DEF Advance
  <2>3. \A o \in DOMAIN objects : objects[o].tokens \in Int
    BY <1>0 DEF Visitor
  <2> QED
    BY <1>0, <2>1, <2>2, <2>3 DEF NeverAhead, NeverStricterThanRate, Least
<1>6. CASE UNCHANGED vars
  BY <1>6, <1>same DEF vars
<1>7. ASSUME NEW p \in Procs, Enter(p) \/ Load(p) PROVE NeverAhead'
  BY <1>7, <1>same DEF Enter, Load
<1>8. ASSUME StartRange \/ EndRange \/ Exit \/ Stop \/ (\E i \in Ips : Visit(i)) PROVE NeverAhead'
  BY <1>8, <1>same DEF StartRange, EndRange, Exit, Stop, Visit
<1> QED
  BY <1>1, <1>2, <1>3, <1>4, <1>5, <1>6, <1>7, <1>8 DEF Next, Request, Cleaning

\* A client within its rate is never refused, whatever the cleaner drops and
\* however many requests of however many clients are in the middleware.
THEOREM NeverStricter == Spec => []NeverStricterThanRate
<1>1. NeverAhead => NeverStricterThanRate
  BY DEF NeverAhead
<1> QED
  BY <1>1, Invariant, NeverAheadInit, NeverAheadStep, PTL DEF Spec

-----------------------------------------------------------------------------
(***************************************************************************)
(* What an eviction forgives.  A stray is a request that holds a visitor   *)
(* the map has no more.  An IP without a visitor has strays of one visitor *)
(* only, which is level with the ideal bucket (Orphaned); a new visitor is *)
(* ahead of it by a burst and by what the strays may still take (Excess).  *)
(* While nobody comes the ideal bucket fills up (Rested), all strays are   *)
(* gone (Behind, InTime), and so a visitor that is found stale is level    *)
(* again (DoomedIsSettled), also if it is used until it is deleted.        *)
(***************************************************************************)
N == Cardinality(Procs)
Most == Burst + N - 1

Using(p) == pc[p] \in {"touch", "allow"}
Strays(i) == {p \in Procs : Using(p) /\ ip[p] = i /\ ref[p] # visitors[i]}

\* Ticks since the last request of a visitor, and those it overlapped, are over.
Rest(i) == now - objects[visitors[i]].lastSeen - 2 * MaxDelay

InTime == \A p \in Procs : pc[p] # "idle" => stamp[p] <= now /\ now <= stamp[p] + MaxDelay

CutoffIsPast == cleaner \in {"range", "delete"} => cutoff <= now - IdleLimit

Behind ==
  \A p \in Procs :
    /\ Using(p) /\ visitors[ip[p]] # NoVisitor
    /\ ref[p] # visitors[ip[p]] \/ pc[p] = "allow"
    => stamp[p] <= objects[visitors[ip[p]]].lastSeen + MaxDelay

Orphaned ==
  \A i \in Ips : visitors[i] = NoVisitor =>
    /\ allowance[i] >= 0
    /\ \A p, q \in Strays(i) : ref[p] = ref[q] /\ objects[ref[p]].tokens = allowance[i]

Excess ==
  \A i \in Ips : visitors[i] # NoVisitor =>
    allowance[i] >= objects[visitors[i]].tokens - Most + Cardinality(Strays(i))

Rested ==
  \A i \in Ips : visitors[i] # NoVisitor =>
    allowance[i] >= Least(Burst, Refill * Rest(i) - Most)

Settled(i) ==
  visitors[i] # NoVisitor /\ Strays(i) = {} /\ objects[visitors[i]].tokens = allowance[i]

DoomedIsSettled == cleaner = "delete" => Settled(doomed)

Forgiving ==
  InTime /\ CutoffIsPast /\ Behind /\ Orphaned /\ Excess /\ Rested /\ DoomedIsSettled

\* What IInv says of the places the proof looks at.
Places ==
  /\ now \in Int /\ cutoff \in Int /\ doomed \in Ips
  /\ \A i \in Ips :
       /\ allowance[i] \in Int
       /\ visitors[i] # NoVisitor => visitors[i] \in DOMAIN objects /\ objects[visitors[i]].ip = i
  /\ \A p \in Procs :
       /\ ip[p] \in Ips /\ stamp[p] \in Int
       /\ Using(p) => ref[p] \in DOMAIN objects /\ objects[ref[p]].ip = ip[p]
  /\ \A o \in DOMAIN objects :
       /\ objects[o].tokens \in Nat /\ objects[o].tokens <= Burst
       /\ objects[o].lastSeen \in Int /\ objects[o].ip \in Ips
  /\ NoVisitor \notin DOMAIN objects

LEMMA PlacesHold == IInv => Places
BY LimiterAssumption DEF IInv, TypeOK, Referring, Places, Visitor, Using, Ids

LEMMA PlacesHoldNext == IInv' => Places'
BY LimiterAssumption DEF IInv, TypeOK, Referring, Places, Visitor, Using, Ids

LEMMA NumbersAreInts == N \in Nat /\ Most \in Nat /\ Burst \in Nat /\ Refill \in Nat /\ MaxDelay \in Nat
BY LimiterAssumption, FS_CardinalityType DEF N, Most

LEMMA StraysCount ==
  ASSUME NEW S, S \subseteq Procs
  PROVE  IsFiniteSet(S) /\ Cardinality(S) \in Nat /\ Cardinality(S) <= N
BY LimiterAssumption, FS_Subset, FS_CardinalityType DEF N

LEMMA FewerStrays ==
  ASSUME NEW S, S \subseteq Procs, NEW T, T \subseteq S
  PROVE  Cardinality(T) \in Nat /\ Cardinality(S) \in Nat /\ Cardinality(T) <= Cardinality(S)
BY StraysCount, FS_Subset, FS_CardinalityType

LEMMA OneStrayLess ==
  ASSUME NEW S, S \subseteq Procs, NEW p \in S
  PROVE  Cardinality(S \ {p}) = Cardinality(S) - 1
BY StraysCount, FS_RemoveElement

\* Refills of a longer rest are more, and none are had before the rest begins.
LEMMA MoreRest ==
  ASSUME NEW x \in Int, NEW y \in Int, x <= y
  PROVE  Refill * x \in Int /\ Refill * y \in Int /\ Refill * x <= Refill * y
BY NumbersAreInts

LEMMA NoRest ==
  ASSUME NEW x \in Int, x <= 0
  PROVE  Refill * x \in Int /\ Refill * x <= 0
BY NumbersAreInts

LEMMA OneMoreTick ==
  ASSUME NEW x \in Int
  PROVE  Refill * (x + 1) = Refill * x + Refill /\ Refill * x \in Int
BY NumbersAreInts

LEMMA IdleIsLong == 2 * MaxDelay <= IdleLimit
<1> SUFFICES ASSUME IdleLimit + 1 - 2 * MaxDelay <= 0 PROVE FALSE
  BY LimiterAssumption
<1>1. IdleLimit + 1 - 2 * MaxDelay \in Int
  BY LimiterAssumption
<1> QED
  BY <1>1, NoRest, IdleRefills, NumbersAreInts, LimiterAssumption DEF N

LEMMA ForgivingInit == Init => Forgiving
<1> SUFFICES ASSUME Init PROVE Forgiving
  OBVIOUS
<1>1. \A i \in Ips : Strays(i) = {} /\ visitors[i] = NoVisitor /\ allowance[i] = Burst
  BY DEF Init, Strays, Using
<1> QED
  BY <1>1, NumbersAreInts
  DEF Init, Forgiving, InTime, CutoffIsPast, Behind, Orphaned, Excess, Rested, DoomedIsSettled, Using

\* A request goes on and touches nothing but itself: it is no stray before or after.
LEMMA QuietStep ==
  ASSUME IInv, Forgiving, NEW p \in Procs,
         UNCHANGED <<now, visitors, objects, allowance, cleaner, cutoff, doomed>>,
         \A q \in Procs \ {p} :
           pc'[q] = pc[q] /\ ip'[q] = ip[q] /\ stamp'[q] = stamp[q] /\ ref'[q] = ref[q],
         ~Using(p), pc'[p] # "idle", pc'[p] # "allow",
         pc'[p] = "touch" => ref'[p] = visitors[ip'[p]],
         stamp'[p] <= now, now <= stamp'[p] + MaxDelay
  PROVE  Forgiving'
<1>1. \A i \in Ips : Strays(i)' = Strays(i)
  BY DEF Strays, Using
<1>2. InTime'
  BY DEF Forgiving, InTime
<1>3. Behind'
  BY DEF Forgiving, Behind, Using
<1>4. \A i \in Ips : \A q \in Strays(i) : q # p /\ ref'[q] = ref[q]
  BY DEF Strays
<1>5. Orphaned'
  BY <1>1, <1>4 DEF Forgiving, Orphaned
<1>6. Excess' /\ DoomedIsSettled'
  BY <1>1 DEF Forgiving, Excess, DoomedIsSettled, Settled, IInv, TypeOK
<1>7. Rested' /\ CutoffIsPast'
  BY DEF Forgiving, Rested, Rest, CutoffIsPast
<1> QED
  BY <1>2, <1>3, <1>5, <1>6, <1>7 DEF Forgiving

LEMMA EnterLoadForgiving ==
  ASSUME IInv, Forgiving, NEW p \in Procs, Enter(p) \/ Load(p)
  PROVE  Forgiving'
<1> USE PlacesHold DEF IInv
<1>1. UNCHANGED <<now, visitors, objects, allowance, cleaner, cutoff, doomed>>
  BY DEF Enter, Load, cleaning
<1>2. \A q \in Procs \ {p} :
        pc'[q] = pc[q] /\ ip'[q] = ip[q] /\ stamp'[q] = stamp[q] /\ ref'[q] = ref[q]
  BY DEF Enter, Load, Goto, TypeOK
<1>3. ~Using(p) /\ pc'[p] # "idle" /\ pc'[p] # "allow"
  BY DEF Enter, Load, Goto, TypeOK, Using
<1>4. pc'[p] = "touch" => ref'[p] = visitors[ip'[p]]
  BY DEF Enter, Load, Goto, TypeOK
<1>5. stamp'[p] <= now /\ now <= stamp'[p] + MaxDelay
  BY NumbersAreInts DEF Enter, Load, TypeOK, Forgiving, InTime, Places
<1> QED
  BY <1>1, <1>2, <1>3, <1>4, <1>5, QuietStep

LEMMA CreateForgiving ==
  ASSUME IInv, IInv', Forgiving, NEW p \in Procs, Create(p)
  PROVE  Forgiving'
<1> USE NumbersAreInts
<1>0. Places /\ Places'
  BY PlacesHold, PlacesHoldNext
<1>1. /\ pc[p] = "create" /\ pc' = [pc EXCEPT ![p] = "touch"]
      /\ UNCHANGED <<now, ip, stamp, cleaner, cutoff, doomed, allowance>>
  BY DEF Create, Goto, cleaning
<1>2. \A q \in Procs \ {p} :
        pc'[q] = pc[q] /\ ip'[q] = ip[q] /\ stamp'[q] = stamp[q] /\ ref'[q] = ref[q]
  BY <1>1 DEF Create, IInv, TypeOK
<1>3. pc'[p] = "touch" /\ stamp[p] <= now /\ now <= stamp[p] + MaxDelay
  BY <1>1 DEF IInv, TypeOK, Forgiving, InTime
<1>4. CASE visitors[ip[p]] # NoVisitor
  <2>1. UNCHANGED <<visitors, objects>> /\ ref'[p] = visitors[ip[p]]
    BY <1>4 DEF Create, IInv, TypeOK
  <2> QED
    BY <1>1, <1>2, <1>3, <2>1, QuietStep DEF Using
<1>5. CASE visitors[ip[p]] = NoVisitor
  <2> DEFINE o == FreeId
  <2>1. o \in Ids /\ o \notin DOMAIN objects
    BY <1>1, NameIsFree
  <2>2. /\ visitors' = [visitors EXCEPT ![ip[p]] = o] /\ ref' = [ref EXCEPT ![p] = o]
        /\ objects' = [q \in DOMAIN objects \cup {o} |-> IF q = o THEN Fresh(p) ELSE objects[q]]
    BY <1>5 DEF Create
  <2> HIDE DEF o
  <2>3. /\ visitors'[ip[p]] = o /\ ref'[p] = o
        /\ \A i \in Ips \ {ip[p]} : visitors'[i] = visitors[i]
    BY <1>0, <2>2 DEF IInv, TypeOK, Places
  <2>4. objects'[o].tokens = Burst /\ objects'[o].lastSeen = stamp[p]
    BY <2>2 DEF Fresh
  <2>5. \A q \in DOMAIN objects : objects'[q] = objects[q]
    BY <2>1, <2>2
  <2>6. \A i \in Ips \ {ip[p]} : Strays(i)' = Strays(i)
    BY <1>1, <1>2, <2>3 DEF Strays, Using
  <2>7. \A i \in Ips : i = ip[p] => Strays(i)' \subseteq Procs \ {p}
    BY <1>1, <2>3 DEF Strays
  <2>8. InTime'
    BY <1>1, <1>2, <1>3 DEF Forgiving, InTime
  <2>9. CutoffIsPast'
    BY <1>1 DEF Forgiving, CutoffIsPast
  <2>10. Behind'
    <3> SUFFICES ASSUME NEW q \in Procs, Using(q)', visitors'[ip'[q]] # NoVisitor,
                        ref'[q] # visitors'[ip'[q]] \/ pc'[q] = "allow"
                 PROVE  stamp'[q] <= objects'[visitors'[ip'[q]]].lastSeen + MaxDelay
      BY DEF Behind
    <3>1. q # p
      BY <1>1, <1>3, <2>3
    <3>2. CASE ip[q] = ip[p]
      <4>1. stamp[q] <= now
        BY <1>2, <3>1 DEF Forgiving, InTime, Using
      <4> QED
        BY <1>0, <1>1, <1>2, <1>3, <2>3, <2>4, <3>1, <3>2, <4>1 DEF Places
    <3>3. CASE ip[q] # ip[p]
      <4>1. visitors'[ip'[q]] = visitors[ip[q]] /\ visitors[ip[q]] \in DOMAIN objects
        BY <1>0, <1>2, <2>3, <3>1, <3>3 DEF Places
      <4> QED
        BY <1>2, <2>5, <3>1, <4>1 DEF Forgiving, Behind, Using
    <3> QED
      BY <3>2, <3>3
  <2>11. Orphaned'
    <3> SUFFICES ASSUME NEW i \in Ips, visitors'[i] = NoVisitor
                 PROVE  /\ allowance'[i] >= 0
                        /\ \A q, r \in Strays(i)' :
                             ref'[q] = ref'[r] /\ objects'[ref'[q]].tokens = allowance'[i]
      BY DEF Orphaned
    <3>1. i # ip[p]
      BY <1>0, <2>2, <2>3 DEF Places
    <3>2. \A q \in Strays(i) : q # p /\ ref[q] \in DOMAIN objects
      BY <1>0, <1>1 DEF Strays, Using, Places
    <3> QED
      BY <1>1, <1>2, <2>3, <2>5, <2>6, <3>1, <3>2 DEF Forgiving, Orphaned, Strays
  <2>12. Excess'
    <3> SUFFICES ASSUME NEW i \in Ips, visitors'[i] # NoVisitor
                 PROVE  allowance'[i] >= objects'[visitors'[i]].tokens - Most + Cardinality(Strays(i)')
      BY DEF Excess
    <3>1. CASE i = ip[p]
      <4>1. allowance[i] >= 0
        BY <1>5, <3>1 DEF Forgiving, Orphaned
      <4>2. Cardinality(Procs \ {p}) = N - 1
        BY OneStrayLess DEF N
      <4>3. Cardinality(Strays(i)') \in Nat /\ Cardinality(Strays(i)') <= N - 1
        BY <2>7, <3>1, <4>2, FewerStrays
      <4> QED
        BY <1>0, <1>1, <2>3, <2>4, <3>1, <4>1, <4>3 DEF Most, Places
    <3>2. CASE i # ip[p]
      BY <1>0, <1>1, <2>3, <2>5, <2>6, <3>2 DEF Forgiving, Excess, Places
    <3> QED
      BY <3>1, <3>2
  <2>13. Rested'
    <3> SUFFICES ASSUME NEW i \in Ips, visitors'[i] # NoVisitor
                 PROVE  allowance'[i] >= Least(Burst, Refill * Rest(i)' - Most)
      BY DEF Rested
    <3>1. CASE i = ip[p]
      <4>1. Rest(i)' \in Int /\ Rest(i)' <= 0
        BY <1>0, <1>1, <1>3, <2>3, <2>4, <3>1 DEF Rest, Places
      <4>2. allowance[i] >= 0
        BY <1>5, <3>1 DEF Forgiving, Orphaned
      <4> QED
        BY <1>0, <1>1, <4>1, <4>2, NoRest DEF Least, Places
    <3>2. CASE i # ip[p]
      <4>1. Rest(i)' = Rest(i) /\ visitors[i] # NoVisitor
        BY <1>0, <1>1, <2>3, <2>5, <3>2 DEF Rest, Places
      <4> QED
        BY <1>1, <4>1 DEF Forgiving, Rested
    <3> QED
      BY <3>1, <3>2
  <2>14. DoomedIsSettled'
    BY <1>0, <1>1, <1>5, <2>3, <2>5, <2>6 DEF Forgiving, DoomedIsSettled, Settled, Places
  <2> QED
    BY <2>8, <2>9, <2>10, <2>11, <2>12, <2>13, <2>14 DEF Forgiving
<1> QED
  BY <1>4, <1>5

LEMMA TouchForgiving ==
  ASSUME IInv, IInv', Forgiving, NEW p \in Procs, Touch(p)
  PROVE  Forgiving'
<1> USE NumbersAreInts
<1>0. Places /\ Places'
  BY PlacesHold, PlacesHoldNext
<1>1. /\ pc[p] = "touch" /\ pc' = [pc EXCEPT ![p] = "allow"]
      /\ UNCHANGED <<now, visitors, ip, stamp, ref, cleaner, cutoff, doomed, allowance>>
  BY DEF Touch, Goto, cleaning
<1>2. \A q \in Procs : q # p => pc'[q] = pc[q]
  BY <1>1 DEF IInv, TypeOK
<1>3. /\ Using(p) /\ pc'[p] = "allow" /\ ref[p] \in DOMAIN objects /\ objects[ref[p]].ip = ip[p]
      /\ stamp[p] <= now /\ now <= stamp[p] + MaxDelay
  BY <1>0, <1>1 DEF IInv, TypeOK, Forgiving, InTime, Using, Places
<1>4. /\ DOMAIN objects' = DOMAIN objects
      /\ \A o \in DOMAIN objects :
           /\ objects'[o].tokens = objects[o].tokens
           /\ objects'[o].lastSeen = IF o = ref[p] THEN stamp[p] ELSE objects[o].lastSeen
  <2>1. \A o \in DOMAIN objects : objects[o] \in Visitor
    BY DEF IInv, TypeOK
  <2> QED
    BY <1>3, <2>1 DEF Touch, Visitor
<1>5. \A i \in Ips : Strays(i)' = Strays(i)
  BY <1>1, <1>2, <1>3 DEF Strays, Using
<1>6. InTime' /\ CutoffIsPast'
  BY <1>1, <1>2, <1>3 DEF Forgiving, InTime, CutoffIsPast
<1>7. Behind'
  <2> SUFFICES ASSUME NEW q \in Procs, Using(q)', visitors[ip[q]] # NoVisitor,
                      ref[q] # visitors[ip[q]] \/ pc'[q] = "allow"
               PROVE  stamp[q] <= objects'[visitors[ip[q]]].lastSeen + MaxDelay
    BY <1>1 DEF Behind
  <2>1. stamp[q] <= now /\ stamp[q] \in Int
    BY <1>0, <1>2, <1>3 DEF Forgiving, InTime, Using, Places
  <2>2. visitors[ip[q]] \in DOMAIN objects
    BY <1>0 DEF Places
  <2>3. CASE visitors[ip[q]] = ref[p]
    BY <1>0, <1>3, <1>4, <2>1, <2>3 DEF Places
  <2>4. CASE visitors[ip[q]] # ref[p]
    <3>1. Using(q) /\ (ref[q] # visitors[ip[q]] \/ pc[q] = "allow")
      BY <1>2, <1>3, <2>4 DEF Using
    <3> QED
      BY <1>4, <2>2, <2>4, <3>1 DEF Forgiving, Behind
  <2> QED
    BY <2>3, <2>4
<1>8. Orphaned'
  <2>1. \A i \in Ips : \A q \in Strays(i) : ref[q] \in DOMAIN objects
    BY <1>0 DEF Strays, Places
  <2> QED
    BY <1>1, <1>4, <1>5, <2>1 DEF Forgiving, Orphaned
<1>9. Excess' /\ DoomedIsSettled'
  BY <1>0, <1>1, <1>4, <1>5 DEF Forgiving, Excess, DoomedIsSettled, Settled, Places
<1>10. Rested'
  <2> SUFFICES ASSUME NEW i \in Ips, visitors[i] # NoVisitor
               PROVE  allowance[i] >= Least(Burst, Refill * Rest(i)' - Most)
    BY <1>1 DEF Rested
  <2>0. visitors[i] \in DOMAIN objects
    BY <1>0 DEF Places
  <2>1. CASE visitors[i] = ref[p]
    <3>1. Rest(i)' \in Int /\ Rest(i)' <= 0
      BY <1>0, <1>1, <1>3, <1>4, <2>0, <2>1 DEF Rest, Places
    <3>2. Cardinality(Strays(i)) \in Nat
      BY StraysCount DEF Strays
    <3>3. allowance[i] >= -Most
      BY <1>0, <2>0, <3>2 DEF Forgiving, Excess, Places
    <3> QED
      BY <1>0, <3>1, <3>3, NoRest DEF Least, Places
  <2>2. CASE visitors[i] # ref[p]
    BY <1>1, <1>4, <2>0, <2>2 DEF Forgiving, Rested, Rest
  <2> QED
    BY <2>1, <2>2
<1> QED
  BY <1>6, <1>7, <1>8, <1>9, <1>10 DEF Forgiving

LEMMA AllowForgiving ==
  ASSUME IInv, IInv', Forgiving, NEW p \in Procs, Allow(p)
  PROVE  Forgiving'
<1> USE NumbersAreInts
<1> DEFINE charge == IF objects[ref[p]].tokens > 0 THEN 1 ELSE 0
           spent == [objects EXCEPT ![ref[p]].tokens = @ - charge]
<1>0. Places /\ Places'
  BY PlacesHold, PlacesHoldNext
<1>1. /\ pc[p] = "allow" /\ pc' = [pc EXCEPT ![p] = "idle"]
      /\ objects' = Collected(spent, visitors', ref')
      /\ allowance' = [allowance EXCEPT ![ip[p]] = @ - charge]
      /\ UNCHANGED <<now, visitors, cleaner, cutoff, doomed>>
  BY DEF Allow, Goto, cleaning
<1>2. /\ pc'[p] = "idle"
      /\ \A q \in Procs : q # p =>
           pc'[q] = pc[q] /\ ip'[q] = ip[q] /\ stamp'[q] = stamp[q] /\ ref'[q] = ref[q]
  BY DEF Allow, Goto, IInv, TypeOK
<1>3. /\ Using(p) /\ ref[p] \in DOMAIN objects /\ objects[ref[p]].ip = ip[p] /\ ip[p] \in Ips
      /\ stamp[p] <= now /\ now <= stamp[p] + MaxDelay
  BY <1>0, <1>1 DEF Forgiving, InTime, Using, Places
<1>4. charge \in {0, 1} /\ charge <= objects[ref[p]].tokens
  BY <1>0, <1>3 DEF Places
<1>5. \A o \in DOMAIN objects' :
        /\ o \in DOMAIN objects
        /\ objects'[o].lastSeen = objects[o].lastSeen
        /\ objects'[o].tokens = IF o = ref[p] THEN objects[o].tokens - charge ELSE objects[o].tokens
  <2>1. \A o \in DOMAIN objects : objects[o] \in Visitor
    BY DEF IInv, TypeOK
  <2>2. /\ DOMAIN spent = DOMAIN objects
        /\ \A o \in DOMAIN objects :
             /\ spent[o].lastSeen = objects[o].lastSeen
             /\ spent[o].tokens = IF o = ref[p] THEN objects[o].tokens - charge ELSE objects[o].tokens
    BY <1>3, <2>1 DEF Visitor
  <2>3. objects' = [o \in DOMAIN spent \cap Referenced(visitors', ref') |-> spent[o]]
    BY <1>1, CollectedEffect
  <2> HIDE DEF charge, spent
  <2> QED
    BY <2>2, <2>3
<1>6. \A i \in Ips : allowance'[i] = IF i = ip[p] THEN allowance[i] - charge ELSE allowance[i]
  BY <1>1 DEF IInv, TypeOK
<1> HIDE DEF charge, spent
<1>7. \A i \in Ips : Strays(i)' = Strays(i) \ {p}
  BY <1>1, <1>2 DEF Strays, Using
<1>8. InTime' /\ CutoffIsPast'
  BY <1>1, <1>2 DEF Forgiving, InTime, CutoffIsPast
<1>9. Behind'
  <2> SUFFICES ASSUME NEW q \in Procs, Using(q)', visitors[ip'[q]] # NoVisitor,
                      ref'[q] # visitors[ip'[q]] \/ pc'[q] = "allow"
               PROVE  stamp'[q] <= objects'[visitors[ip'[q]]].lastSeen + MaxDelay
    BY <1>1 DEF Behind
  <2>1. q # p
    BY <1>2 DEF Using
  <2>2. visitors[ip'[q]] \in DOMAIN objects'
    BY <1>0, <1>1 DEF Places
  <2> QED
    BY <1>2, <1>5, <2>1, <2>2 DEF Forgiving, Behind, Using
<1>10. Orphaned'
  <2> SUFFICES ASSUME NEW i \in Ips, visitors[i] = NoVisitor
               PROVE  /\ allowance'[i] >= 0
                      /\ \A q, r \in Strays(i)' :
                           ref'[q] = ref'[r] /\ objects'[ref'[q]].tokens = allowance'[i]
    BY <1>1 DEF Orphaned
  <2>1. /\ allowance[i] >= 0
        /\ \A q, r \in Strays(i) : ref[q] = ref[r] /\ objects[ref[q]].tokens = allowance[i]
    BY DEF Forgiving, Orphaned
  <2>2. \A q \in Strays(i)' :
          /\ q \in Strays(i) /\ q # p /\ ref'[q] = ref[q] /\ ref[q] \in DOMAIN objects'
          /\ objects[ref[q]].ip = i
    <3>1. \A q \in Strays(i)' : q \in Strays(i) /\ q \in Procs /\ q # p /\ Using(q)' /\ Using(q) /\ ip[q] = i
      BY <1>7 DEF Strays
    <3> QED
      BY <1>0, <1>2, <3>1 DEF Places
  <2>3. CASE i = ip[p]
    <3>1. p \in Strays(i)
      BY <1>0, <1>3, <2>3 DEF Strays, Places
    <3> QED
      BY <1>0, <1>4, <1>5, <1>6, <2>1, <2>2, <2>3, <3>1 DEF Places
  <2>4. CASE i # ip[p]
    BY <1>3, <1>5, <1>6, <2>1, <2>2, <2>4
  <2> QED
    BY <2>3, <2>4
<1>11. Excess'
  <2> SUFFICES ASSUME NEW i \in Ips, visitors[i] # NoVisitor
               PROVE  allowance'[i] >= objects'[visitors[i]].tokens - Most + Cardinality(Strays(i)')
    BY <1>1 DEF Excess
  <2>0. /\ visitors[i] \in DOMAIN objects /\ visitors[i] \in DOMAIN objects'
        /\ objects[visitors[i]].ip = i
    BY <1>0, <1>1 DEF Places
  <2>1. allowance[i] >= objects[visitors[i]].tokens - Most + Cardinality(Strays(i))
    BY DEF Forgiving, Excess
  <2>2. /\ Cardinality(Strays(i)) \in Nat /\ Cardinality(Strays(i) \ {p}) \in Nat
        /\ Cardinality(Strays(i) \ {p}) <= Cardinality(Strays(i))
    BY FewerStrays DEF Strays
  <2> DEFINE before == Cardinality(Strays(i))
             after == Cardinality(Strays(i)')
             had == objects[visitors[i]].tokens
             has == objects'[visitors[i]].tokens
  <2>3. after = Cardinality(Strays(i) \ {p})
    BY <1>7
  <2>4. /\ before \in Nat /\ after \in Nat /\ after <= before
        /\ had \in Nat /\ has = IF visitors[i] = ref[p] THEN had - charge ELSE had
        /\ allowance[i] \in Int
        /\ allowance'[i] = IF i = ip[p] THEN allowance[i] - charge ELSE allowance[i]
    BY <1>0, <1>5, <1>6, <2>0, <2>2, <2>3 DEF Places
  <2>5. allowance[i] >= had - Most + before
    BY <2>1
  <2>6. p \in Strays(i) => after = before - 1
    BY <2>3, OneStrayLess DEF Strays
  <2> HIDE DEF before, after, had, has
  <2> SUFFICES allowance'[i] >= has - Most + after
    BY DEF has, after
  <2>7. CASE p \in Strays(i)
    <3>1. ip[p] = i /\ ref[p] # visitors[i]
      BY <2>7 DEF Strays
    <3> QED
      BY <1>4, <2>7, <2>4, <2>5, <2>6, <3>1
  <2>8. CASE p \notin Strays(i) /\ i = ip[p]
    <3>1. ref[p] = visitors[i]
      BY <1>3, <2>8 DEF Strays
    <3> QED
      BY <1>4, <2>8, <2>4, <2>5, <3>1
  <2>9. CASE i # ip[p]
    <3>1. ref[p] # visitors[i]
      BY <1>3, <2>0, <2>9
    <3> QED
      BY <2>9, <2>4, <2>5, <3>1
  <2> QED
    BY <2>7, <2>8, <2>9 DEF Strays
<1>12. Rested'
  <2> SUFFICES ASSUME NEW i \in Ips, visitors[i] # NoVisitor
               PROVE  allowance'[i] >= Least(Burst, Refill * Rest(i)' - Most)
    BY <1>1 DEF Rested
  <2>0. visitors[i] \in DOMAIN objects /\ visitors[i] \in DOMAIN objects'
    BY <1>0, <1>1 DEF Places
  <2>1. Rest(i)' = Rest(i) /\ Rest(i) \in Int
    BY <1>0, <1>1, <1>5, <2>0 DEF Rest, Places
  <2>2. CASE i = ip[p]
    <3>1. stamp[p] <= objects[visitors[i]].lastSeen + MaxDelay
      BY <1>1, <1>3, <2>2 DEF Forgiving, Behind
    <3>2. Rest(i) <= 0
      BY <1>0, <1>3, <2>0, <3>1 DEF Rest, Places
    <3>3. Cardinality(Strays(i)') \in Nat
      BY <1>7, FewerStrays DEF Strays
    <3>4. allowance'[i] >= -Most
      BY <1>0, <1>1, <1>11, <2>0, <3>3 DEF Excess, Places
    <3> QED
      BY <1>0, <2>1, <3>2, <3>4, NoRest DEF Least, Places
  <2>3. CASE i # ip[p]
    BY <1>6, <2>1, <2>3 DEF Forgiving, Rested
  <2> QED
    BY <2>2, <2>3
<1>13. DoomedIsSettled'
  <2> SUFFICES ASSUME cleaner = "delete" PROVE Settled(doomed)'
    BY <1>1 DEF DoomedIsSettled
  <2>1. /\ visitors[doomed] # NoVisitor /\ Strays(doomed) = {}
        /\ objects[visitors[doomed]].tokens = allowance[doomed]
    BY DEF Forgiving, DoomedIsSettled, Settled
  <2>2. doomed \in Ips /\ visitors[doomed] \in DOMAIN objects' /\ objects[visitors[doomed]].ip = doomed
    BY <1>0, <1>1, <2>1 DEF Places
  <2>3. ip[p] = doomed <=> ref[p] = visitors[doomed]
    BY <1>3, <2>1, <2>2 DEF Strays
  <2>4. objects'[visitors[doomed]].tokens = allowance'[doomed]
    BY <1>5, <1>6, <2>1, <2>2, <2>3
  <2>5. Strays(doomed)' = {}
    BY <1>1, <1>7, <2>1, <2>2
  <2> QED
    BY <1>1, <2>1, <2>4, <2>5 DEF Settled
<1> QED
  BY <1>8, <1>9, <1>10, <1>11, <1>12, <1>13 DEF Forgiving

LEMMA DeleteForgiving ==
  ASSUME IInv, IInv', Forgiving, DeleteVisitor
  PROVE  Forgiving'
<1> USE NumbersAreInts
<1>0. Places /\ Places'
  BY PlacesHold, PlacesHoldNext
<1>1. /\ cleaner = "delete" /\ cleaner' = "range"
      /\ visitors' = [visitors EXCEPT ![doomed] = NoVisitor]
      /\ objects' = Collected(objects, visitors', ref)
      /\ UNCHANGED <<now, request, cutoff, allowance>>
  BY DEF DeleteVisitor
<1>2. UNCHANGED <<pc, ip, stamp, ref>>
  BY <1>1 DEF request
<1>3. \A o \in DOMAIN objects' : o \in DOMAIN objects /\ objects'[o] = objects[o]
  <2>1. objects' = [o \in DOMAIN objects \cap Referenced(visitors', ref) |-> objects[o]]
    BY <1>1, CollectedEffect
  <2> QED
    BY <2>1
<1>4. \A i \in Ips : visitors'[i] = IF i = doomed THEN NoVisitor ELSE visitors[i]
  BY <1>1 DEF IInv, TypeOK
<1>5. \A i \in Ips : i # doomed => Strays(i)' = Strays(i)
  BY <1>2, <1>4 DEF Strays, Using
<1>6. /\ doomed \in Ips /\ visitors[doomed] # NoVisitor /\ Strays(doomed) = {}
      /\ objects[visitors[doomed]].tokens = allowance[doomed]
  BY <1>0, <1>1 DEF Forgiving, DoomedIsSettled, Settled, Places
<1>7. InTime' /\ CutoffIsPast' /\ DoomedIsSettled'
  BY <1>1, <1>2 DEF Forgiving, InTime, CutoffIsPast, DoomedIsSettled
<1>8. Behind'
  <2> SUFFICES ASSUME NEW q \in Procs, Using(q), visitors'[ip[q]] # NoVisitor,
                      ref[q] # visitors'[ip[q]] \/ pc[q] = "allow"
               PROVE  stamp[q] <= objects'[visitors'[ip[q]]].lastSeen + MaxDelay
    BY <1>2 DEF Behind, Using
  <2>1. ip[q] \in Ips /\ visitors'[ip[q]] = visitors[ip[q]] /\ visitors[ip[q]] \in DOMAIN objects'
    BY <1>0, <1>2, <1>4 DEF Places
  <2> QED
    BY <1>3, <2>1 DEF Forgiving, Behind
<1>9. Orphaned'
  <2> SUFFICES ASSUME NEW i \in Ips, visitors'[i] = NoVisitor
               PROVE  /\ allowance[i] >= 0
                      /\ \A q, r \in Strays(i)' :
                           ref[q] = ref[r] /\ objects'[ref[q]].tokens = allowance[i]
    BY <1>1, <1>2 DEF Orphaned
  <2>1. \A q \in Strays(i)' : q \in Procs /\ Using(q) /\ ip[q] = i /\ ref[q] \in DOMAIN objects'
    BY <1>0, <1>2 DEF Strays, Using, Places
  <2>2. CASE i = doomed
    <3>1. \A q \in Strays(i)' : ref[q] = visitors[doomed]
      BY <1>6, <2>1, <2>2 DEF Strays
    <3>2. visitors[doomed] \in DOMAIN objects
      BY <1>0, <1>6 DEF Places
    <3> QED
      BY <1>0, <1>3, <1>6, <2>1, <2>2, <3>1, <3>2 DEF Places
  <2>3. CASE i # doomed
    BY <1>3, <1>4, <1>5, <2>1, <2>3 DEF Forgiving, Orphaned
  <2> QED
    BY <2>2, <2>3
<1>10. ASSUME NEW i \in Ips, visitors'[i] # NoVisitor
       PROVE  /\ i # doomed /\ visitors'[i] = visitors[i]
              /\ objects'[visitors'[i]] = objects[visitors[i]]
  <2>1. visitors'[i] \in DOMAIN objects'
    BY <1>0, <1>10 DEF Places
  <2> QED
    BY <1>3, <1>4, <1>10, <2>1
<1>11. Excess' /\ Rested'
  BY <1>1, <1>5, <1>10 DEF Forgiving, Excess, Rested, Rest
<1> QED
  BY <1>7, <1>8, <1>9, <1>11 DEF Forgiving

\* A visitor that is found stale is level with the ideal bucket.
LEMMA StaleIsSettled ==
  ASSUME IInv, NeverAhead, Forgiving, cleaner = "range", NEW i \in Ips, Stale(i)
  PROVE  Settled(i)
<1> USE NumbersAreInts
<1>0. Places
  BY PlacesHold
<1> DEFINE o == visitors[i]
<1>1. /\ o # NoVisitor /\ o \in DOMAIN objects /\ objects[o].ip = i
      /\ objects[o].lastSeen < now - IdleLimit
  BY <1>0, LimiterAssumption DEF Stale, Forgiving, CutoffIsPast, Places
<1>2. Strays(i) = {}
  <2> SUFFICES ASSUME NEW q \in Strays(i) PROVE FALSE
    OBVIOUS
  <2>1. stamp[q] <= objects[o].lastSeen + MaxDelay /\ now <= stamp[q] + MaxDelay /\ stamp[q] \in Int
    BY <1>0, <1>1 DEF Strays, Using, Forgiving, Behind, InTime, Places
  <2> QED
    BY <1>0, <1>1, <2>1, IdleIsLong, LimiterAssumption DEF Places
<1>3. allowance[i] >= Burst
  <2>1. Rest(i) \in Int /\ IdleLimit + 1 - 2 * MaxDelay \in Int /\ IdleLimit + 1 - 2 * MaxDelay <= Rest(i)
    BY <1>0, <1>1, LimiterAssumption DEF Rest, Places
  <2>2. /\ Refill * Rest(i) \in Int /\ Refill * (IdleLimit + 1 - 2 * MaxDelay) \in Int
        /\ Refill * (IdleLimit + 1 - 2 * MaxDelay) <= Refill * Rest(i)
    BY <2>1, MoreRest
  <2>3. Refill * Rest(i) - Most >= Burst
    BY <2>2, IdleRefills DEF Most, N
  <2>4. allowance[i] >= Least(Burst, Refill * Rest(i) - Most)
    BY <1>1 DEF Forgiving, Rested
  <2> QED
    BY <2>2, <2>3, <2>4 DEF Least
<1>4. allowance[i] <= objects[o].tokens
  BY <1>1 DEF NeverAhead, NeverStricterThanRate
<1> QED
  BY <1>0, <1>1, <1>2, <1>3, <1>4 DEF Settled, Places

LEMMA CleanerForgiving ==
  ASSUME IInv, NeverAhead, Forgiving,
         StartRange \/ EndRange \/ Exit \/ Stop \/ (\E i \in Ips : Visit(i))
  PROVE  Forgiving'
<1>1. UNCHANGED <<now, visitors, objects, request, allowance>>
  BY DEF StartRange, EndRange, Exit, Stop, Visit
<1>2. UNCHANGED <<pc, ip, stamp, ref>>
  BY <1>1 DEF request
<1>3. \A i \in Ips : Strays(i)' = Strays(i) /\ Rest(i)' = Rest(i)
  BY <1>1, <1>2 DEF Strays, Using, Rest
<1>4. InTime' /\ Behind' /\ Orphaned' /\ Excess' /\ Rested'
  BY <1>1, <1>2, <1>3 DEF Forgiving, InTime, Behind, Orphaned, Excess, Rested, Using
<1>5. CutoffIsPast'
  BY LimiterAssumption, PlacesHold DEF Forgiving, CutoffIsPast, StartRange, EndRange, Exit, Stop, Visit, Places
<1>6. cleaner' = "delete" => Settled(doomed')
  <2>1. CASE StartRange \/ EndRange \/ Exit
    BY <2>1 DEF StartRange, EndRange, Exit
  <2>2. CASE Stop
    BY <2>2 DEF Stop, Forgiving, DoomedIsSettled
  <2>3. ASSUME NEW i \in Ips, Visit(i) PROVE cleaner' = "delete" => Settled(doomed')
    BY <2>3, StaleIsSettled DEF Visit
  <2> QED
    BY <2>1, <2>2, <2>3
<1>7. doomed' \in Ips
  BY PlacesHold DEF StartRange, EndRange, Exit, Stop, Visit, Places
<1>8. DoomedIsSettled'
  BY <1>1, <1>3, <1>6, <1>7 DEF DoomedIsSettled, Settled
<1> QED
  BY <1>4, <1>5, <1>8 DEF Forgiving

LEMMA AdvanceForgiving ==
  ASSUME IInv, IInv', Forgiving, Advance
  PROVE  Forgiving'
<1> USE NumbersAreInts
<1>0. Places /\ Places'
  BY PlacesHold, PlacesHoldNext
<1>1. /\ now' = now + 1
      /\ \A p \in Procs : pc[p] # "idle" => now + 1 - stamp[p] <= MaxDelay
      /\ UNCHANGED <<visitors, pc, ip, stamp, ref, cleaner, cutoff, doomed>>
  BY DEF Advance, request
<1>2. /\ DOMAIN objects' = DOMAIN objects
      /\ \A o \in DOMAIN objects :
           /\ objects'[o].lastSeen = objects[o].lastSeen
           /\ objects'[o].tokens = Least(Burst, objects[o].tokens + Refill)
  <2>1. \A o \in DOMAIN objects : objects[o] \in Visitor
    BY DEF IInv, TypeOK
  <2> QED
    BY <2>1 DEF Advance, Visitor
<1>3. \A i \in Ips : allowance'[i] = Least(Burst, allowance[i] + Refill)
  BY DEF Advance
<1>4. \A i \in Ips : Strays(i)' = Strays(i)
  BY <1>1 DEF Strays, Using
<1>5. \A i \in Ips : \A q \in Strays(i) : ref[q] \in DOMAIN objects
  BY <1>0 DEF Strays, Places
<1>6. InTime'
  BY <1>0, <1>1 DEF Forgiving, InTime, Places
<1>7. CutoffIsPast'
  BY <1>0, <1>1, LimiterAssumption DEF Forgiving, CutoffIsPast, Places
<1>8. Behind'
  BY <1>0, <1>1, <1>2 DEF Forgiving, Behind, Using, Places
<1>9. Orphaned'
  <2> SUFFICES ASSUME NEW i \in Ips, visitors[i] = NoVisitor
               PROVE  /\ allowance'[i] >= 0
                      /\ \A q, r \in Strays(i) :
                           ref[q] = ref[r] /\ objects'[ref[q]].tokens = allowance'[i]
    BY <1>1, <1>4 DEF Orphaned
  <2>1. /\ allowance[i] >= 0 /\ allowance[i] \in Int
        /\ \A q, r \in Strays(i) : ref[q] = ref[r] /\ objects[ref[q]].tokens = allowance[i]
    BY <1>0 DEF Forgiving, Orphaned, Places
  <2>2. allowance'[i] >= 0
    BY <1>3, <2>1 DEF Least
  <2> QED
    BY <1>2, <1>3, <1>5, <2>1, <2>2
<1>10. ASSUME NEW i \in Ips, visitors[i] # NoVisitor
       PROVE  /\ allowance'[i] >= objects'[visitors[i]].tokens - Most + Cardinality(Strays(i))
              /\ allowance'[i] >= Least(Burst, Refill * Rest(i)' - Most)
  <2>1. /\ visitors[i] \in DOMAIN objects /\ objects[visitors[i]].tokens \in Nat
        /\ objects[visitors[i]].lastSeen \in Int /\ allowance[i] \in Int
    BY <1>0, <1>10 DEF Places
  <2>2. Cardinality(Strays(i)) \in Nat /\ Cardinality(Strays(i)) <= N
    BY StraysCount DEF Strays
  <2>3. allowance[i] >= objects[visitors[i]].tokens - Most + Cardinality(Strays(i))
    BY <1>10 DEF Forgiving, Excess
  <2>4. Burst >= 1
    BY LimiterAssumption
  <2>5. allowance'[i] >= objects'[visitors[i]].tokens - Most + Cardinality(Strays(i))
    <3> DEFINE had == objects[visitors[i]].tokens
               strays == Cardinality(Strays(i))
               has == objects'[visitors[i]].tokens
    <3>1. had \in Nat /\ strays \in Nat /\ strays <= N /\ allowance[i] >= had - Most + strays
      BY <2>1, <2>2, <2>3
    <3>2. has = Least(Burst, had + Refill) /\ allowance'[i] = Least(Burst, allowance[i] + Refill)
      BY <1>2, <1>3, <2>1
    <3> HIDE DEF had, strays, has
    <3> SUFFICES allowance'[i] >= has - Most + strays
      BY DEF has, strays
    <3> QED
      BY <2>1, <2>4, <3>1, <3>2 DEF Least, Most
  <2>6. allowance'[i] >= Least(Burst, Refill * Rest(i)' - Most)
    <3>1. Rest(i) \in Int /\ Rest(i)' = Rest(i) + 1
      <4>1. /\ objects'[visitors'[i]].lastSeen = objects[visitors[i]].lastSeen
            /\ now' = now + 1 /\ now \in Int /\ MaxDelay \in Nat
        BY <1>0, <1>1, <1>2, <2>1 DEF Places
      <4> QED
        BY <2>1, <4>1 DEF Rest
    <3>2. Refill * Rest(i)' = Refill * Rest(i) + Refill /\ Refill * Rest(i) \in Int
      BY <3>1, OneMoreTick
    <3>3. allowance[i] >= Least(Burst, Refill * Rest(i) - Most)
      BY <1>10 DEF Forgiving, Rested
    <3> QED
      BY <1>3, <2>1, <3>2, <3>3 DEF Least
  <2> QED
    BY <2>5, <2>6
<1>11. Excess' /\ Rested'
  BY <1>1, <1>4, <1>10 DEF Excess, Rested
<1>12. DoomedIsSettled'
  <2>1. visitors[doomed] # NoVisitor => visitors[doomed] \in DOMAIN objects
    BY <1>0 DEF Places
  <2> QED
    BY <1>0, <1>1, <1>2, <1>3, <1>4, <2>1 DEF Forgiving, DoomedIsSettled, Settled, Places
<1> QED
  BY <1>6, <1>7, <1>8, <1>9, <1>11, <1>12 DEF Forgiving

LEMMA ForgivingStep == IInv /\ IInv' /\ NeverAhead /\ Forgiving /\ [Next]_vars => Forgiving'
<1> SUFFICES ASSUME IInv, IInv', NeverAhead, Forgiving, [Next]_vars PROVE Forgiving'
  OBVIOUS
<1>1. CASE UNCHANGED vars
  <2>1. UNCHANGED <<now, visitors, objects, pc, ip, stamp, ref, cleaner, cutoff, doomed, allowance>>
    BY <1>1 DEF vars, request, cleaning
  <2> QED
    BY <2>1 DEF Forgiving, InTime, CutoffIsPast, Behind, Orphaned, Excess, Rested, Rest,
       DoomedIsSettled, Settled, Strays, Using
<1> QED
  BY <1>1, EnterLoadForgiving, CreateForgiving, TouchForgiving, AllowForgiving, DeleteForgiving,
     CleanerForgiving, AdvanceForgiving
  DEF Next, Request, Cleaning

\* An IP gets no more beyond its rate than one burst and a token for each other
\* request that was in the middleware with a dropped visitor, however often it is
\* dropped (cleanup's Delete) while getVisitor's callers still use it.
THEOREM ForgivenOnce == Spec => []ForgivenAtMostOnce
<1>1. IInv /\ Forgiving => ForgivenAtMostOnce
  <2> SUFFICES ASSUME Places, Forgiving, NEW i \in Ips PROVE allowance[i] >= -Most
    BY PlacesHold, NumbersAreInts DEF ForgivenAtMostOnce, Most, N
  <2> USE NumbersAreInts
  <2>1. CASE visitors[i] = NoVisitor
    BY <2>1 DEF Forgiving, Orphaned, Places
  <2>2. CASE visitors[i] # NoVisitor
    <3>1. Cardinality(Strays(i)) \in Nat
      BY StraysCount DEF Strays
    <3> QED
      BY <2>2, <3>1 DEF Forgiving, Excess, Places
  <2> QED
    BY <2>1, <2>2
<1> QED
  BY <1>1, Invariant, NeverAheadInit, NeverAheadStep, ForgivingInit, ForgivingStep, PTL DEF Spec
=============================================================================
